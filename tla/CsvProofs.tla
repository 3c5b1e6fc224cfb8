------------------------------ MODULE CsvProofs ------------------------------
(***************************************************************************)
(* Theorems about CsvReader, for every block size and every text, and about*)
(* VdrCsv, for every header, every message and every row.                  *)
(***************************************************************************)
EXTENDS CsvReader, VdrCsv, FiniteSetTheorems, SequenceTheorems, WellFoundedInduction, TLAPS

\* A set of natural numbers that is not empty has a least member.
LEMMA LeastMember ==
  ASSUME NEW T \in SUBSET Nat, T # {}
  PROVE  \E x \in T : \A y \in T : x <= y
<1> DEFINE R == {ss \in Nat \X Nat : ss[1] < ss[2]}
<1>1. IsWellFoundedOn(R, Nat)
  BY NatLessThanWellFounded DEF OpToRel
<1>2. T \subseteq Nat
  OBVIOUS
<1> HIDE DEF R
<1>3. PICK x \in T : \A y \in T : ~ (<<y, x>> \in R)
  BY <1>1, <1>2, WFMin
<1>4. ASSUME NEW y \in T, y < x PROVE FALSE
  <2>1. <<y, x>> \in Nat \X Nat
    OBVIOUS
  <2>2. <<y, x>> \in R
    BY <1>4, <2>1 DEF R
  <2> QED BY <1>3, <2>2
<1> QED BY <1>4

\* The part of the state that the two threads hand to each other: a block that
\* was reported is not being written, and main handles a block it was given.
HandOver ==
  /\ requested \in BOOLEAN /\ error \in BOOLEAN
  /\ count \in 0..B \union {Unknown}
  /\ count # Unknown => ~requested
  /\ worker = "reading" => requested
  /\ main \in {"copy", "start"} => ~requested

\* The part of it that is main's own.  A call goes on with a line that begins
\* in the first block, and waits for the third only when the second is free.
Bounds ==
  /\ begin \in Nat /\ end \in Nat
  /\ begin <= end /\ end <= 2 * B
  /\ main = "finish" => end <= B
  /\ main \in {"finish", "copy", "start", "scan"} => begin < B /\ begin < end
  /\ buffer \in [0..(3 * B - 1) -> 0..text.size]
  /\ text.size \in Nat /\ taken \in 0..text.size

\* The inductive invariant of the hand-over.
Inv == HandOver /\ Bounds

\* The bytes that the worker has reported and main has not taken over.
Pending == IF count # Unknown /\ main \notin {"copy", "start"} THEN count ELSE 0

\* All that main can see has been given to the caller but for the data.
Exhausted == at + (end - begin) = text.size

\* The data are the next bytes of the text.  While main copies the third block,
\* those of the second one are still there; what the worker has reported
\* follows them.
Tracks ==
  /\ text \in Texts /\ at \in Nat
  /\ at + (end - begin) + Pending = taken
  /\ \A i \in begin..(end - 1) :
       buffer[IF main = "copy" /\ i >= B THEN B + i ELSE i] = at + (i - begin) + 1
  /\ Pending > 0 => \A j \in 0..(count - 1) : buffer[2 * B + j] = taken - count + j + 1
  /\ count # Unknown => count = B \/ taken = text.size
  /\ ~Valid => Exhausted

\* The next line does not fit in a block.
NextTooLong == begin + B <= end /\ \A b \in text.breaks : ~(at < b /\ b <= at + B)

\* What the calls were told.  Until one has failed the buffer has all that is
\* left of the text, or two blocks of it; afterwards no block is waited for.
Tells ==
  /\ outcome \in {"none", "line", "failed", "tooLong", "torn", "end"}
  /\ outcome \in {"none", "line"} =>
       \/ Exhausted
       \/ IF main = "finish" THEN end = B ELSE end = 2 * B /\ begin < 2 * B
  /\ main \in {"finish", "copy", "start"} => outcome \in {"none", "line"}
  /\ outcome = "failed" => end <= B \/ begin = end
  /\ outcome = "tooLong" => begin < B /\ NextTooLong
  /\ outcome \in {"torn", "end"} => begin = end

\* The inductive invariant of the refinement.
IInv == Inv /\ Tracks /\ Tells

-----------------------------------------------------------------------------

\* The places where blocks begin.
LEMMA Blocks ==
  /\ 0 \in Nat /\ B \in Nat /\ 2 * B \in Nat
  /\ B + B <= 3 * B /\ 2 * B + B <= 3 * B
BY ReaderAssumption

\* The place of the line's end lies where main has data, or just after.
LEMMA LineEndIsThere ==
  ASSUME begin \in Nat, end \in Nat, begin <= end
  PROVE  /\ LineEnd \in begin..end
         /\ LineEnd = end \/ buffer[LineEnd] \in text.breaks
         /\ \A i \in begin..(LineEnd - 1) : buffer[i] \notin text.breaks
<1> DEFINE T == {e \in begin..end : e = end \/ buffer[e] \in text.breaks}
<1>1. T \in SUBSET Nat /\ T # {}
  <2>1. end \in T
    OBVIOUS
  <2> QED BY <2>1
<1>2. PICK e \in T : \A f \in T : e <= f
  BY <1>1, LeastMember
<1>3. \A i \in begin..(e - 1) : buffer[i] \notin text.breaks
  <2> SUFFICES ASSUME NEW i \in begin..(e - 1), buffer[i] \in text.breaks
               PROVE  FALSE
    OBVIOUS
  <2>1. i \in T
    OBVIOUS
  <2> QED BY <1>2, <2>1
<1>4. \E x \in begin..end :
        /\ x = end \/ buffer[x] \in text.breaks
        /\ \A i \in begin..(x - 1) : buffer[i] \notin text.breaks
  BY <1>3
<1> QED BY <1>4 DEF LineEnd

\* A line that is given ends within the first two blocks.
LEMMA LineFits ==
  ASSUME Inv, main = "scan", ~TooLong
  PROVE  LineEnd \in begin..end /\ LineEnd < 2 * B
<1>1. LineEnd \in begin..end
  BY LineEndIsThere DEF Inv, Bounds
<1>2. begin < B
  BY DEF Inv, Bounds
<1> QED BY <1>1, <1>2, ReaderAssumption DEF TooLong, Inv, Bounds

\* What the byte source gives is at most what was asked for and what is left.
LEMMA ReadBounds ==
  ASSUME NEW n \in Nat, text.size \in Nat, taken \in 0..text.size
  PROVE  Read(n) \in 0..n /\ taken + Read(n) \in 0..text.size
BY DEF Read, Least

\* Bytes read into the buffer leave it a buffer ...
LEMMA FilledType ==
  ASSUME Bounds, NEW n \in Nat, taken + n \in 0..text.size, NEW q \in Nat
  PROVE  Filled(q, n) \in [0..(3 * B - 1) -> 0..text.size]
<1>1. DOMAIN buffer = 0..(3 * B - 1)
  BY DEF Bounds
<1>2. \A i \in DOMAIN buffer :
        (IF i >= q /\ i < q + n THEN taken + (i - q) + 1 ELSE buffer[i])
          \in 0..text.size
  BY <1>1, ReaderAssumption DEF Bounds
<1> QED BY <1>1, <1>2 DEF Filled

\* ... as do blocks moved in it.
LEMMA CopiedType ==
  ASSUME Bounds, NEW p \in Nat, NEW q \in Nat, p + B <= 3 * B
  PROVE  Copied(p, q) \in [0..(3 * B - 1) -> 0..text.size]
<1>1. DOMAIN buffer = 0..(3 * B - 1)
  BY DEF Bounds
<1>2. \A i \in DOMAIN buffer :
        (IF i >= q /\ i < q + B THEN buffer[p + (i - q)] ELSE buffer[i])
          \in 0..text.size
  <2> SUFFICES ASSUME NEW i \in DOMAIN buffer, i >= q, i < q + B
               PROVE  buffer[p + (i - q)] \in 0..text.size
    BY <1>1 DEF Bounds
  <2>1. p + (i - q) \in 0..(3 * B - 1)
    BY <1>1, ReaderAssumption
  <2> QED BY <2>1 DEF Bounds
<1> QED BY <1>1, <1>2 DEF Copied

-----------------------------------------------------------------------------

LEMMA InitInv == Init => Inv
<1> SUFFICES ASSUME Init PROVE Inv
  OBVIOUS
<1>1. text.size \in Nat
  BY ReaderAssumption DEF Init
<1>2. taken \in 0..text.size /\ taken <= 2 * B
  BY <1>1, ReaderAssumption DEF Init, Least
<1>3. HandOver
  <2>1. requested \in BOOLEAN
    BY DEF Init, Valid
  <2>2. worker # "reading"
    BY DEF Init
  <2> QED BY <2>1, <2>2 DEF Init, HandOver
<1>4. Bounds
  <2>1. \A i \in 0..(3 * B - 1) :
          (IF i < taken THEN i + 1 ELSE Nul) \in 0..text.size
    BY <1>1, <1>2, ReaderAssumption DEF Nul
  <2>2. buffer \in [0..(3 * B - 1) -> 0..text.size]
    BY <2>1 DEF Init
  <2> QED BY <1>1, <1>2, <2>2, ReaderAssumption DEF Init, Bounds
<1> QED BY <1>3, <1>4 DEF Inv

LEMMA MainInv == Inv /\ (NextLine \/ NoMoreLines \/ Destroy \/ MainSteps) => Inv'
<1> SUFFICES ASSUME Inv, NextLine \/ NoMoreLines \/ Destroy \/ MainSteps
             PROVE  Inv'
  OBVIOUS
<1> USE DEF Inv, data, shared, told
<1>1. CASE NextLine
  <2>1. HandOver'
    BY <1>1 DEF NextLine, HandOver
  <2>2. CASE begin >= B
    <3>1. begin < 2 * B
      BY <1>1, ReaderAssumption DEF NextLine, Bounds
    <3>2. buffer' \in [0..(3 * B - 1) -> 0..text.size]
      <4>1. Copied(B, 0) \in [0..(3 * B - 1) -> 0..text.size]
        BY CopiedType, Blocks
      <4> QED BY <1>1, <2>2, <4>1 DEF NextLine
    <3> QED BY <1>1, <2>1, <2>2, <3>1, <3>2, ReaderAssumption DEF NextLine, Bounds
  <2>3. CASE ~(begin >= B)
    BY <1>1, <2>1, <2>3, ReaderAssumption DEF NextLine, Bounds
  <2> QED BY <2>2, <2>3
<1>2. CASE NoMoreLines
  BY <1>2 DEF NoMoreLines, HandOver, Bounds
<1>3. CASE Destroy
  BY <1>3 DEF Destroy, HandOver, Bounds
<1>4. CASE FinishRead
  <2>1. HandOver'
    BY <1>4 DEF FinishRead, HandOver
  <2>2. Bounds'
    BY <1>4, ReaderAssumption DEF FinishRead, Bounds, HandOver, Unknown
  <2> QED BY <2>1, <2>2
<1>5. CASE AwaitRead
  BY <1>5 DEF AwaitRead, HandOver, Bounds
<1>6. CASE FinishReadThrows
  BY <1>6 DEF FinishReadThrows, HandOver, Bounds
<1>7. CASE CopyBlock
  <2>1. HandOver'
    BY <1>7 DEF CopyBlock, HandOver
  <2>2. Copied(2 * B, B) \in [0..(3 * B - 1) -> 0..text.size]
    BY CopiedType, Blocks
  <2> QED BY <1>7, <2>1, <2>2 DEF CopyBlock, Bounds
<1>8. CASE StartRead
  BY <1>8 DEF StartRead, HandOver, Bounds, Unknown
<1>9. CASE GiveLine
  <2>1. LineEnd \in begin..end /\ LineEnd < 2 * B
    BY <1>9, LineFits DEF GiveLine
  <2>2. HandOver'
    BY <1>9 DEF GiveLine, HandOver
  <2>3. buffer' \in [0..(3 * B - 1) -> 0..text.size]
    <3>1. 0 \in 0..text.size
      BY DEF Bounds
    <3>2. \A i \in 0..(3 * B - 1) : buffer[i] \in 0..text.size
      BY DEF Bounds
    <3>3. buffer' = [i \in 0..(3 * B - 1) |-> IF i = LineEnd THEN 0 ELSE buffer[i]]
      <4>1. buffer' = [buffer EXCEPT ![LineEnd] = 0]
        BY <1>9 DEF GiveLine, Nul
      <4>2. DOMAIN buffer = 0..(3 * B - 1)
        BY DEF Bounds
      <4> HIDE DEF Inv
      <4> QED BY <4>1, <4>2
    <3> QED BY <3>1, <3>2, <3>3
  <2>4. /\ main' = "idle" /\ begin' = LineEnd + 1 /\ text' = text /\ taken' = taken
        /\ end' = IF LineEnd = end THEN end + 1 ELSE end
    BY <1>9 DEF GiveLine
  <2>5. begin' \in Nat /\ end' \in Nat /\ begin' <= end' /\ end' <= 2 * B
    <3>1. B \in Nat /\ begin \in Nat /\ end \in Nat /\ end <= 2 * B
      BY ReaderAssumption DEF Bounds
    <3> HIDE DEF Inv
    <3> QED BY <2>1, <2>4, <3>1
  <2>6. Bounds'
    BY <2>3, <2>4, <2>5 DEF Bounds
  <2> QED BY <2>2, <2>6
<1>10. CASE ThrowTooLong
  BY <1>10 DEF ThrowTooLong, HandOver, Bounds
<1>11. CASE RequestTermination
  BY <1>11 DEF RequestTermination, HandOver, Bounds
<1>12. CASE NotifyTermination
  BY <1>12 DEF NotifyTermination, HandOver, Bounds
<1>13. CASE Join
  BY <1>13 DEF Join, HandOver, Bounds
<1> QED BY <1>1, <1>2, <1>3, <1>4, <1>5, <1>6, <1>7, <1>8, <1>9, <1>10, <1>11,
           <1>12, <1>13 DEF MainSteps

LEMMA WorkerInv == Inv /\ (WorkerSteps \/ WakesByItself) => Inv'
<1> SUFFICES ASSUME Inv, WorkerSteps \/ WakesByItself
             PROVE  Inv'
  OBVIOUS
<1> USE DEF Inv, data, shared, told
<1>1. CASE WorkerTests
  BY <1>1 DEF WorkerTests, HandOver, Bounds
<1>2. CASE WorkerReads
  <2>1. Read(B) \in 0..B /\ taken + Read(B) \in 0..text.size
    BY ReadBounds, ReaderAssumption DEF Bounds
  <2>2. Filled(2 * B, Read(B)) \in [0..(3 * B - 1) -> 0..text.size]
    <3>1. Read(B) \in Nat
      BY <2>1
    <3> QED BY <2>1, <3>1, FilledType, Blocks
  <2>3. HandOver'
    <3>1. ~requested' /\ worker' # "reading" /\ count' \in 0..B
      BY <1>2, <2>1 DEF WorkerReads
    <3> QED BY <1>2, <3>1 DEF WorkerReads, HandOver
  <2>4. Bounds'
    BY <1>2, <2>1, <2>2 DEF WorkerReads, Bounds
  <2> QED BY <2>3, <2>4
<1>3. CASE WorkerFails
  BY <1>3 DEF WorkerFails, HandOver, Bounds
<1>4. CASE WakesByItself
  BY <1>4 DEF WakesByItself, HandOver, Bounds
<1> QED BY <1>1, <1>2, <1>3, <1>4 DEF WorkerSteps

LEMMA Invariance == Spec => []Inv
<1>1. Inv /\ UNCHANGED vars => Inv'
  BY DEF Inv, HandOver, Bounds, vars, data, shared, told
<1>2. Inv /\ [Next]_vars => Inv'
  BY <1>1, MainInv, WorkerInv DEF Next
<1> QED BY InitInv, <1>2, PTL DEF Spec

-----------------------------------------------------------------------------

\* Main keeps out of the third block while the worker may write it, whatever
\* the threads' order: AsynchronousReader hands it over by start_read and
\* finish_read, and a line too long to end in the first two is refused.
THEOREM KeepsOut == Spec => []NoRace
<1>1. Inv => NoRace
  BY LineFits DEF Inv, HandOver, NoRace
<1> QED BY <1>1, Invariance, PTL

\* The assertions of next_line hold: every line that is given leaves the begin
\* of the data before its end, or at it.
THEOREM Assertions == Spec => []AssertionsHold
<1>1. Inv => AssertionsHold
  BY DEF Inv, Bounds, AssertionsHold
<1> QED BY <1>1, Invariance, PTL

-----------------------------------------------------------------------------
(* What main has of the text.                                              *)

\* A text ends with a line feed, and all of them lie in it.
LEMMA TextBreaks ==
  ASSUME Tracks
  PROVE  /\ text.size \in Nat /\ text.breaks \in SUBSET (1..text.size)
         /\ text.size > 0 => text.size \in text.breaks
         /\ text \in [size : Nat, breaks : SUBSET Nat]
BY ReaderAssumption DEF Tracks

\* The bytes between the lines given and the data of main.
LEMMA Sizes ==
  ASSUME IInv
  PROVE  /\ begin \in Nat /\ end \in Nat /\ begin <= end /\ end <= 2 * B
         /\ at \in Nat /\ Pending \in Nat /\ at + (end - begin) + Pending = taken
         /\ taken \in Nat /\ taken <= text.size
BY ReaderAssumption DEF IInv, Inv, Bounds, HandOver, Tracks, Pending

\* The line's end, in the text: what main finds is the first line feed that
\* follows the lines given, if it is in the data.
LEMMA FirstBreak ==
  ASSUME IInv, main = "scan"
  PROVE  /\ LineEnd \in begin..end
         /\ \A i \in begin..(end - 1) : buffer[i] = at + (i - begin) + 1
         /\ \A b \in text.breaks : ~(at < b /\ b <= at + (LineEnd - begin))
         /\ LineEnd < end => /\ buffer[LineEnd] = at + (LineEnd - begin) + 1
                             /\ Lines!Ends(at, buffer[LineEnd])
<1>1. /\ LineEnd \in begin..end
      /\ LineEnd = end \/ buffer[LineEnd] \in text.breaks
      /\ \A i \in begin..(LineEnd - 1) : buffer[i] \notin text.breaks
  BY LineEndIsThere, Sizes
<1>2. \A i \in begin..(end - 1) : buffer[i] = at + (i - begin) + 1
  BY DEF IInv, Tracks
<1>3. text.breaks \subseteq Nat
  BY TextBreaks DEF IInv
<1>4. ASSUME NEW b \in text.breaks, at < b, b <= at + (LineEnd - begin)
      PROVE  FALSE
  <2> DEFINE i == begin + (b - at) - 1
  <2>1. i \in begin..(LineEnd - 1) /\ i \in begin..(end - 1) /\ at + (i - begin) + 1 = b
    BY <1>1, <1>3, <1>4, Sizes
  <2> HIDE DEF i
  <2> QED BY <1>1, <1>2, <1>4, <2>1
<1>5. ASSUME LineEnd < end
      PROVE  /\ buffer[LineEnd] = at + (LineEnd - begin) + 1
             /\ Lines!Ends(at, buffer[LineEnd])
  <2>1. buffer[LineEnd] = at + (LineEnd - begin) + 1 /\ buffer[LineEnd] \in text.breaks
    BY <1>1, <1>2, <1>5, Sizes
  <2>2. buffer[LineEnd] > at
    BY <1>1, <2>1, Sizes
  <2>3. \A c \in text.breaks : c > at => buffer[LineEnd] <= c
    BY <1>1, <1>3, <1>4, <2>1, Sizes
  <2> QED BY <2>1, <2>2, <2>3 DEF Lines!Ends
<1> QED BY <1>1, <1>2, <1>4, <1>5

\* A line that does not end in the data is not the last one of the text.
LEMMA NotExhausted ==
  ASSUME IInv, main = "scan", LineEnd = end
  PROVE  ~Exhausted /\ at + (end - begin) < text.size
<1>1. begin < end
  BY DEF IInv, Inv, Bounds
<1>2. at + (end - begin) <= text.size /\ text.size \in Nat
  BY Sizes, TextBreaks DEF IInv
<1>3. ASSUME at + (end - begin) = text.size PROVE FALSE
  <2>1. text.size \in text.breaks /\ at < text.size
    BY <1>1, <1>3, Sizes, TextBreaks DEF IInv
  <2> QED BY <1>3, <2>1, FirstBreak, Sizes
<1> QED BY <1>2, <1>3, Sizes DEF Exhausted

\* What does not fit in a block of the buffer is a line of the text that does
\* not fit in one.
LEMMA TooLongIsSo ==
  ASSUME IInv, main = "scan"
  PROVE  TooLong <=> NextTooLong
<1>1. LineEnd \in begin..end /\ begin \in Nat /\ end \in Nat /\ B \in Nat /\ at \in Nat
  BY FirstBreak, Sizes, ReaderAssumption
<1>2. ASSUME TooLong PROVE NextTooLong
  <2>1. begin + B <= LineEnd
    BY <1>1, <1>2 DEF TooLong
  <2>2. text.breaks \subseteq Nat
    BY TextBreaks DEF IInv
  <2>3. \A b \in text.breaks : ~(at < b /\ b <= at + B)
    BY <1>1, <2>1, <2>2, FirstBreak
  <2> QED BY <1>1, <2>1, <2>3 DEF NextTooLong
<1>3. ASSUME ~TooLong, NextTooLong PROVE FALSE
  <2>1. LineEnd < begin + B /\ begin + B <= end /\ LineEnd < end
    BY <1>1, <1>3 DEF TooLong, NextTooLong
  <2>2. buffer[LineEnd] = at + (LineEnd - begin) + 1 /\ buffer[LineEnd] \in text.breaks
    BY <2>1, FirstBreak DEF Lines!Ends
  <2>3. at < buffer[LineEnd] /\ buffer[LineEnd] <= at + B
    BY <1>1, <2>1, <2>2
  <2> QED BY <1>3, <2>2, <2>3 DEF NextTooLong
<1> QED BY <1>2, <1>3

-----------------------------------------------------------------------------
(* The invariant of the refinement.                                        *)

LEMMA InitIInv == Init => IInv
<1> SUFFICES ASSUME Init PROVE IInv
  OBVIOUS
<1>1. Inv
  BY InitInv
<1>2. text \in Texts /\ text.size \in Nat /\ B \in Nat \ {0} /\ taken = Least(2 * B, text.size)
  BY ReaderAssumption DEF Init
<1>3. taken \in Nat /\ taken <= 2 * B /\ taken <= text.size /\ (taken = 2 * B \/ taken = text.size)
  BY <1>2 DEF Least
<1>4. begin = 0 /\ end = taken /\ main = "idle" /\ count = Unknown /\ at = 0 /\ outcome = "none"
  BY DEF Init
<1>5. \A i \in 0..(taken - 1) : buffer[i] = i + 1
  <2>1. buffer = [i \in 0..(3 * B - 1) |-> IF i < taken THEN i + 1 ELSE Nul]
    BY DEF Init
  <2> QED BY <1>2, <1>3, <2>1
<1>6. Tracks
  BY <1>2, <1>3, <1>4, <1>5 DEF Tracks, Pending, Exhausted, Valid
<1>7. Tells
  BY <1>2, <1>3, <1>4 DEF Tells, Exhausted
<1> QED BY <1>1, <1>6, <1>7 DEF IInv

\* The buffer after one block was copied in it.
LEMMA CopiedBlock ==
  ASSUME Bounds, NEW p \in Nat, NEW q \in Nat
  PROVE  /\ \A i \in 0..(3 * B - 1) : i >= q /\ i < q + B => Copied(p, q)[i] = buffer[p + (i - q)]
         /\ \A i \in 0..(3 * B - 1) : ~(i >= q /\ i < q + B) => Copied(p, q)[i] = buffer[i]
BY DEF Copied, Bounds

\* A step that leaves the data, what was reported and what was told, and takes
\* main from one place outside of the reading to another.
LEMMA ElsewhereStep ==
  ASSUME IInv, UNCHANGED <<data, count, told>>,
         main' = main \/ {main, main'} \cap {"finish", "copy", "start", "scan"} = {}
  PROVE  Tracks' /\ Tells'
<1>1. UNCHANGED <<text, taken, buffer, begin, end, count, at, line, outcome>>
  BY DEF data, told
<1> QED BY <1>1 DEF IInv, Tracks, Tells, Pending, Exhausted, Valid, NextTooLong

LEMMA NextLineStep ==
  ASSUME IInv, NextLine
  PROVE  Tracks' /\ Tells'
<1>1. /\ main = "idle" /\ begin # end
      /\ UNCHANGED <<text, taken, count, at, line, outcome>>
  BY DEF NextLine, shared, told
<1>2. /\ begin \in Nat /\ end \in Nat /\ begin < end /\ end <= 2 * B
      /\ at \in Nat /\ taken \in Nat /\ B \in Nat \ {0}
  BY <1>1, Sizes, ReaderAssumption
<1>3. CASE begin >= B
  <2>1. /\ buffer' = Copied(B, 0) /\ begin' = begin - B /\ end' = end - B
        /\ main' = IF Valid THEN "finish" ELSE "scan"
    BY <1>3 DEF NextLine
  <2>2. /\ \A i \in 0..(B - 1) : buffer'[i] = buffer[B + i]
        /\ \A i \in B..(3 * B - 1) : buffer'[i] = buffer[i]
    <3>1. 0 \in Nat /\ B \in Nat /\ Bounds
      BY <1>2 DEF IInv, Inv
    <3>2. /\ \A i \in 0..(3 * B - 1) : i >= 0 /\ i < 0 + B => Copied(B, 0)[i] = buffer[B + (i - 0)]
          /\ \A i \in 0..(3 * B - 1) : ~(i >= 0 /\ i < 0 + B) => Copied(B, 0)[i] = buffer[i]
      BY <3>1, CopiedBlock
    <3> QED BY <1>2, <2>1, <3>2
  <2>3. end' - begin' = end - begin /\ begin' \in Nat /\ end' \in Nat /\ end' <= B /\ begin' < B
    BY <1>2, <1>3, <2>1
  <2>4. outcome \in {"none", "line"}
    BY <1>1, <1>2, <1>3 DEF IInv, Tells
  <2>5. Pending' = Pending
    BY <1>1, <2>1 DEF Pending
  <2>6. \A i \in begin'..(end' - 1) : buffer'[i] = at' + (i - begin') + 1
    <3> SUFFICES ASSUME NEW i \in begin'..(end' - 1)
                 PROVE  buffer'[i] = at' + (i - begin') + 1
      OBVIOUS
    <3>1. i \in 0..(B - 1) /\ B + i \in begin..(end - 1)
      BY <1>2, <2>1, <2>3
    <3>2. buffer[B + i] = at + ((B + i) - begin) + 1
      BY <1>1, <3>1 DEF IInv, Tracks
    <3> QED BY <1>1, <1>2, <2>1, <2>2, <3>1, <3>2
  <2>7. Pending' > 0 => \A j \in 0..(count' - 1) : buffer'[2 * B + j] = taken' - count' + j + 1
    <3>1. count \in 0..B \union {Unknown}
      BY DEF IInv, Inv, HandOver
    <3>2. ASSUME Pending > 0 PROVE \A j \in 0..(count - 1) : buffer'[2 * B + j] = buffer[2 * B + j]
      <4>1. \A j \in 0..(count - 1) : 2 * B + j \in B..(3 * B - 1)
        BY <1>2, <3>1 DEF Unknown
      <4> QED BY <2>2, <4>1
    <3> QED BY <1>1, <2>5, <3>2 DEF IInv, Tracks
  <2>8. Tracks'
    BY <1>1, <1>2, <2>1, <2>3, <2>5, <2>6, <2>7 DEF IInv, Tracks, Exhausted, Valid
  <2>9. Tells'
    <3>1. Exhausted => Exhausted'
      BY <1>1, <2>3 DEF Exhausted
    <3>2. CASE Valid
      BY <1>1, <1>2, <2>1, <2>3, <2>4, <3>1, <3>2 DEF IInv, Tells
    <3>3. CASE ~Valid
      <4>1. Exhausted
        BY <3>3 DEF IInv, Tracks
      <4> QED BY <1>1, <2>1, <2>4, <3>1, <3>3, <4>1 DEF Tells
    <3> QED BY <3>2, <3>3
  <2> QED BY <2>8, <2>9
<1>4. CASE ~(begin >= B)
  <2>1. main' = "scan" /\ UNCHANGED <<buffer, begin, end>>
    BY <1>4 DEF NextLine
  <2> QED BY <1>1, <2>1 DEF IInv, Tracks, Tells, Pending, Exhausted, Valid, NextTooLong
<1> QED BY <1>3, <1>4

LEMMA FinishReadStep ==
  ASSUME IInv, FinishRead
  PROVE  Tracks' /\ Tells'
<1>1. /\ main = "finish" /\ count # Unknown /\ end' = end + count /\ main' = "copy"
      /\ UNCHANGED <<text, taken, buffer, begin, count, at, line, outcome>>
  BY DEF FinishRead, shared, told
<1>2. /\ begin \in Nat /\ end \in Nat /\ begin < B /\ begin < end /\ end <= B
      /\ at \in Nat /\ taken \in Nat /\ taken <= text.size /\ B \in Nat \ {0} /\ text.size \in Nat
  BY <1>1, Sizes, TextBreaks, ReaderAssumption DEF IInv, Inv, Bounds
<1>3. count \in 0..B /\ Pending = count /\ Pending' = 0
  BY <1>1 DEF IInv, Inv, HandOver, Pending
<1>4. at + (end - begin) + count = taken
  BY <1>3 DEF IInv, Tracks
<1>5. outcome \in {"none", "line"} /\ (end = B \/ Exhausted)
  BY <1>1 DEF IInv, Tells
<1>6. end = B \/ count = 0
  BY <1>2, <1>3, <1>4, <1>5 DEF Exhausted
<1>7. \A i \in begin'..(end' - 1) :
        buffer'[IF main' = "copy" /\ i >= B THEN B + i ELSE i] = at' + (i - begin') + 1
  <2> SUFFICES ASSUME NEW i \in begin..(end + count - 1)
               PROVE  buffer[IF i >= B THEN B + i ELSE i] = at + (i - begin) + 1
    BY <1>1, <1>2, <1>3
  <2>1. CASE i < end
    <3>1. i < B /\ i \in begin..(end - 1)
      BY <1>2, <2>1
    <3> QED BY <1>1, <1>2, <3>1 DEF IInv, Tracks
  <2>2. CASE ~(i < end)
    <3>1. end = B /\ count > 0 /\ i - B \in 0..(count - 1)
      BY <1>2, <1>3, <1>6, <2>2
    <3>2. buffer[2 * B + (i - B)] = taken - count + (i - B) + 1
      BY <1>3, <3>1 DEF IInv, Tracks
    <3>3. 2 * B + (i - B) = B + i /\ taken - count + (i - B) + 1 = at + (i - begin) + 1
      BY <1>2, <1>3, <1>4, <3>1
    <3> QED BY <1>2, <3>1, <3>2, <3>3
  <2> QED BY <2>1, <2>2
<1>8. at' + (end' - begin') + Pending' = taken'
  BY <1>1, <1>2, <1>3, <1>4
<1>9. ~Valid' => Exhausted'
  BY <1>1, <1>2, <1>3, <1>4 DEF IInv, Tracks, Valid, Exhausted
<1>10. Tracks'
  BY <1>1, <1>3, <1>7, <1>8, <1>9 DEF IInv, Tracks
<1>11. Tells'
  <2>1. count = B \/ taken = text.size
    BY <1>1 DEF IInv, Tracks
  <2>2. CASE end = B /\ count = B
    BY <1>1, <1>2, <1>5, <2>2 DEF Tells
  <2>3. CASE ~(end = B /\ count = B)
    <3>1. Exhausted'
      BY <1>1, <1>2, <1>3, <1>4, <1>5, <1>6, <2>1, <2>3 DEF Exhausted
    <3> QED BY <1>1, <1>5, <3>1 DEF Tells
  <2> QED BY <2>2, <2>3
<1> QED BY <1>10, <1>11

LEMMA FinishReadThrowsStep ==
  ASSUME IInv, FinishReadThrows
  PROVE  Tracks' /\ Tells' /\ Lines!Fail
<1>1. /\ main = "finish" /\ main' = "idle" /\ outcome' = "failed"
      /\ UNCHANGED <<text, taken, buffer, begin, end, count, at, line>>
  BY DEF FinishReadThrows, shared, data
<1>2. outcome \in {"none", "line"} /\ end <= B
  BY <1>1 DEF IInv, Inv, Bounds, Tells
<1>3. Tracks'
  BY <1>1 DEF IInv, Tracks, Pending, Exhausted, Valid
<1>4. Tells'
  BY <1>1, <1>2 DEF Tells
<1>5. Lines!Fail
  BY <1>1, <1>2 DEF Lines!Fail
<1> QED BY <1>3, <1>4, <1>5

LEMMA CopyBlockStep ==
  ASSUME IInv, CopyBlock
  PROVE  Tracks' /\ Tells'
<1>1. /\ main = "copy" /\ buffer' = Copied(2 * B, B) /\ main' = "start"
      /\ UNCHANGED <<text, taken, begin, end, count, at, line, outcome>>
  BY DEF CopyBlock, shared, told
<1>2. /\ begin \in Nat /\ end \in Nat /\ end <= 2 * B /\ B \in Nat \ {0} /\ Bounds
  BY <1>1, Sizes, ReaderAssumption DEF IInv, Inv
<1>3. \A i \in begin'..(end' - 1) :
        buffer'[IF main' = "copy" /\ i >= B THEN B + i ELSE i] = at' + (i - begin') + 1
  <2> SUFFICES ASSUME NEW i \in begin..(end - 1)
               PROVE  buffer'[i] = at + (i - begin) + 1
    BY <1>1
  <2>1. buffer[IF i >= B THEN B + i ELSE i] = at + (i - begin) + 1
    BY <1>1 DEF IInv, Tracks
  <2>2. i \in 0..(3 * B - 1) /\ i < B + B /\ 2 * B + (i - B) = B + i
    BY <1>2
  <2>3. /\ i >= B => buffer'[i] = buffer[2 * B + (i - B)]
        /\ ~(i >= B) => buffer'[i] = buffer[i]
    <3>1. 2 * B \in Nat /\ B \in Nat
      BY <1>2
    <3> QED BY <1>1, <1>2, <2>2, <3>1, CopiedBlock
  <2> QED BY <2>1, <2>2, <2>3
<1>4. Pending = 0 /\ Pending' = 0
  BY <1>1 DEF Pending
<1>5. Tracks'
  BY <1>1, <1>3, <1>4 DEF IInv, Tracks, Exhausted, Valid
<1>6. Tells'
  BY <1>1 DEF IInv, Tells, Exhausted
<1> QED BY <1>5, <1>6

LEMMA StartReadStep ==
  ASSUME IInv, StartRead
  PROVE  Tracks' /\ Tells'
<1>1. /\ main = "start" /\ count' = Unknown /\ main' = "scan"
      /\ UNCHANGED <<text, taken, buffer, begin, end, at, line, outcome>>
  BY DEF StartRead, data, told
<1>2. Pending = 0 /\ Pending' = 0
  BY <1>1 DEF Pending
<1>3. Tracks'
  BY <1>1, <1>2 DEF IInv, Tracks, Exhausted, Valid
<1>4. Tells'
  BY <1>1 DEF IInv, Tells, Exhausted
<1> QED BY <1>3, <1>4

LEMMA WorkerReadsStep ==
  ASSUME IInv, WorkerReads
  PROVE  Tracks' /\ Tells'
<1>1. /\ worker = "reading" /\ buffer' = Filled(2 * B, Read(B))
      /\ taken' = taken + Read(B) /\ count' = Read(B)
      /\ UNCHANGED <<text, begin, end, main, at, line, outcome>>
  BY DEF WorkerReads, told
<1>2. requested /\ count = Unknown /\ main \notin {"copy", "start"}
  BY <1>1 DEF IInv, Inv, HandOver
<1>3. /\ begin \in Nat /\ end \in Nat /\ end <= 2 * B /\ B \in Nat \ {0} /\ at \in Nat
      /\ taken \in Nat /\ taken <= text.size /\ text.size \in Nat
  BY Sizes, TextBreaks, ReaderAssumption DEF IInv
<1>4. Read(B) \in 0..B /\ (Read(B) = B \/ taken + Read(B) = text.size)
  BY <1>3 DEF Read, Least
<1>5. /\ \A i \in 0..(2 * B - 1) : buffer'[i] = buffer[i]
      /\ \A j \in 0..(Read(B) - 1) : buffer'[2 * B + j] = taken + j + 1
  <2>1. DOMAIN buffer = 0..(3 * B - 1)
    BY DEF IInv, Inv, Bounds
  <2>2. buffer' = [i \in 0..(3 * B - 1) |->
                     IF i >= 2 * B /\ i < 2 * B + Read(B) THEN taken + (i - 2 * B) + 1 ELSE buffer[i]]
    BY <1>1, <2>1 DEF Filled
  <2>3. \A j \in 0..(Read(B) - 1) :
          2 * B + j \in 0..(3 * B - 1) /\ 2 * B + j >= 2 * B /\ 2 * B + j < 2 * B + Read(B)
          /\ taken + ((2 * B + j) - 2 * B) + 1 = taken + j + 1
    BY <1>3, <1>4
  <2>4. \A i \in 0..(2 * B - 1) : i \in 0..(3 * B - 1) /\ ~(i >= 2 * B)
    BY <1>3
  <2>5. \A j \in 0..(Read(B) - 1) : buffer'[2 * B + j] = taken + j + 1
    BY <2>2, <2>3
  <2>6. \A i \in 0..(2 * B - 1) : buffer'[i] = buffer[i]
    BY <2>2, <2>4
  <2> QED BY <2>5, <2>6
<1>6. Pending = 0 /\ Pending' = Read(B)
  BY <1>1, <1>2, <1>4 DEF Pending, Unknown
<1>7. \A i \in begin'..(end' - 1) :
        buffer'[IF main' = "copy" /\ i >= B THEN B + i ELSE i] = at' + (i - begin') + 1
  BY <1>1, <1>2, <1>3, <1>5 DEF IInv, Tracks
<1>8. \A j \in 0..(count' - 1) : buffer'[2 * B + j] = taken' - count' + j + 1
  BY <1>1, <1>3, <1>4, <1>5
<1>9. Tracks'
  BY <1>1, <1>3, <1>4, <1>6, <1>7, <1>8 DEF IInv, Tracks, Exhausted, Valid
<1>10. Tells'
  BY <1>1 DEF IInv, Tells, Exhausted, NextTooLong
<1> QED BY <1>9, <1>10

\* The line that is given is the next one of the text, or what is left of it
\* after a failure.
LEMMA GiveLineStep ==
  ASSUME IInv, GiveLine
  PROVE  Tracks' /\ Tells' /\ (Lines!Give \/ Lines!Tear)
<1> DEFINE e == LineEnd
<1>1. /\ main = "scan" /\ ~TooLong /\ main' = "idle"
      /\ buffer' = [buffer EXCEPT ![e] = Nul]
      /\ line' = [i \in 1..(e - begin) |-> buffer[begin + i - 1]]
      /\ begin' = e + 1 /\ end' = IF e = end THEN end + 1 ELSE end
      /\ at' = IF e = end THEN at + e - begin ELSE at + e - begin + 1
      /\ UNCHANGED <<text, taken, count>>
      /\ outcome' = IF e = end THEN "torn" ELSE IF outcome = "failed" THEN "failed" ELSE "line"
  BY Zenon DEF GiveLine, shared
<1>2. /\ begin \in Nat /\ end \in Nat /\ begin < end /\ end <= 2 * B /\ begin < B /\ B \in Nat \ {0}
      /\ at \in Nat /\ taken \in Nat /\ taken <= text.size /\ text.size \in Nat
      /\ Pending \in Nat /\ at + (end - begin) + Pending = taken
  BY <1>1, Sizes, TextBreaks, ReaderAssumption DEF IInv, Inv, Bounds
<1>3. /\ e \in begin..end
      /\ \A i \in begin..(end - 1) : buffer[i] = at + (i - begin) + 1
      /\ \A b \in text.breaks : ~(at < b /\ b <= at + (e - begin))
      /\ e < end => buffer[e] = at + (e - begin) + 1 /\ Lines!Ends(at, buffer[e])
  BY <1>1, FirstBreak
<1>4. e + 1 <= begin + B /\ e < 2 * B /\ ~NextTooLong
  <2>1. ~(e - begin + 1 > B)
    BY <1>1 DEF TooLong
  <2>2. ~NextTooLong
    BY <1>1, TooLongIsSo
  <2> HIDE DEF e
  <2> QED BY <1>2, <1>3, <2>1, <2>2
<1>5. outcome \in {"none", "line", "failed"}
  BY <1>1, <1>2, <1>4 DEF IInv, Tells
<1>6. e = end => outcome = "failed" /\ ~Exhausted /\ at + (end - begin) < text.size
  <2> SUFFICES ASSUME e = end PROVE outcome = "failed" /\ ~Exhausted /\ at + (end - begin) < text.size
    OBVIOUS
  <2>1. ~Exhausted /\ at + (end - begin) < text.size
    BY <1>1, NotExhausted
  <2>2. end # 2 * B
    BY <1>2, <1>4
  <2> QED BY <1>1, <1>5, <2>1, <2>2 DEF IInv, Tells
<1> HIDE DEF e
<1>7. \A i \in 0..(3 * B - 1) : i # e => buffer'[i] = buffer[i]
  BY <1>1 DEF IInv, Inv, Bounds
<1>8. Tracks'
  <2>1. at' \in Nat /\ at' + (end' - begin') = at + (end - begin) /\ Pending' = Pending
    <3>1. Pending' = Pending
      BY <1>1 DEF Pending
    <3>2. CASE e = end
      <4>1. at' = at + e - begin /\ begin' = e + 1 /\ end' = end + 1
        BY <1>1, <3>2
      <4> QED BY <1>2, <3>1, <3>2, <4>1
    <3>3. CASE e # end
      <4>1. at' = at + e - begin + 1 /\ begin' = e + 1 /\ end' = end
        BY <1>1, <3>3
      <4>2. e \in Nat /\ begin <= e
        BY <1>2, <1>3
      <4> QED BY <1>2, <3>1, <4>1, <4>2
    <3> QED BY <3>2, <3>3
  <2>2. \A i \in begin'..(end' - 1) : buffer'[i] = at' + (i - begin') + 1
    <3> SUFFICES ASSUME NEW i \in begin'..(end' - 1) PROVE buffer'[i] = at' + (i - begin') + 1
      OBVIOUS
    <3>1. e < end /\ end' = end /\ at' = at + (e - begin) + 1
      BY <1>1, <1>2, <1>3
    <3>2. i \in begin..(end - 1) /\ i # e /\ i \in 0..(3 * B - 1)
      BY <1>1, <1>2, <1>3, <3>1
    <3>3. buffer'[i] = at + (i - begin) + 1
      BY <1>3, <1>7, <3>2
    <3>4. at \in Nat /\ begin \in Nat /\ e \in Nat /\ i \in Nat /\ begin' = e + 1
      BY <1>1, <1>2, <1>3, <3>1, <3>2
    <3>5. at' + (i - begin') = at + (i - begin)
      BY <3>1, <3>4
    <3> QED BY <3>3, <3>5
  <2>3. Pending' > 0 => \A j \in 0..(count' - 1) : buffer'[2 * B + j] = taken' - count' + j + 1
    <3>1. count \in 0..B \union {Unknown}
      BY DEF IInv, Inv, HandOver
    <3>2. \A j \in 0..(count - 1) : buffer'[2 * B + j] = buffer[2 * B + j]
      <4>1. \A j \in 0..(count - 1) : 2 * B + j \in 0..(3 * B - 1) /\ 2 * B + j # e
        BY <1>2, <1>3, <1>4, <3>1 DEF Unknown
      <4> QED BY <1>7, <4>1
    <3> QED BY <1>1, <2>1, <3>2 DEF IInv, Tracks
  <2>4. ~Valid' => Exhausted'
    BY <1>1, <2>1 DEF IInv, Tracks, Valid, Exhausted
  <2>5. text' \in Texts /\ (count' # Unknown => count' = B \/ taken' = text'.size)
    BY <1>1 DEF IInv, Tracks
  <2>6. at' + (end' - begin') + Pending' = taken'
    <3>1. taken' = taken /\ at + (end - begin) + Pending = taken
      BY <1>1, <1>2
    <3> QED BY <2>1, <3>1
  <2>7. \A i \in begin'..(end' - 1) :
          buffer'[IF main' = "copy" /\ i >= B THEN B + i ELSE i] = at' + (i - begin') + 1
    <3>1. main' # "copy"
      BY <1>1
    <3> QED BY <2>2, <3>1
  <2>8. at' \in Nat
    BY <2>1
  <2> QED BY <2>3, <2>4, <2>5, <2>6, <2>7, <2>8 DEF Tracks
<1>9. Tells'
  <2>1. CASE e = end
    <3>1. outcome' = "torn" /\ begin' = end' /\ main' = "idle"
      BY <1>1, <2>1
    <3> QED BY <3>1 DEF Tells
  <2>2. CASE e # end
    <3>1. end' = end /\ begin' <= end /\ begin' < 2 * B /\ outcome' = IF outcome = "failed" THEN "failed" ELSE "line"
      BY <1>1, <1>2, <1>3, <1>4, <2>2
    <3>2. Exhausted => Exhausted'
      BY <1>1, <1>2, <1>3, <2>2 DEF Exhausted
    <3>3. begin < end => (outcome = "failed" => end <= B)
      BY <1>2 DEF IInv, Tells
    <3> QED BY <1>1, <1>2, <1>5, <3>1, <3>2, <3>3 DEF IInv, Tells
  <2> QED BY <2>1, <2>2
<1>10. CASE e = end
  <2> DEFINE n == at + (end - begin)
  <2>1. n \in (at + 1)..text.size /\ at' = n /\ outcome = "failed" /\ outcome' = "torn"
    BY <1>1, <1>2, <1>6, <1>10
  <2>2. \A b \in text.breaks : b > at => n < b
    <3>1. \A b \in text.breaks : b \in Nat
      BY TextBreaks DEF IInv
    <3> QED BY <1>2, <1>3, <1>10, <3>1
  <2>3. line' = Lines!Bytes(at, n)
    <3>1. n - at = e - begin
      BY <1>2, <1>10
    <3>2. \A i \in 1..(e - begin) : buffer[begin + i - 1] = at + i
      <4>1. \A i \in 1..(e - begin) : begin + i - 1 \in begin..(end - 1)
                                     /\ at + ((begin + i - 1) - begin) + 1 = at + i
        BY <1>2, <1>10
      <4> QED BY <1>3, <4>1
    <3> HIDE DEF n
    <3> QED BY <1>1, <3>1, <3>2 DEF Lines!Bytes
  <2> HIDE DEF n
  <2>4. Lines!Tear
    BY <1>1, <2>1, <2>2, <2>3 DEF Lines!Tear
  <2> QED BY <1>8, <1>9, <2>4
<1>11. CASE e # end
  <2> DEFINE b == buffer[e]
  <2>1. b = at + (e - begin) + 1 /\ Lines!Ends(at, b) /\ b \in text.breaks /\ b - at <= B /\ at' = b
    BY <1>1, <1>2, <1>3, <1>4, <1>11 DEF Lines!Ends
  <2>2. line' = Lines!Bytes(at, b - 1)
    <3>1. (b - 1) - at = e - begin
      BY <1>2, <1>3, <2>1
    <3>2. \A i \in 1..(e - begin) : buffer[begin + i - 1] = at + i
      <4>1. \A i \in 1..(e - begin) : begin + i - 1 \in begin..(end - 1)
                                     /\ at + ((begin + i - 1) - begin) + 1 = at + i
        BY <1>2, <1>3, <1>11
      <4> QED BY <1>3, <4>1
    <3> HIDE DEF b
    <3> QED BY <1>1, <3>1, <3>2 DEF Lines!Bytes
  <2> HIDE DEF b
  <2>3. outcome' = IF outcome = "failed" THEN "failed" ELSE "line"
    BY <1>1, <1>11
  <2>4. Lines!Give
    BY <1>1, <1>5, <2>1, <2>2, <2>3 DEF Lines!Give
  <2> QED BY <1>8, <1>9, <2>4
<1> QED BY <1>10, <1>11

\* A line that does not fit is refused, as often as it is asked for.
LEMMA ThrowTooLongStep ==
  ASSUME IInv, ThrowTooLong
  PROVE  Tracks' /\ Tells' /\ (Lines!Refuse \/ UNCHANGED Lines!vars)
<1>1. /\ main = "scan" /\ TooLong /\ main' = "idle" /\ outcome' = "tooLong"
      /\ UNCHANGED <<text, taken, buffer, begin, end, count, at, line>>
  BY DEF ThrowTooLong, data, shared
<1>2. begin < B /\ begin < end /\ NextTooLong
  BY <1>1, TooLongIsSo DEF IInv, Inv, Bounds
<1>3. Tracks'
  BY <1>1 DEF IInv, Tracks, Pending, Exhausted, Valid
<1>4. Tells'
  BY <1>1, <1>2 DEF Tells, NextTooLong
<1>5. CASE outcome = "tooLong"
  BY <1>1, <1>3, <1>4, <1>5 DEF Lines!vars
<1>6. CASE outcome # "tooLong"
  <2>1. outcome \in {"none", "line", "failed"}
    BY <1>1, <1>2, <1>6, Sizes DEF IInv, Tells
  <2>2. \E b \in text.breaks : Lines!Ends(at, b) /\ b - at > B
    <3> DEFINE S == {b \in text.breaks : b > at}
    <3>1. S \in SUBSET Nat
      BY TextBreaks DEF IInv
    <3>2. text.size \in S
      <4>1. text.size > at
        BY <1>2, Sizes, TextBreaks DEF IInv
      <4> QED BY <4>1, Sizes, TextBreaks DEF IInv
    <3>3. PICK b \in S : \A c \in S : b <= c
      BY <3>1, <3>2, LeastMember
    <3>4. b - at > B
      BY <1>2, <3>1, <3>3, Sizes, ReaderAssumption DEF NextTooLong
    <3> QED BY <3>3, <3>4 DEF Lines!Ends
  <2>3. Lines!Refuse
    BY <1>1, <2>1, <2>2 DEF Lines!Refuse
  <2> QED BY <1>3, <1>4, <2>3
<1> QED BY <1>5, <1>6

\* The end is told when the text is at its end or has failed.
LEMMA NoMoreLinesStep ==
  ASSUME IInv, NoMoreLines
  PROVE  Tracks' /\ Tells' /\ (Lines!End \/ Lines!Stop \/ UNCHANGED Lines!vars)
<1>1. /\ main = "idle" /\ begin = end /\ outcome' = "end"
      /\ UNCHANGED <<text, taken, buffer, begin, end, count, main, at, line>>
  BY DEF NoMoreLines, data, shared
<1>2. Tracks'
  BY <1>1 DEF IInv, Tracks, Pending, Exhausted, Valid
<1>3. Tells'
  BY <1>1 DEF Tells
<1>4. CASE outcome \in {"none", "line"}
  <2>1. at = text.size
    BY <1>1, <1>4, Sizes DEF IInv, Tells, Exhausted
  <2> QED BY <1>1, <1>2, <1>3, <1>4, <2>1 DEF Lines!End
<1>5. CASE outcome \in {"failed", "torn"}
  BY <1>1, <1>2, <1>3, <1>5 DEF Lines!Stop
<1>6. CASE outcome = "end"
  BY <1>1, <1>2, <1>3, <1>6 DEF Lines!vars
<1>7. outcome # "tooLong"
  BY <1>1, Sizes, ReaderAssumption DEF IInv, Tells, NextTooLong
<1> QED BY <1>4, <1>5, <1>6, <1>7 DEF IInv, Tells

\* Every step of the two threads keeps the invariant, and is one of the reader
\* that CsvLines describes or none.
LEMMA NextIInv ==
  ASSUME IInv, [Next]_vars
  PROVE  IInv' /\ [Lines!Next]_(Lines!vars)
<1>1. Inv'
  <2>1. CASE UNCHANGED vars
    BY <2>1 DEF IInv, Inv, HandOver, Bounds, vars, data, shared, told
  <2> QED BY <2>1, MainInv, WorkerInv DEF IInv, Next
<1>2. CASE GiveLine
  BY <1>1, <1>2, GiveLineStep DEF IInv, Lines!Next
<1>3. CASE ThrowTooLong
  BY <1>1, <1>3, ThrowTooLongStep DEF IInv, Lines!Next
<1>4. CASE NoMoreLines
  BY <1>1, <1>4, NoMoreLinesStep DEF IInv, Lines!Next
<1>5. CASE FinishReadThrows
  BY <1>1, <1>5, FinishReadThrowsStep DEF IInv, Lines!Next
<1>6. CASE NextLine
  BY <1>1, <1>6, NextLineStep DEF IInv, NextLine, told, Lines!vars
<1>7. CASE FinishRead
  BY <1>1, <1>7, FinishReadStep DEF IInv, FinishRead, told, Lines!vars
<1>8. CASE CopyBlock
  BY <1>1, <1>8, CopyBlockStep DEF IInv, CopyBlock, told, Lines!vars
<1>9. CASE StartRead
  BY <1>1, <1>9, StartReadStep DEF IInv, StartRead, data, told, Lines!vars
<1>10. CASE WorkerReads
  BY <1>1, <1>10, WorkerReadsStep DEF IInv, WorkerReads, told, Lines!vars
<1>11. CASE \/ AwaitRead \/ Destroy \/ RequestTermination \/ NotifyTermination \/ Join
            \/ WorkerTests \/ WorkerFails \/ WakesByItself \/ UNCHANGED vars
  <2>1. /\ UNCHANGED <<data, count, told>>
        /\ main' = main \/ {main, main'} \cap {"finish", "copy", "start", "scan"} = {}
    BY <1>11 DEF AwaitRead, Destroy, RequestTermination, NotifyTermination, Join,
                 WorkerTests, WorkerFails, WakesByItself, vars, shared
  <2>2. UNCHANGED Lines!vars
    BY <2>1 DEF data, told, Lines!vars
  <2> QED BY <1>1, <2>1, <2>2, ElsewhereStep DEF IInv
<1> QED BY <1>2, <1>3, <1>4, <1>5, <1>6, <1>7, <1>8, <1>9, <1>10, <1>11
        DEF Next, MainSteps, WorkerSteps

-----------------------------------------------------------------------------

\* The invariant of the refinement: whatever the order of the threads, the data
\* are the next bytes of the text, a block that was read ahead follows them, and
\* until a call has failed the buffer has two blocks of the text or all that is
\* left of it.
THEOREM ReaderInvariant == Spec => []IInv
<1>1. IInv /\ [Next]_vars => IInv'
  BY NextIInv
<1> QED BY InitIInv, <1>1, PTL DEF Spec

\* The reader with its blocks, its worker and its read-ahead implements CsvLines:
\* the lines given are those of the text, whole and in order, none of them longer
\* than a block, and the end is told at the end of the text or after a failure.
THEOREM LinesAreGiven == Spec => GivesTheLines
<1>1. Init => Lines!Init
  <2> SUFFICES ASSUME Init PROVE Lines!Init
    OBVIOUS
  <2>1. text \in [size : Nat, breaks : SUBSET Nat]
    BY ReaderAssumption DEF Init
  <2> QED BY <2>1 DEF Init, Lines!Init
<1>2. IInv /\ [Next]_vars => [Lines!Next]_(Lines!vars)
  BY NextIInv
<1> QED BY <1>1, <1>2, ReaderInvariant, PTL DEF Spec, GivesTheLines, Lines!Spec

-----------------------------------------------------------------------------
(* The rows of CSV files: theorems about VdrCsv, for every header, every   *)
(* message and every row.                                                  *)

\* Induction up to n, over a set.
LEMMA UpTo ==
  ASSUME NEW n \in Nat, NEW S, 0 \in S,
         \A k \in 0..n : k < n /\ k \in S => k + 1 \in S
  PROVE  0..n \subseteq S
<1>1. SUFFICES ASSUME (0..n) \ S # {} PROVE FALSE
  OBVIOUS
<1>2. PICK k \in (0..n) \ S : \A j \in (0..n) \ S : k <= j
  <2> DEFINE T == (0..n) \ S
  <2>1. T \in SUBSET Nat /\ T # {}
    BY <1>1
  <2> HIDE DEF T
  <2>2. \E x \in T : \A y \in T : x <= y
    BY <2>1, LeastMember
  <2> QED BY <2>2 DEF T
<1>3. k \in Nat /\ k # 0 /\ k <= n
  BY <1>2
<1>4. k - 1 \in 0..n /\ k - 1 < n
  BY <1>3
<1>5. k - 1 \in S
  BY <1>2, <1>3, <1>4
<1>6. (k - 1) + 1 \in S
  BY <1>4, <1>5
<1> QED BY <1>2, <1>3, <1>6

\* Induction down from n, over a set.
LEMMA DownFrom ==
  ASSUME NEW n \in Nat, NEW S, n \in S,
         \A k \in 0..n : k < n /\ k + 1 \in S => k \in S
  PROVE  0..n \subseteq S
<1> DEFINE Q == {k \in 0..n : n - k \in S}
<1>1. 0 \in Q
  OBVIOUS
<1>2. \A k \in 0..n : k < n /\ k \in Q => k + 1 \in Q
  <2> TAKE k \in 0..n
  <2> HAVE k < n /\ k \in Q
  <2>1. n - k \in S /\ n - (k + 1) \in 0..n /\ n - (k + 1) < n /\ (n - (k + 1)) + 1 = n - k
    OBVIOUS
  <2>2. n - (k + 1) \in S
    BY <2>1
  <2> QED BY <2>2
<1> HIDE DEF Q
<1>3. 0..n \subseteq Q
  BY <1>1, <1>2, UpTo
<1>4. ASSUME NEW k \in 0..n PROVE k \in S
  <2>1. n - k \in Q
    BY <1>3
  <2>2. n - (n - k) = k
    OBVIOUS
  <2> QED BY <2>1, <2>2 DEF Q
<1> QED BY <1>4

\* What FlattenSeq does, step by step.
LEMMA Flattened ==
  ASSUME NEW A, NEW s \in Seq(Seq(A)), Len(s) > 0
  PROVE  \E f \in [1..Len(s) -> Seq(A)] :
           /\ f[1] = s[1]
           /\ \A i \in 2..Len(s) : f[i] = f[i - 1] \o s[i]
           /\ FlattenSeq(s) = f[Len(s)]
<1> DEFINE n == Len(s)
           F(f, k) == f = [i \in 1..k |-> IF i = 1 THEN s[i] ELSE f[i - 1] \o s[i]]
           G == {k \in 0..n : \E f : F(f, k)}
           Flat == CHOOSE f : F(f, n)
<1>1. n \in Nat /\ n > 0
  OBVIOUS
<1>2. n \in G
  <2>1. 0 \in G
    <3>1. F([i \in 1..0 |-> 0], 0)
      OBVIOUS
    <3>2. 0 \in 0..n
      BY <1>1
    <3> QED BY <3>1, <3>2
  <2>2. ASSUME NEW k \in 0..n, k < n, k \in G PROVE k + 1 \in G
    <3>1. PICK f : F(f, k)
      BY <2>2
    <3> DEFINE g == [i \in 1..(k + 1) |-> IF i = 1 THEN s[i] ELSE f[i - 1] \o s[i]]
    <3>2. ASSUME NEW i \in 1..(k + 1), i # 1 PROVE g[i - 1] = f[i - 1]
      <4>1. i - 1 \in 1..k /\ i - 1 \in 1..(k + 1)
        BY <3>2
      <4>2. f[i - 1] = IF i - 1 = 1 THEN s[i - 1] ELSE f[i - 1 - 1] \o s[i - 1]
        BY <3>1, <4>1
      <4>3. g[i - 1] = IF i - 1 = 1 THEN s[i - 1] ELSE f[i - 1 - 1] \o s[i - 1]
        BY <4>1
      <4> QED BY <4>2, <4>3
    <3>3. F(g, k + 1)
      BY <3>2
    <3>4. k + 1 \in 0..n
      BY <2>2
    <3> HIDE DEF g, F
    <3> QED BY <3>3, <3>4
  <2> HIDE DEF G
  <2>3. 0..n \subseteq G
    BY <1>1, <2>1, <2>2, UpTo
  <2> QED BY <2>3, <1>1
<1>3. F(Flat, n)
  <2> HIDE DEF F
  <2> QED BY <1>2
<1>4. FlattenSeq(s) = Flat[n]
  BY <1>1 DEF FlattenSeq
<1> HIDE DEF Flat
<1>5. DOMAIN Flat = 1..n /\ Flat[1] = s[1] /\ \A i \in 2..n : Flat[i] = Flat[i - 1] \o s[i]
  <2>1. DOMAIN Flat = 1..n
    BY <1>3
  <2>2. \A i \in 1..n : Flat[i] = IF i = 1 THEN s[i] ELSE Flat[i - 1] \o s[i]
    BY <1>3
  <2>3. 1 \in 1..n /\ \A i \in 2..n : i \in 1..n /\ i # 1
    BY <1>1
  <2> HIDE DEF F
  <2> QED BY <2>1, <2>2, <2>3
<1>6. \A i \in 1..n : Flat[i] \in Seq(A)
  <2> DEFINE T == {0} \union {k \in 1..n : Flat[k] \in Seq(A)}
  <2>1. 0 \in T
    OBVIOUS
  <2>2. ASSUME NEW k \in 0..n, k < n, k \in T PROVE k + 1 \in T
    <3>0. k + 1 \in 1..n /\ s[k + 1] \in Seq(A)
      BY <2>2
    <3>1. CASE k = 0
      BY <3>0, <3>1, <1>5
    <3>2. CASE k # 0
      <4>1. Flat[k] \in Seq(A) /\ k + 1 \in 2..n /\ (k + 1) - 1 = k
        BY <2>2, <3>2
      <4>2. Flat[k + 1] = Flat[k] \o s[k + 1]
        BY <4>1, <1>5
      <4>3. Flat[k + 1] \in Seq(A)
        BY <4>1, <4>2, <3>0
      <4> QED BY <4>3, <3>0
    <3> QED BY <3>1, <3>2
  <2> HIDE DEF T
  <2>3. 0..n \subseteq T
    BY <1>1, <2>1, <2>2, UpTo
  <2>4. ASSUME NEW i \in 1..n PROVE Flat[i] \in Seq(A)
    <3>1. i \in 0..n /\ i # 0
      BY <1>1
    <3>2. i \in T
      BY <2>3, <3>1
    <3> QED BY <3>1, <3>2 DEF T
  <2> QED BY <2>4
<1>7. Flat = [i \in 1..n |-> Flat[i]]
  BY <1>3
<1>8. Flat \in [1..n -> Seq(A)]
  BY <1>6, <1>7
<1> QED BY <1>4, <1>5, <1>8

\* The text l has, from place o on, the text t between quotes, with its quotes
\* doubled; p[k] characters of l come before what is written for t[k + 1].
Quoted(l, o, t, p) ==
  /\ p \in [0..Len(t) -> Nat]
  /\ p[0] = o + 1 /\ p[Len(t)] + 1 <= Len(l)
  /\ l[o + 1] = Quote /\ l[p[Len(t)] + 1] = Quote
  /\ \A k \in 0..(Len(t) - 1) :
       /\ l[p[k] + 1] = t[k + 1]
       /\ IF t[k + 1] = Quote THEN l[p[k] + 2] = Quote /\ p[k + 1] = p[k] + 2
          ELSE p[k + 1] = p[k] + 1

\* The characters are different.
LEMMA Characters ==
  /\ Comma \in Chars /\ Quote \in Chars /\ Space \in Chars
  /\ "x" \in Chars
  /\ Quote # Comma /\ Quote # Space /\ Quote # "x"
  /\ Comma # Space /\ Comma # "x" /\ Space # "x"
BY DEF Chars, Comma, Quote, Space

\* How a character is written between quotes.
LEMMA RepeatedIs ==
  ASSUME NEW c \in Chars
  PROVE  /\ Repeated(c) \in Seq(Chars)
         /\ Repeated(c)[1] = c
         /\ c = Quote => Len(Repeated(c)) = 2 /\ Repeated(c)[2] = Quote
         /\ c # Quote => Len(Repeated(c)) = 1
BY Characters DEF Repeated

\* What a concatenation has.
LEMMA Concatenated ==
  ASSUME NEW A, NEW a \in Seq(A), NEW b \in Seq(A)
  PROVE  /\ a \o b \in Seq(A) /\ Len(a \o b) = Len(a) + Len(b)
         /\ \A j \in 1..Len(a) : (a \o b)[j] = a[j] /\ j \in 1..Len(a \o b)
         /\ \A j \in 1..Len(b) : /\ (a \o b)[Len(a) + j] = b[j]
                                 /\ Len(a) + j \in 1..Len(a \o b)
OBVIOUS

\* What Enclosed returns.
LEMMA EnclosedIs ==
  ASSUME NEW t \in Seq(Chars)
  PROVE  /\ Enclosed(t) \in Seq(Chars)
         /\ \E p : Quoted(Enclosed(t), 0, t, p) /\ p[Len(t)] + 1 = Len(Enclosed(t))
<1> DEFINE n == Len(t)
           s == [i \in DOMAIN t |-> Repeated(t[i])]
           D == Enclosed(t)
<1>1. n \in Nat /\ s \in Seq(Seq(Chars)) /\ Len(s) = n
  <2>1. n \in Nat /\ DOMAIN t = 1..n
    OBVIOUS
  <2>2. \A i \in 1..n : Repeated(t[i]) \in Seq(Chars)
    <3>1. \A i \in 1..n : t[i] \in Chars
      OBVIOUS
    <3> QED BY <3>1, RepeatedIs
  <2>4. s \in [1..n -> Seq(Chars)] /\ DOMAIN s = 1..n
    BY <2>1, <2>2
  <2> HIDE DEF s, n
  <2>5. s \in Seq(Seq(Chars))
    BY <2>1, <2>4
  <2> QED BY <2>1, <2>4, <2>5
<1>2. D = <<Quote>> \o FlattenSeq(s) \o <<Quote>>
  BY DEF Enclosed
<1>3. CASE n = 0
  <2>1. FlattenSeq(s) = s
    BY <1>1, <1>3 DEF FlattenSeq
  <2>2. s = << >>
    BY <1>1, <1>3
  <2>3. D = <<Quote>> \o FlattenSeq(s) \o <<Quote>>
    BY <1>2
  <2> DEFINE p == [k \in 0..n |-> 1]
  <2>4. D \in Seq(Chars) /\ Len(D) = 2 /\ D[1] = Quote /\ D[2] = Quote
    <3> DEFINE F == FlattenSeq(s)
    <3> HIDE DEF s
    <3>1. F \in Seq(Chars) /\ Len(F) = 0
      <4>1. F = << >>
        BY <2>1, <2>2
      <4> HIDE DEF F
      <4> QED BY <4>1
    <3> HIDE DEF D, F
    <3>2. D = <<Quote>> \o F \o <<Quote>>
      BY <2>3 DEF F
    <3> QED BY <3>1, <3>2, Characters
  <2>5. p \in [0..n -> Nat] /\ p[0] = 1 /\ p[n] = 1 /\ 0..(n - 1) = {}
    BY <1>3
  <2> HIDE DEF D, p
  <2>6. Quoted(D, 0, t, p)
    BY <2>4, <2>5, <1>3 DEF Quoted
  <2> QED BY <2>4, <2>5, <2>6 DEF D
<1>4. CASE n > 0
  <2>1. PICK f \in [1..n -> Seq(Chars)] :
          /\ f[1] = s[1]
          /\ \A i \in 2..n : f[i] = f[i - 1] \o s[i]
          /\ FlattenSeq(s) = f[n]
    <3> HIDE DEF s, n
    <3> QED BY <1>1, <1>4, Flattened
  <2> DEFINE F == f[n]
             Prefix(k) == /\ Len(f[k]) <= Len(F)
                          /\ \A j \in 1..Len(f[k]) : F[j] = f[k][j]
             S == {k \in 0..n : k = 0 \/ Prefix(k)}
  <2>2. F \in Seq(Chars) /\ n \in 1..n
    BY <1>1, <1>4, <2>1
  <2>3. \A k \in 1..n : Prefix(k)
    <3>1. n \in S
      BY <2>2, <1>1
    <3>2. ASSUME NEW k \in 0..n, k < n, k + 1 \in S PROVE k \in S
      <4>1. CASE k = 0
        BY <4>1
      <4>2. CASE k # 0
        <5>1. k \in 1..n /\ k + 1 \in 2..n /\ k + 1 \in 1..n /\ (k + 1) - 1 = k
          BY <3>2, <4>2
        <5>2. f[k + 1] = f[k] \o s[k + 1]
          BY <5>1, <2>1
        <5>3. f[k] \in Seq(Chars) /\ s[k + 1] \in Seq(Chars)
          <6>1. f[k] \in Seq(Chars)
            BY <5>1, <2>1
          <6> HIDE DEF s
          <6>2. s[k + 1] \in Seq(Chars)
            BY <5>1, <1>1
          <6> QED BY <6>1, <6>2
        <5>4. Prefix(k + 1)
          BY <3>2, <5>1
        <5> HIDE DEF s, F
        <5>5. /\ Len(f[k + 1]) = Len(f[k]) + Len(s[k + 1])
              /\ \A j \in 1..Len(f[k]) : f[k + 1][j] = f[k][j] /\ j \in 1..Len(f[k + 1])
          <6>1. /\ Len(f[k] \o s[k + 1]) = Len(f[k]) + Len(s[k + 1])
                /\ \A j \in 1..Len(f[k]) : /\ (f[k] \o s[k + 1])[j] = f[k][j]
                                           /\ j \in 1..Len(f[k] \o s[k + 1])
            <7> DEFINE a == f[k]
                       b == s[k + 1]
            <7>1. a \in Seq(Chars) /\ b \in Seq(Chars)
              BY <5>3
            <7> HIDE DEF a, b
            <7>2. /\ Len(a \o b) = Len(a) + Len(b)
                  /\ \A j \in 1..Len(a) : (a \o b)[j] = a[j] /\ j \in 1..Len(a \o b)
              BY <7>1, Concatenated
            <7> QED BY <7>2 DEF a, b
          <6> QED BY <5>2, <6>1
        <5>6. Len(f[k]) \in Nat /\ Len(s[k + 1]) \in Nat /\ Len(F) \in Nat
          BY <5>3, <2>2
        <5>7. Prefix(k)
          <6>1. Len(f[k]) <= Len(F)
            <7>1. Len(f[k + 1]) <= Len(F)
              BY <5>4
            <7>2. Len(f[k + 1]) = Len(f[k]) + Len(s[k + 1])
              BY <5>5
            <7> DEFINE a == Len(f[k])
                       b == Len(s[k + 1])
                       c == Len(f[k + 1])
                       e == Len(F)
            <7>3. a \in Nat /\ b \in Nat /\ e \in Nat /\ c = a + b /\ c <= e
              BY <5>6, <7>1, <7>2
            <7> HIDE DEF a, b, c, e
            <7>4. a <= e
              BY <7>3
            <7> QED BY <7>4 DEF a, e
          <6>2. ASSUME NEW j \in 1..Len(f[k]) PROVE F[j] = f[k][j]
            <7>1. f[k + 1][j] = f[k][j] /\ j \in 1..Len(f[k + 1])
              BY <5>5
            <7> QED BY <5>4, <7>1
          <6> QED BY <6>1, <6>2
        <5> QED BY <5>1, <5>7
      <4> QED BY <4>1, <4>2
    <3> HIDE DEF S
    <3>3. 0..n \subseteq S
      BY <1>1, <3>1, <3>2, DownFrom
    <3>4. ASSUME NEW k \in 1..n PROVE k \in S /\ k # 0
      <4>1. k \in 0..n /\ k # 0
        BY <1>1
      <4> QED BY <4>1, <3>3
    <3> HIDE DEF Prefix
    <3> QED BY <3>4 DEF S
  <2> DEFINE p == [k \in 0..n |-> IF k = 0 THEN 1 ELSE 1 + Len(f[k])]
  <2>4. /\ D \in Seq(Chars) /\ Len(D) = Len(F) + 2
        /\ D[1] = Quote /\ D[Len(F) + 2] = Quote
        /\ \A j \in 1..Len(F) : D[j + 1] = F[j]
    <3> HIDE DEF D, F, s
    <3>1. D = <<Quote>> \o F \o <<Quote>>
      BY <1>2, <2>1 DEF F
    <3> QED BY <3>1, <2>2, Characters
  <2>5. p \in [0..n -> Nat] /\ p[0] = 1 /\ p[n] = 1 + Len(F)
    BY <1>1, <1>4, <2>1
  <2>6. ASSUME NEW k \in 0..(n - 1)
        PROVE  /\ D[p[k] + 1] = t[k + 1]
               /\ IF t[k + 1] = Quote THEN D[p[k] + 2] = Quote /\ p[k + 1] = p[k] + 2
                  ELSE p[k + 1] = p[k] + 1
    <3> DEFINE r == Repeated(t[k + 1])
               a == IF k = 0 THEN 0 ELSE Len(f[k])
    <3>1. k \in 0..n /\ k + 1 \in 0..n /\ k + 1 \in 1..n /\ k + 1 # 0 /\ t[k + 1] \in Chars
      BY <1>1
    <3>2. s[k + 1] = r
      BY <3>1
    <3>3. /\ r \in Seq(Chars) /\ r[1] = t[k + 1]
          /\ t[k + 1] = Quote => Len(r) = 2 /\ r[2] = Quote
          /\ t[k + 1] # Quote => Len(r) = 1
      BY <3>1, RepeatedIs
    <3>4. f[k + 1] \in Seq(Chars) /\ a \in Nat
      BY <3>1, <2>1
    <3> HIDE DEF r, s
    <3>5. /\ Len(f[k + 1]) = a + Len(r)
          /\ \A j \in 1..Len(r) : f[k + 1][a + j] = r[j] /\ a + j \in 1..Len(f[k + 1])
      <4>1. CASE k = 0
        BY <4>1, <2>1, <3>2, <3>3
      <4>2. CASE k # 0
        <5>1. k \in 1..n /\ k + 1 \in 2..n /\ (k + 1) - 1 = k
          BY <3>1, <4>2, <1>1
        <5>2. f[k + 1] = f[k] \o r /\ f[k] \in Seq(Chars)
          BY <5>1, <2>1, <3>2
        <5> QED BY <4>2, <5>2, <3>3
      <4> QED BY <4>1, <4>2
    <3>6. p[k] = 1 + a /\ p[k + 1] = 1 + a + Len(r)
      <4>1. p[k] = IF k = 0 THEN 1 ELSE 1 + Len(f[k])
        BY <3>1
      <4>2. p[k + 1] = 1 + Len(f[k + 1])
        BY <3>1
      <4>3. Len(r) \in Nat /\ a \in Nat
        BY <3>3, <3>4
      <4>4. p[k] = 1 + a
        BY <4>1
      <4> HIDE DEF p, a
      <4> QED BY <4>2, <4>3, <4>4, <3>5
    <3>7. Prefix(k + 1)
      BY <2>3, <3>1
    <3> HIDE DEF p, a, D
    <3>8. \A j \in 1..Len(r) : D[p[k] + j] = r[j]
      <4> TAKE j \in 1..Len(r)
      <4>1. f[k + 1][a + j] = r[j] /\ a + j \in 1..Len(f[k + 1])
        BY <3>5
      <4>2. F[a + j] = r[j] /\ a + j \in 1..Len(F)
        BY <4>1, <3>7, <3>4, <2>2
      <4>3. D[(a + j) + 1] = r[j]
        BY <4>2, <2>4
      <4>4. (a + j) + 1 = p[k] + j
        BY <3>6, <3>4, <3>3
      <4> QED BY <4>3, <4>4
    <3>9. 1 \in 1..Len(r) /\ (t[k + 1] = Quote => 2 \in 1..Len(r))
      BY <3>3
    <3> QED BY <3>3, <3>4, <3>6, <3>8, <3>9
  <2> HIDE DEF D, p, s, F
  <2>7. p[n] + 1 = Len(D) /\ Len(F) \in Nat
    BY <2>2, <2>4, <2>5
  <2>8. Quoted(D, 0, t, p)
    BY <2>4, <2>5, <2>6, <2>7, <2>2 DEF Quoted
  <2> QED BY <2>4, <2>7, <2>8 DEF D
<1> QED BY <1>1, <1>3, <1>4

\* Where the text written for a character begins lies within the quotes.
LEMMA QuotedWithin ==
  ASSUME NEW l, NEW o \in Nat, NEW t \in Seq(Chars), NEW p, Quoted(l, o, t, p),
         NEW k \in 0..Len(t)
  PROVE  p[k] \in Nat /\ o + 1 <= p[k] /\ p[k] <= p[Len(t)] /\ p[Len(t)] \in Nat
<1> DEFINE n == Len(t)
           S == {j \in 0..n : o + 1 <= p[j]}
           T == {j \in 0..n : p[j] <= p[n]}
<1>1. n \in Nat /\ 0 \in 0..n /\ n \in 0..n
  OBVIOUS
<1>2. p \in [0..n -> Nat] /\ p[0] = o + 1
  BY DEF Quoted
<1>3. \A j \in 0..n : j < n => p[j + 1] = p[j] + 1 \/ p[j + 1] = p[j] + 2
  <2> TAKE j \in 0..n
  <2> HAVE j < n
  <2>1. j \in 0..(n - 1)
    OBVIOUS
  <2> QED BY <2>1 DEF Quoted
<1> HIDE DEF n
<1>4. \A j \in 0..n : j < n => /\ j + 1 \in 0..n /\ p[j] \in Nat /\ p[j + 1] \in Nat
                               /\ p[j] <= p[j + 1]
  BY <1>1, <1>2, <1>3
<1>5. 0..n \subseteq S
  <2>1. 0 \in S
    BY <1>1, <1>2
  <2>2. \A j \in 0..n : j < n /\ j \in S => j + 1 \in S
    BY <1>4
  <2> HIDE DEF S
  <2> QED BY <1>1, <2>1, <2>2, UpTo
<1>6. 0..n \subseteq T
  <2>1. n \in T
    BY <1>1, <1>2
  <2>2. \A j \in 0..n : j < n /\ j + 1 \in T => j \in T
    <3> TAKE j \in 0..n
    <3> HAVE j < n /\ j + 1 \in T
    <3>1. p[j] \in Nat /\ p[j + 1] \in Nat /\ p[j] <= p[j + 1] /\ p[j + 1] <= p[n] /\ p[n] \in Nat
      BY <1>1, <1>2, <1>4
    <3>2. p[j] <= p[n]
      BY ONLY <3>1
    <3> QED BY <3>2
  <2> HIDE DEF T
  <2> QED BY <1>1, <2>1, <2>2, DownFrom
<1>7. k \in 0..n
  BY DEF n
<1>8. k \in S /\ k \in T
  BY <1>5, <1>6, <1>7
<1> QED BY <1>1, <1>2, <1>7, <1>8 DEF n

\* A set of numbers up to n that is not empty has a greatest member.
LEMMA GreatestMember ==
  ASSUME NEW n \in Nat, NEW T \in SUBSET (0..n), T # {}
  PROVE  \E x \in T : \A y \in T : x >= y
<1> DEFINE S == {n - x : x \in T}
<1>1. S \in SUBSET Nat /\ S # {}
  <2>1. \A x \in T : n - x \in Nat
    OBVIOUS
  <2>2. S \subseteq Nat
    BY <2>1
  <2>3. PICK x : x \in T
    OBVIOUS
  <2>4. n - x \in S
    BY <2>3
  <2> QED BY <2>2, <2>4
<1> HIDE DEF S
<1>2. PICK z \in S : \A y \in S : z <= y
  BY <1>1, LeastMember
<1>3. PICK x \in T : z = n - x
  BY <1>2 DEF S
<1>4. ASSUME NEW y \in T PROVE x >= y
  <2>1. n - y \in S
    BY DEF S
  <2>2. n - x <= n - y /\ x \in 0..n /\ y \in 0..n
    BY <1>2, <1>3, <2>1
  <2> QED BY <2>2
<1> QED BY <1>4

\* The ends of a set of places of a text.
LEMMA EndsOf ==
  ASSUME NEW n \in Nat, NEW T \in SUBSET (1..n), T # {}
  PROVE  /\ Min(T) \in T /\ \A y \in T : Min(T) <= y
         /\ Max(T) \in T /\ \A y \in T : Max(T) >= y
<1>1. T \in SUBSET Nat /\ T \in SUBSET (0..n)
  OBVIOUS
<1>2. \E x \in T : \A y \in T : x <= y
  BY <1>1, LeastMember
<1>3. \E x \in T : \A y \in T : x >= y
  BY <1>1, GreatestMember
<1>4. Min(T) \in T /\ \A y \in T : Min(T) <= y
  BY <1>2 DEF Min
<1>5. Max(T) \in T /\ \A y \in T : Max(T) >= y
  BY <1>3 DEF Max
<1> QED BY <1>4, <1>5

\* A trimmed text is a text.
LEMMA TrimmedIs ==
  ASSUME NEW t \in Seq(Chars)
  PROVE  Trimmed(t) \in Seq(Chars)
<1>1. CASE Inner(t) = {}
  BY <1>1 DEF Trimmed
<1>2. CASE Inner(t) # {}
  <2>1. Len(t) \in Nat /\ Inner(t) \in SUBSET (1..Len(t))
    BY DEF Inner
  <2>2. Min(Inner(t)) \in 1..Len(t) /\ Max(Inner(t)) \in 1..Len(t)
    BY <1>2, <2>1, EndsOf
  <2>3. SubSeq(t, Min(Inner(t)), Max(Inner(t))) \in Seq(Chars)
    BY <2>1, <2>2, SubSeqProperties
  <2> QED BY <1>2, <2>3 DEF Trimmed
<1> QED BY <1>1, <1>2

\* From place u on, m has the z characters that l has from place o on.
SamePart(l, o, m, u, z) == u + z <= Len(m) /\ \A i \in 1..z : m[u + i] = l[o + i]

\* What is written between quotes at one place is so at any other.
LEMMA Shifted ==
  ASSUME NEW l \in Seq(Chars), NEW m \in Seq(Chars), NEW t \in Seq(Chars),
         NEW o \in Nat, NEW u \in Nat, NEW q, NEW z \in Nat,
         Quoted(l, o, t, q), q[Len(t)] + 1 = o + z, SamePart(l, o, m, u, z)
  PROVE  \E p : Quoted(m, u, t, p) /\ p[Len(t)] + 1 = u + z
<1> DEFINE n == Len(t)
           p == [k \in 0..n |-> q[k] - o + u]
<1>1. n \in Nat /\ q \in [0..n -> Nat] /\ q[0] = o + 1 /\ q[n] + 1 = o + z /\ Len(m) \in Nat
  BY DEF Quoted
<1>2. \A k \in 0..n : q[k] \in Nat /\ o + 1 <= q[k] /\ q[k] + 1 <= o + z
  <2> TAKE k \in 0..n
  <2>1. q[k] \in Nat /\ o + 1 <= q[k] /\ q[k] <= q[n] /\ q[n] \in Nat
    BY QuotedWithin
  <2> HIDE DEF n
  <2> QED BY <2>1, <1>1
<1>3. \A k \in 0..(n - 1) :
        /\ l[q[k] + 1] = t[k + 1]
        /\ IF t[k + 1] = Quote THEN l[q[k] + 2] = Quote /\ q[k + 1] = q[k] + 2
           ELSE q[k + 1] = q[k] + 1
  BY DEF Quoted
<1>4. l[o + 1] = Quote /\ l[q[n] + 1] = Quote
  BY DEF Quoted
<1> HIDE DEF n
<1>5. \A k \in 0..n : p[k] = q[k] - o + u /\ p[k] \in Nat /\ u + 1 <= p[k]
  <2> TAKE k \in 0..n
  <2>1. q[k] \in Nat /\ o + 1 <= q[k]
    BY <1>2
  <2>2. p[k] = q[k] - o + u
    OBVIOUS
  <2> HIDE DEF p
  <2> DEFINE x == q[k]
             y == p[k]
  <2>3. x \in Nat /\ o + 1 <= x /\ y = x - o + u
    BY <2>1, <2>2
  <2> HIDE DEF x, y
  <2>4. y = x - o + u /\ y \in Nat /\ u + 1 <= y
    BY <2>3
  <2> QED BY <2>4 DEF x, y
<1>6. p \in [0..n -> Nat]
  BY <1>5
<1> HIDE DEF p
<1>7. u + z <= Len(m) /\ \A i \in 1..z : m[u + i] = l[o + i]
  BY DEF SamePart
\* Any place within the quotes.
<1>8. ASSUME NEW k \in 0..n, NEW d \in 1..2, q[k] + d <= o + z
      PROVE  m[p[k] + d] = l[q[k] + d]
  <2> DEFINE x == q[k]
             y == p[k]
             i == x - o + d
  <2>1. x \in Nat /\ o + 1 <= x /\ y = x - o + u /\ x + d <= o + z
    BY <1>2, <1>5, <1>8
  <2> HIDE DEF x, y
  <2>2. i \in 1..z /\ u + i = y + d /\ o + i = x + d
    BY <2>1
  <2> HIDE DEF i
  <2>3. m[u + i] = l[o + i]
    BY <1>7, <2>2
  <2>4. m[y + d] = l[x + d]
    BY <2>2, <2>3
  <2> QED BY <2>4 DEF x, y
<1>9. 0 \in 0..n /\ n \in 0..n
  BY <1>1
<1>10. p[0] = u + 1 /\ p[n] + 1 = u + z /\ p[n] + 1 <= Len(m)
  <2>1. p[0] = q[0] - o + u /\ p[n] = q[n] - o + u
    BY <1>5, <1>9
  <2> DEFINE a == q[0]
             b == q[n]
             c == p[0]
             e == p[n]
             f == Len(m)
  <2>2. /\ a = o + 1 /\ b + 1 = o + z /\ c = a - o + u /\ e = b - o + u /\ u + z <= f
        /\ a \in Nat /\ b \in Nat /\ f \in Nat
    BY <1>1, <1>2, <1>7, <1>9, <2>1
  <2> HIDE DEF a, b, c, e, f
  <2>3. c = u + 1 /\ e + 1 = u + z /\ e + 1 <= f
    BY <2>2
  <2> QED BY <2>3 DEF c, e, f
<1>11. m[u + 1] = Quote
  <2>1. 1 \in 1..z
    BY <1>1, <1>2, <1>9
  <2> QED BY <2>1, <1>4, <1>7
<1>12. m[p[n] + 1] = Quote
  <2>1. q[n] + 1 <= o + z /\ 1 \in 1..2
    BY <1>2, <1>9
  <2> QED BY <2>1, <1>4, <1>8, <1>9
<1>13. ASSUME NEW k \in 0..(n - 1)
       PROVE  /\ m[p[k] + 1] = t[k + 1]
              /\ IF t[k + 1] = Quote THEN m[p[k] + 2] = Quote /\ p[k + 1] = p[k] + 2
                 ELSE p[k + 1] = p[k] + 1
  <2>1. k \in 0..n /\ k + 1 \in 0..n /\ 1 \in 1..2 /\ 2 \in 1..2
    BY <1>1
  <2>2. q[k] + 1 <= o + z /\ q[k + 1] + 1 <= o + z /\ q[k] \in Nat
    BY <1>2, <2>1
  <2>3. m[p[k] + 1] = t[k + 1]
    <3>1. m[p[k] + 1] = l[q[k] + 1]
      BY <1>8, <2>1, <2>2
    <3> QED BY <3>1, <1>3
  <2>4. p[k] = q[k] - o + u /\ p[k + 1] = q[k + 1] - o + u
    BY <1>5, <2>1
  <2>5. CASE t[k + 1] = Quote
    <3>1. l[q[k] + 2] = Quote /\ q[k + 1] = q[k] + 2
      BY <1>3, <2>5
    <3>2. q[k] + 2 <= o + z
      <4> DEFINE x == q[k]
                 y == q[k + 1]
      <4>1. x \in Nat /\ y = x + 2 /\ y + 1 <= o + z
        BY <3>1, <2>2
      <4> HIDE DEF x, y
      <4>2. x + 2 <= o + z
        BY <4>1
      <4> QED BY <4>2 DEF x
    <3>3. m[p[k] + 2] = Quote
      <4>1. m[p[k] + 2] = l[q[k] + 2]
        BY <1>8, <2>1, <3>2
      <4> QED BY <4>1, <3>1
    <3>4. p[k + 1] = p[k] + 2
      <4> DEFINE x == q[k]
      <4>1. /\ p[k] = x - o + u /\ p[k + 1] = (x + 2) - o + u
            /\ x \in Nat /\ o \in Nat /\ u \in Nat
        BY <2>2, <2>4, <3>1
      <4> HIDE DEF x
      <4> QED BY ONLY <4>1
    <3> QED BY <2>3, <2>5, <3>3, <3>4
  <2>6. CASE t[k + 1] # Quote
    <3>1. q[k + 1] = q[k] + 1
      BY <1>3, <2>6
    <3>2. p[k + 1] = p[k] + 1
      <4> DEFINE x == q[k]
      <4>1. /\ p[k] = x - o + u /\ p[k + 1] = (x + 1) - o + u
            /\ x \in Nat /\ o \in Nat /\ u \in Nat
        BY <2>2, <2>4, <3>1
      <4> HIDE DEF x
      <4> QED BY ONLY <4>1
    <3> QED BY <2>3, <2>6, <3>2
  <2> QED BY <2>5, <2>6
<1>14. Quoted(m, u, t, p)
  BY <1>6, <1>10, <1>11, <1>12, <1>13 DEF Quoted, n
<1> QED BY <1>10, <1>14 DEF n

\* The row l is what is written for a message that is t when it is trimmed.
RowOf(l, t, p) ==
  /\ l \in Seq(Chars)
  /\ l[1] = "x" /\ l[2] = Comma /\ l[3] = "x" /\ l[4] = Comma /\ l[5] = Comma
  /\ Quoted(l, 5, t, p) /\ p[Len(t)] + 1 = Len(l)

\* The recorder writes such rows.
LEMMA WrittenIs ==
  ASSUME NEW m \in Seq(Chars)
  PROVE  /\ Trimmed(m) \in Seq(Chars)
         /\ \E p : RowOf(FormatNmea0183AsCsv(m), Trimmed(m), p)
<1> DEFINE t == Trimmed(m)
           D == Enclosed(t)
           l == FormatNmea0183AsCsv(m)
           n == Len(t)
<1>1. t \in Seq(Chars)
  BY TrimmedIs
<1>2. l = <<"x">> \o <<Comma, "x", Comma, Comma>> \o D
  BY DEF FormatNmea0183AsCsv, Stamp
<1> HIDE DEF t, l
<1>3. D \in Seq(Chars)
  BY <1>1, EnclosedIs
<1>4. PICK q : Quoted(D, 0, t, q) /\ q[n] + 1 = Len(D)
  BY <1>1, EnclosedIs
<1> HIDE DEF D
<1>5. /\ l \in Seq(Chars) /\ Len(l) = 5 + Len(D)
      /\ l[1] = "x" /\ l[2] = Comma /\ l[3] = "x" /\ l[4] = Comma /\ l[5] = Comma
      /\ \A i \in 1..Len(D) : l[5 + i] = D[i]
  BY <1>2, <1>3, Characters
<1>6. PICK p : Quoted(l, 5, t, p) /\ p[n] + 1 = 5 + Len(D)
  <2> DEFINE o == 0
             u == 5
             z == Len(D)
  <2>1. /\ o \in Nat /\ u \in Nat /\ z \in Nat /\ Quoted(D, o, t, q) /\ q[n] + 1 = o + z
        /\ u + z <= Len(l) /\ \A i \in 1..z : l[u + i] = D[o + i]
    BY <1>3, <1>4, <1>5
  <2> HIDE DEF o, u, z
  <2>2. SamePart(D, o, l, u, z)
    BY <2>1 DEF SamePart
  <2>3. \E p : Quoted(l, u, t, p) /\ p[n] + 1 = u + z
    <3>1. /\ D \in Seq(Chars) /\ l \in Seq(Chars) /\ t \in Seq(Chars)
          /\ o \in Nat /\ u \in Nat /\ z \in Nat /\ Quoted(D, o, t, q) /\ q[n] + 1 = o + z
      BY <1>1, <1>3, <1>5, <2>1
    <3> QED BY <2>2, <3>1, Shifted
  <2> QED BY <2>3 DEF u, z
<1>7. RowOf(l, t, p)
  BY <1>5, <1>6 DEF RowOf
<1> QED BY <1>1, <1>7 DEF t, l

\* What find_next_column_end does, step by step.
LEMMA ColumnEndIs ==
  ASSUME Len(row) \in Nat, NEW j \in 1..(Len(row) + 1)
  PROVE  ColumnEnd(j) =
           IF j = Len(row) + 1 THEN j
           ELSE IF row[j] = Comma THEN j
           ELSE IF row[j] # Quote THEN ColumnEnd(j + 1)
           ELSE IF Closes(j) = {} THEN 0
           ELSE ColumnEnd(Min(Closes(j)) + 1)
<1> DEFINE n == Len(row)
           E(f, i) == IF i = n + 1 THEN i
                      ELSE IF row[i] = Comma THEN i
                      ELSE IF row[i] # Quote THEN f[i + 1]
                      ELSE IF Closes(i) = {} THEN 0
                      ELSE f[Min(Closes(i)) + 1]
           F(f, k) == f = [i \in (k + 1)..(n + 1) |-> E(f, i)]
           End == CHOOSE f : f = [i \in 1..(n + 1) |-> E(f, i)]
           G == {k \in 0..n : \E f : F(f, k)}
<1>1. n \in Nat
  OBVIOUS
<1>2. ASSUME NEW i \in 1..n, Closes(i) # {}
      PROVE  Min(Closes(i)) + 1 \in (i + 2)..(n + 1)
  <2>1. Closes(i) \in SUBSET (1..n) /\ Closes(i) \in SUBSET ((i + 1)..n)
    BY <1>1 DEF Closes
  <2>2. Min(Closes(i)) \in Closes(i)
    BY <1>1, <1>2, <2>1, EndsOf
  <2> QED BY <1>1, <2>1, <2>2
<1>3. 0 \in G
  <2>1. n \in G
    <3> DEFINE f == [i \in (n + 1)..(n + 1) |-> i]
    <3>1. \A i \in (n + 1)..(n + 1) : i = E(f, i)
      BY <1>1
    <3>2. F(f, n)
      <4> HIDE DEF E
      <4>1. f = [i \in (n + 1)..(n + 1) |-> i]
        OBVIOUS
      <4> HIDE DEF f
      <4> QED BY <3>1, <4>1
    <3>3. n \in 0..n
      BY <1>1
    <3> HIDE DEF F, f
    <3> QED BY <3>2, <3>3
  <2>2. ASSUME NEW k \in 0..n, k < n, k + 1 \in G PROVE k \in G
    <3>1. PICK f : F(f, k + 1)
      BY <2>2
    <3> DEFINE g == [i \in (k + 1)..(n + 1) |-> E(f, i)]
    <3>2. \A i \in (k + 2)..(n + 1) : g[i] = f[i]
      <4> TAKE i \in (k + 2)..(n + 1)
      <4>1. i \in (k + 1)..(n + 1) /\ i \in ((k + 1) + 1)..(n + 1)
        BY <1>1
      <4> HIDE DEF E
      <4>2. f[i] = E(f, i) /\ g[i] = E(f, i)
        BY <3>1, <4>1
      <4> QED BY <4>2
    <3>3. \A i \in (k + 1)..(n + 1) : E(g, i) = E(f, i)
      <4> TAKE i \in (k + 1)..(n + 1)
      <4>1. CASE i = n + 1
        BY <4>1
      <4>2. CASE i # n + 1
        <5>1. i \in 1..n /\ i + 1 \in (k + 2)..(n + 1)
          BY <1>1, <4>2
        <5>2. Closes(i) # {} => Min(Closes(i)) + 1 \in (k + 2)..(n + 1)
          <6> SUFFICES ASSUME Closes(i) # {}
                       PROVE  Min(Closes(i)) + 1 \in (k + 2)..(n + 1)
            OBVIOUS
          <6>1. Min(Closes(i)) + 1 \in (i + 2)..(n + 1)
            BY <1>2, <5>1
          <6> QED BY <5>1, <6>1, <1>1
        <5>3. g[i + 1] = f[i + 1]
          BY <3>2, <5>1
        <5>4. Closes(i) # {} =>
                g[Min(Closes(i)) + 1] = f[Min(Closes(i)) + 1]
          BY <3>2, <5>2
        <5> HIDE DEF g
        <5> QED BY <5>3, <5>4
      <4> QED BY <4>1, <4>2
    <3>4. F(g, k)
      <4> HIDE DEF E
      <4>1. g = [i \in (k + 1)..(n + 1) |-> E(f, i)]
        OBVIOUS
      <4> HIDE DEF g
      <4>2. [i \in (k + 1)..(n + 1) |-> E(f, i)] = [i \in (k + 1)..(n + 1) |-> E(g, i)]
        BY <3>3
      <4> QED BY <4>1, <4>2
    <3> HIDE DEF F, g
    <3> QED BY <3>4
  <2> HIDE DEF G
  <2>3. 0..n \subseteq G
    BY <1>1, <2>1, <2>2, DownFrom
  <2> QED BY <1>1, <2>3
<1>4. End = [i \in 1..(n + 1) |-> E(End, i)]
  <2>1. \E f : f = [i \in 1..(n + 1) |-> E(f, i)]
    <3>1. PICK f : F(f, 0)
      BY <1>3
    <3> HIDE DEF E
    <3>2. f = [i \in 1..(n + 1) |-> E(f, i)]
      <4>1. f = [i \in (0 + 1)..(n + 1) |-> E(f, i)]
        BY <3>1
      <4>2. 0 + 1 = 1
        OBVIOUS
      <4> QED BY <4>1, <4>2
    <3> QED BY <3>2
  <2> HIDE DEF E
  <2> QED BY <2>1
<1>5. ASSUME NEW i \in 1..(n + 1) PROVE ColumnEnd(i) = End[i]
  BY DEF ColumnEnd
<1> HIDE DEF End
<1>6. End[j] = E(End, j)
  <2> HIDE DEF E
  <2> QED BY <1>4
<1>7. ColumnEnd(j) = E(End, j)
  BY <1>5, <1>6
<1>8. CASE j = n + 1
  BY <1>7, <1>8
<1>9. CASE j # n + 1
  <2>1. j \in 1..n /\ j + 1 \in 1..(n + 1)
    BY <1>1, <1>9
  <2>2. End[j + 1] = ColumnEnd(j + 1)
    BY <1>5, <2>1
  <2>3. Closes(j) # {} =>
          End[Min(Closes(j)) + 1] = ColumnEnd(Min(Closes(j)) + 1)
    <3> SUFFICES ASSUME Closes(j) # {}
                 PROVE  End[Min(Closes(j)) + 1] = ColumnEnd(Min(Closes(j)) + 1)
      OBVIOUS
    <3>1. Min(Closes(j)) + 1 \in (j + 2)..(n + 1)
      BY <1>2, <2>1
    <3>2. Min(Closes(j)) + 1 \in 1..(n + 1)
      BY <3>1, <2>1, <1>1
    <3> QED BY <1>5, <3>2
  <2> QED BY <1>7, <1>9, <2>2, <2>3
<1> QED BY <1>8, <1>9

\* What unescape does with a text between quotes, step by step.
LEMMA UnescapedIs ==
  ASSUME NEW s \in Seq(Chars), NEW n \in Nat, Len(s) = n + 2,
         s[1] = Quote, s[n + 2] = Quote
  PROVE  \E f : /\ Unescaped(s) = f[1]
                /\ \A i \in 1..(n + 2) :
                     f[i] = IF i > n THEN << >>
                            ELSE IF /\ s[i + 1] = Quote /\ i < n
                                    /\ s[i + 2] = Quote
                                 THEN <<Quote>> \o f[i + 2]
                                 ELSE <<s[i + 1]>> \o f[i + 1]
<1> DEFINE inner == SubSeq(s, 2, Len(s) - 1)
           E(f, i) == IF i > Len(inner) THEN << >>
                      ELSE IF inner[i] = Quote /\ i < Len(inner) /\ inner[i + 1] = Quote
                      THEN <<Quote>> \o f[i + 2]
                      ELSE <<inner[i]>> \o f[i + 1]
           F(f, k) == f = [i \in (k + 1)..(n + 2) |-> E(f, i)]
           From == CHOOSE f : f = [i \in 1..(Len(inner) + 2) |-> E(f, i)]
           G == {k \in 0..(n + 2) : \E f : F(f, k)}
<1>1. Len(inner) = n /\ \A i \in 1..n : inner[i] = s[i + 1]
  OBVIOUS
<1>2. Unescaped(s) = From[1]
  <2>1. Len(s) >= 2 /\ s[1] = Quote /\ Last(s) = Quote
    BY DEF Last
  <2> QED BY <2>1 DEF Unescaped
<1> HIDE DEF inner
<1>3. 0 \in G
  <2>1. n + 2 \in G
    <3> DEFINE f == [i \in (n + 2 + 1)..(n + 2) |-> 0]
    <3>1. (n + 2 + 1)..(n + 2) = {} /\ n + 2 \in 0..(n + 2)
      OBVIOUS
    <3>2. F(f, n + 2)
      <4> HIDE DEF E
      <4> QED BY <3>1
    <3> HIDE DEF F, f
    <3> QED BY <3>1, <3>2
  <2>2. ASSUME NEW k \in 0..(n + 2), k < n + 2, k + 1 \in G PROVE k \in G
    <3>1. PICK f : F(f, k + 1)
      BY <2>2
    <3> DEFINE g == [i \in (k + 1)..(n + 2) |-> E(f, i)]
    <3>2. \A i \in (k + 2)..(n + 2) : g[i] = f[i]
      <4> TAKE i \in (k + 2)..(n + 2)
      <4>1. i \in (k + 1)..(n + 2) /\ i \in ((k + 1) + 1)..(n + 2)
        OBVIOUS
      <4> HIDE DEF E
      <4>2. f[i] = E(f, i) /\ g[i] = E(f, i)
        BY <3>1, <4>1
      <4> QED BY <4>2
    <3>3. \A i \in (k + 1)..(n + 2) : E(g, i) = E(f, i)
      <4> TAKE i \in (k + 1)..(n + 2)
      <4>1. CASE i > n
        BY <4>1, <1>1
      <4>2. CASE ~(i > n)
        <5>1. i + 1 \in (k + 2)..(n + 2) /\ i + 2 \in (k + 2)..(n + 2)
          BY <4>2
        <5>2. g[i + 1] = f[i + 1] /\ g[i + 2] = f[i + 2]
          BY <3>2, <5>1
        <5> HIDE DEF g
        <5> QED BY <5>2
      <4> QED BY <4>1, <4>2
    <3>4. F(g, k)
      <4> HIDE DEF E
      <4>1. g = [i \in (k + 1)..(n + 2) |-> E(f, i)]
        OBVIOUS
      <4> HIDE DEF g
      <4>2. [i \in (k + 1)..(n + 2) |-> E(f, i)] = [i \in (k + 1)..(n + 2) |-> E(g, i)]
        BY <3>3
      <4> QED BY <4>1, <4>2
    <3> HIDE DEF F, g
    <3> QED BY <3>4
  <2> HIDE DEF G
  <2>3. 0..(n + 2) \subseteq G
    <3> DEFINE m == n + 2
    <3>1. m \in Nat /\ m \in G /\ \A k \in 0..m : k < m /\ k + 1 \in G => k \in G
      BY <2>1, <2>2
    <3> HIDE DEF m
    <3>2. 0..m \subseteq G
      BY <3>1, DownFrom
    <3> QED BY <3>2 DEF m
  <2> QED BY <2>3
<1>4. From = [i \in 1..(n + 2) |-> E(From, i)]
  <2> HIDE DEF E
  <2>1. \E f : f = [i \in 1..(n + 2) |-> E(f, i)]
    <3>1. PICK f : F(f, 0)
      BY <1>3
    <3>2. f = [i \in (0 + 1)..(n + 2) |-> E(f, i)]
      BY <3>1
    <3>3. 0 + 1 = 1
      OBVIOUS
    <3> QED BY <3>2, <3>3
  <2> QED BY <2>1, <1>1
<1> HIDE DEF From
<1>5. \A i \in 1..(n + 2) : From[i] = E(From, i)
  <2> HIDE DEF E
  <2> QED BY <1>4
<1>6. \A i \in 1..(n + 2) :
        From[i] = IF i > n THEN << >>
                  ELSE IF s[i + 1] = Quote /\ i < n /\ s[i + 2] = Quote
                       THEN <<Quote>> \o From[i + 2]
                       ELSE <<s[i + 1]>> \o From[i + 1]
  <2> TAKE i \in 1..(n + 2)
  <2>1. From[i] = E(From, i)
    BY <1>5
  <2>2. CASE i > n
    BY <2>1, <2>2, <1>1
  <2>3. CASE ~(i > n)
    <3>1. inner[i] = s[i + 1] /\ (i < n => inner[i + 1] = s[i + 2])
      <4>1. i \in 1..n /\ (i < n => i + 1 \in 1..n /\ (i + 1) + 1 = i + 2)
        BY <2>3
      <4> QED BY <4>1, <1>1
    <3> QED BY <2>1, <2>3, <3>1, <1>1
  <2> QED BY <2>2, <2>3
<1> QED BY <1>2, <1>6

\* unescape gives back what was written between quotes.
LEMMA UnescapedQuoted ==
  ASSUME NEW d \in Seq(Chars), NEW t \in Seq(Chars), NEW q,
         Quoted(d, 0, t, q), q[Len(t)] + 1 = Len(d)
  PROVE  Unescaped(d) = t
<1> DEFINE n == Len(t)
           N == Len(d) - 2
<1>1. n \in Nat /\ 0 \in 0..n /\ n \in 0..n /\ t \in Seq(Chars)
  OBVIOUS
<1>2. \A k \in 0..n : q[k] \in Nat /\ 1 <= q[k] /\ q[k] + 1 <= Len(d)
  <2> TAKE k \in 0..n
  <2>1. q[k] \in Nat /\ 0 + 1 <= q[k] /\ q[k] <= q[n] /\ q[n] \in Nat
    BY QuotedWithin
  <2>2. Len(d) \in Nat /\ q[n] + 1 = Len(d)
    OBVIOUS
  <2> HIDE DEF n
  <2> QED BY <2>1, <2>2
<1>3. \A k \in 0..(n - 1) :
        /\ d[q[k] + 1] = t[k + 1]
        /\ IF t[k + 1] = Quote THEN d[q[k] + 2] = Quote /\ q[k + 1] = q[k] + 2
           ELSE q[k + 1] = q[k] + 1
  BY DEF Quoted
<1>4. q[0] = 1 /\ d[1] = Quote /\ d[Len(d)] = Quote /\ q[n] + 1 = Len(d)
  <2>1. q[0] = 0 + 1 /\ d[0 + 1] = Quote /\ d[q[n] + 1] = Quote /\ q[n] + 1 = Len(d)
    BY DEF Quoted
  <2> QED BY <2>1
<1> HIDE DEF n
<1>5. N \in Nat /\ Len(d) = N + 2 /\ q[n] = N + 1
  <2>1. q[n] \in Nat /\ 1 <= q[n] /\ q[n] + 1 = Len(d)
    BY <1>1, <1>2, <1>4
  <2> QED BY <2>1
<1> HIDE DEF N
<1>6. d[N + 2] = Quote
  BY <1>4, <1>5
<1>7. PICK f : /\ Unescaped(d) = f[1]
               /\ \A i \in 1..(N + 2) :
                    f[i] = IF i > N THEN << >>
                           ELSE IF d[i + 1] = Quote /\ i < N /\ d[i + 2] = Quote
                                THEN <<Quote>> \o f[i + 2]
                                ELSE <<d[i + 1]>> \o f[i + 1]
  BY <1>4, <1>5, <1>6, UnescapedIs
<1> DEFINE S == {k \in 0..n : f[q[k]] = SubSeq(t, k + 1, n)}
<1>8. n \in S
  <2>1. N + 1 \in 1..(N + 2) /\ N + 1 > N
    BY <1>5
  <2>2. f[N + 1] = << >>
    BY <1>7, <2>1
  <2>3. SubSeq(t, n + 1, n) = << >>
    BY <1>1
  <2> QED BY <2>2, <2>3, <1>1, <1>5
<1>9. ASSUME NEW k \in 0..n, k < n, k + 1 \in S PROVE k \in S
  <2>1. k \in 0..(n - 1) /\ k + 1 \in 0..n /\ k + 1 \in 1..n /\ t[k + 1] \in Chars
    BY <1>1, <1>9 DEF n
  <2>2. f[q[k + 1]] = SubSeq(t, k + 2, n)
    <3>1. (k + 1) + 1 = k + 2
      OBVIOUS
    <3> QED BY <1>9, <3>1
  <2>3. SubSeq(t, k + 1, n) = <<t[k + 1]>> \o SubSeq(t, k + 2, n)
    BY <1>1, <2>1 DEF n
  <2> DEFINE i == q[k]
             j == q[k + 1]
  <2>4. i \in Nat /\ 1 <= i /\ j \in Nat /\ j + 1 <= N + 2
    BY <1>2, <1>5, <2>1
  <2>5. d[i + 1] = t[k + 1]
    BY <1>3, <2>1
  <2>6. CASE t[k + 1] = Quote
    <3>1. d[i + 2] = Quote /\ j = i + 2
      BY <1>3, <2>1, <2>6
    <3> HIDE DEF i, j
    <3>2. i \in 1..(N + 2) /\ i < N /\ ~(i > N)
      BY <2>4, <3>1, <1>5
    <3>3. f[i] = <<Quote>> \o f[i + 2]
      BY <1>7, <2>5, <2>6, <3>1, <3>2
    <3>4. f[i] = <<t[k + 1]>> \o f[j]
      BY <2>6, <3>1, <3>3
    <3> QED BY <3>4, <2>2, <2>3 DEF i, j
  <2>7. CASE t[k + 1] # Quote
    <3>1. j = i + 1
      BY <1>3, <2>1, <2>7
    <3> HIDE DEF i, j
    <3>2. i \in 1..(N + 2) /\ ~(i > N)
      BY <2>4, <3>1, <1>5
    <3>3. f[i] = <<t[k + 1]>> \o f[i + 1]
      BY <1>7, <2>5, <2>7, <3>2
    <3>4. f[i] = <<t[k + 1]>> \o f[j]
      BY <3>1, <3>3
    <3> QED BY <3>4, <2>2, <2>3 DEF i, j
  <2> QED BY <2>6, <2>7
<1>10. 0 \in S
  <2> HIDE DEF S
  <2>1. 0..n \subseteq S
    BY <1>1, <1>8, <1>9, DownFrom
  <2> QED BY <1>1, <2>1
<1>11. f[1] = SubSeq(t, 1, n)
  <2>1. f[q[0]] = SubSeq(t, 0 + 1, n)
    BY <1>10
  <2> QED BY <2>1, <1>4
<1>12. SubSeq(t, 1, n) = t
  BY DEF n
<1> QED BY <1>7, <1>11, <1>12

-----------------------------------------------------------------------------

\* The first reader on its way through a row that was written for t.
OnItsWay(t, p) ==
  \/ /\ place \in 0..5 /\ ~quoted
     /\ field = IF place \in {1, 3} THEN <<"x">> ELSE << >>
     /\ fields = IF place < 2 THEN << >>
                 ELSE IF place < 4 THEN << <<"x">> >>
                 ELSE IF place < 5 THEN << <<"x">>, <<"x">> >>
                 ELSE << <<"x">>, <<"x">>, << >> >>
  \/ /\ quoted /\ fields = << <<"x">>, <<"x">>, << >> >>
     /\ \E k \in 0..Len(t) : place = p[k] /\ field = SubSeq(t, 1, k)
  \/ /\ place = Len(row) /\ ~quoted /\ field = t
     /\ fields = << <<"x">>, <<"x">>, << >> >>

\* Either reader, from the header to the end of the row, which the library does
\* not come to.
Reads(t, p) ==
  /\ reader \in Readers
  /\ state \in (IF reader = "lines" THEN {"header", "row", "done"} ELSE {"header", "rejected"})
  /\ state = "header" => place = 0 /\ ~quoted /\ field = << >> /\ fields = << >>
  /\ state = "row" => OnItsWay(t, p)
  /\ state = "done" => fields[1] = <<"x">> /\ Last(fields) = t

\* The inductive invariant of the rows.
RowsInv ==
  /\ header \in Seq(Names)
  /\ header = RecordedHeader =>
       /\ reader = "library" => state \in {"header", "rejected"}
       /\ \A t \in Seq(Chars) : \A p : RowOf(row, t, p) => Reads(t, p)

\* What the program makes of the header that the recorder writes.
LEMMA RecordedColumns ==
  ASSUME header = RecordedHeader
  PROVE  /\ Len(header) = 4
         /\ Columns("timestamp") = {1} /\ Columns("message") = {4}
         /\ Index("timestamp") = 1 /\ Index("message") = 4
         /\ Sought \subseteq ToSet(header)
         /\ \A name \in Wanted : Columns(name) = {}
         /\ header \in Seq(Names)
<1>1. /\ Len(header) = 4 /\ DOMAIN header = 1..4
      /\ header[1] = "timestamp" /\ header[2] = "other" /\ header[3] = "other"
      /\ header[4] = "message"
  BY DEF RecordedHeader
<1>2. Columns("timestamp") = {1} /\ Columns("message") = {4}
  BY <1>1 DEF Columns
<1>3. Max({1}) = 1 /\ Max({4}) = 4
  BY DEF Max
<1>4. Index("timestamp") = 1 /\ Index("message") = 4
  BY <1>2, <1>3 DEF Index
<1>5. Sought \subseteq ToSet(header)
  BY <1>1 DEF Sought, ToSet
<1>6. \A name \in Wanted : Columns(name) = {}
  BY <1>1, CsvAssumption DEF Columns, Sought
<1>7. header \in Seq(Names)
  BY DEF RecordedHeader, Names, Sought
<1> QED BY <1>1, <1>2, <1>4, <1>5, <1>6, <1>7

\* The header, the row and the reader stay.
LEMMA RowStays ==
  ASSUME RowNext
  PROVE  header' = header /\ row' = row /\ reader' = reader
BY DEF RowNext, ParseCSVHeader, ReadChar, EndOfRow, ReadHeader,
       ReadColumn, AllColumns

\* A sequence that grows by one.
LEMMA Appended ==
  ASSUME NEW A, NEW a \in A, NEW b \in A, NEW c \in A, NEW d \in A
  PROVE  /\ Append(<< >>, a) = <<a>>
         /\ Append(<<a>>, b) = <<a, b>>
         /\ Append(<<a, b>>, c) = <<a, b, c>>
         /\ Append(<<a, b, c>>, d) = <<a, b, c, d>>
<1>1. Append(<< >>, a) = <<a>>
  OBVIOUS
<1>2. Append(<<a>>, b) = <<a, b>>
  <2> DEFINE s == Append(<<a>>, b)
             r == <<a, b>>
  <2>1. s \in Seq(A) /\ Len(s) = 2 /\ s[1] = a /\ s[2] = b
    OBVIOUS
  <2>2. r \in Seq(A) /\ Len(r) = 2 /\ r[1] = a /\ r[2] = b
    OBVIOUS
  <2> HIDE DEF s, r
  <2>3. \A i \in 1..Len(s) : s[i] = r[i]
    BY <2>1, <2>2
  <2>4. s = r
    BY <2>1, <2>2, <2>3, SeqEqual
  <2> QED BY <2>4 DEF s, r
<1>3. Append(<<a, b>>, c) = <<a, b, c>>
  <2> DEFINE s == Append(<<a, b>>, c)
             r == <<a, b, c>>
  <2>1. s \in Seq(A) /\ Len(s) = 3 /\ s[1] = a /\ s[2] = b /\ s[3] = c
    OBVIOUS
  <2>2. r \in Seq(A) /\ Len(r) = 3 /\ r[1] = a /\ r[2] = b /\ r[3] = c
    OBVIOUS
  <2> HIDE DEF s, r
  <2>3. \A i \in 1..Len(s) : s[i] = r[i]
    BY <2>1, <2>2
  <2>4. s = r
    BY <2>1, <2>2, <2>3, SeqEqual
  <2> QED BY <2>4 DEF s, r
<1>4. Append(<<a, b, c>>, d) = <<a, b, c, d>>
  <2> DEFINE s == Append(<<a, b, c>>, d)
             r == <<a, b, c, d>>
  <2>1. s \in Seq(A) /\ Len(s) = 4 /\ s[1] = a /\ s[2] = b /\ s[3] = c /\ s[4] = d
    OBVIOUS
  <2>2. r \in Seq(A) /\ Len(r) = 4 /\ r[1] = a /\ r[2] = b /\ r[3] = c /\ r[4] = d
    OBVIOUS
  <2> HIDE DEF s, r
  <2>3. \A i \in 1..Len(s) : s[i] = r[i]
    BY <2>1, <2>2
  <2>4. s = r
    BY <2>1, <2>2, <2>3, SeqEqual
  <2> QED BY <2>4 DEF s, r
<1> QED BY <1>1, <1>2, <1>3, <1>4

\* The fields of a row that was written for t, one after the other.
LEMMA FieldsGrow ==
  ASSUME NEW t \in Seq(Chars)
  PROVE  /\ Append(<< >>, <<"x">>) = << <<"x">> >>
         /\ Append(<< <<"x">> >>, <<"x">>) = << <<"x">>, <<"x">> >>
         /\ Append(<< <<"x">>, <<"x">> >>, << >>) = << <<"x">>, <<"x">>, << >> >>
         /\ Append(<< <<"x">>, <<"x">>, << >> >>, t) = << <<"x">>, <<"x">>, << >>, t >>
<1> DEFINE x == <<"x">>
           e == << >>
           C == Seq(Chars)
<1>1. x \in C /\ e \in C /\ t \in C
  BY Characters
<1> HIDE DEF x, e, C
<1>2. /\ Append(<< >>, x) = <<x>>
      /\ Append(<<x>>, x) = <<x, x>>
      /\ Append(<<x, x>>, e) = <<x, x, e>>
      /\ Append(<<x, x, e>>, t) = <<x, x, e, t>>
  BY <1>1, Appended
<1> QED BY <1>2 DEF x, e

\* A character that the first reader takes.
LEMMA CharRead ==
  ASSUME NEW t \in Seq(Chars), NEW p, RowOf(row, t, p), OnItsWay(t, p), ReadChar
  PROVE  OnItsWay(t, p)'
<1> DEFINE n == Len(t)
           c == row[place + 1]
<1>1. /\ n \in Nat /\ Len(row) \in Nat /\ p \in [0..n -> Nat] /\ p[0] = 6
      /\ p[n] + 1 = Len(row) /\ row[6] = Quote /\ row[Len(row)] = Quote
      /\ row[1] = "x" /\ row[2] = Comma /\ row[3] = "x" /\ row[4] = Comma
      /\ row[5] = Comma
  BY DEF RowOf, Quoted
<1>2. \A k \in 0..n : p[k] \in Nat /\ 6 <= p[k] /\ p[k] + 1 <= Len(row)
  <2> TAKE k \in 0..n
  <2>1. Quoted(row, 5, t, p)
    BY DEF RowOf
  <2>2. p[k] \in Nat /\ 5 + 1 <= p[k] /\ p[k] <= p[n] /\ p[n] \in Nat
    BY <2>1, QuotedWithin
  <2> QED BY <2>2, <1>1
<1>3. \A k \in 0..(n - 1) :
        /\ row[p[k] + 1] = t[k + 1]
        /\ IF t[k + 1] = Quote THEN row[p[k] + 2] = Quote /\ p[k + 1] = p[k] + 2
           ELSE p[k + 1] = p[k] + 1
  BY DEF RowOf, Quoted
<1>4. place < Len(row) /\ row' = row /\ IF c = Quote THEN ReadQuote ELSE ReadOther(c)
  BY DEF ReadChar
<1>5. Len(row) >= 7
  BY <1>1, <1>2
<1>6. CASE /\ place \in 0..5 /\ ~quoted
           /\ field = IF place \in {1, 3} THEN <<"x">> ELSE << >>
           /\ fields = IF place < 2 THEN << >>
                       ELSE IF place < 4 THEN << <<"x">> >>
                       ELSE IF place < 5 THEN << <<"x">>, <<"x">> >>
                       ELSE << <<"x">>, <<"x">>, << >> >>
  <2>1. CASE place = 0
    <3>1. c = "x"
      BY <2>1, <1>1
    <3>2. place' = 1 /\ ~quoted' /\ field' = <<"x">> /\ fields' = << >>
      BY <3>1, <2>1, <1>4, <1>6, Characters DEF ReadOther
    <3> QED BY <3>2 DEF OnItsWay
  <2>2. CASE place = 1
    <3>1. c = Comma
      BY <2>2, <1>1
    <3>2. place' = 2 /\ ~quoted' /\ field' = << >> /\ fields' = << <<"x">> >>
      BY <3>1, <2>2, <1>4, <1>6, Characters DEF ReadOther
    <3> QED BY <3>2 DEF OnItsWay
  <2>3. CASE place = 2
    <3>1. c = "x"
      BY <2>3, <1>1
    <3>2. place' = 3 /\ ~quoted' /\ field' = <<"x">> /\ fields' = << <<"x">> >>
      BY <3>1, <2>3, <1>4, <1>6, Characters DEF ReadOther
    <3> QED BY <3>2 DEF OnItsWay
  <2>4. CASE place = 3
    <3>1. c = Comma
      BY <2>4, <1>1
    <3>2. place' = 4 /\ ~quoted' /\ field' = << >> /\ fields' = << <<"x">>, <<"x">> >>
      BY <3>1, <2>4, <1>4, <1>6, Characters DEF ReadOther
    <3> QED BY <3>2 DEF OnItsWay
  <2>5. CASE place = 4
    <3>1. c = Comma
      BY <2>5, <1>1
    <3>2. place' = 5 /\ ~quoted' /\ field' = << >> /\ fields' = Append(fields, field)
      BY <3>1, <2>5, <1>4, <1>6, Characters DEF ReadOther
    <3>3. fields = << <<"x">>, <<"x">> >> /\ field = << >>
      BY <2>5, <1>6
    <3>4. fields' = << <<"x">>, <<"x">>, << >> >>
      BY <3>2, <3>3, FieldsGrow
    <3> QED BY <3>2, <3>4 DEF OnItsWay
  <2>6. CASE place = 5
    <3>1. c = Quote
      BY <2>6, <1>1
    <3>2. /\ place' = 6 /\ quoted' /\ field' = << >>
          /\ fields' = << <<"x">>, <<"x">>, << >> >>
      <4>1. ~quoted /\ field = << >> /\ fields = << <<"x">>, <<"x">>, << >> >>
        BY <2>6, <1>6
      <4>2. ReadQuote
        BY <3>1, <1>4
      <4>3. place' = place + 1 /\ quoted' = ~quoted /\ field' = field /\ fields' = fields
        BY <4>1, <4>2 DEF ReadQuote
      <4>4. quoted'
        BY <4>1, <4>3
      <4>5. place' = 6
        BY <4>3, <2>6
      <4> QED BY <4>1, <4>3, <4>4, <4>5
    <3>3. 0 \in 0..n /\ place' = p[0] /\ field' = SubSeq(t, 1, 0)
      BY <3>2, <1>1
    <3> QED BY <3>2, <3>3 DEF OnItsWay
  <2> QED BY <1>6, <2>1, <2>2, <2>3, <2>4, <2>5, <2>6
<1>7. CASE /\ quoted /\ fields = << <<"x">>, <<"x">>, << >> >>
           /\ \E k \in 0..Len(t) : place = p[k] /\ field = SubSeq(t, 1, k)
  <2>1. PICK k \in 0..n : place = p[k] /\ field = SubSeq(t, 1, k)
    BY <1>7
  <2>2. CASE k = n
    <3>1. place + 1 = Len(row) /\ c = Quote /\ ~(place + 1 < Len(row))
      BY <2>1, <2>2, <1>1
    <3>2. place' = Len(row) /\ ~quoted' /\ field' = field /\ fields' = fields
      BY <3>1, <1>4, <1>7 DEF ReadQuote
    <3>3. field' = t
      BY <3>2, <2>1, <2>2
    <3> QED BY <3>2, <3>3, <1>4, <1>7 DEF OnItsWay
  <2>3. CASE k # n
    <3>1. k \in 0..(n - 1) /\ k + 1 \in 0..n /\ t[k + 1] \in Chars
      BY <1>1, <2>3
    <3>2. c = t[k + 1]
      BY <1>3, <2>1, <3>1
    <3>3. SubSeq(t, 1, k + 1) = Append(SubSeq(t, 1, k), t[k + 1])
      BY <3>1
    <3>4. /\ quoted' /\ fields' = fields /\ place' = p[k + 1]
          /\ field' = Append(field, t[k + 1])
      <4>1. CASE t[k + 1] = Quote
        <5>1. row[p[k] + 2] = Quote /\ p[k + 1] = p[k] + 2
          BY <1>3, <3>1, <4>1
        <5>2. place + 1 < Len(row) /\ place + 2 = p[k + 1]
          <6>1. p[k] \in Nat /\ p[k + 1] + 1 <= Len(row)
            BY <1>2, <3>1
          <6> DEFINE x == p[k]
                     z == Len(row)
          <6>2. x \in Nat /\ z \in Nat /\ x + 3 <= z
            BY <6>1, <5>1, <1>1
          <6> HIDE DEF x, z
          <6>3. x + 1 < z
            BY <6>2
          <6> QED BY <6>3, <2>1, <5>1 DEF x, z
        <5>3. row[place + 2] = Quote
          BY <5>1, <2>1
        <5> QED BY <4>1, <5>1, <5>2, <5>3, <3>2, <1>4, <1>7, <2>1 DEF ReadQuote
      <4>2. CASE t[k + 1] # Quote
        <5>1. p[k + 1] = p[k] + 1
          BY <1>3, <3>1, <4>2
        <5> QED BY <4>2, <5>1, <3>2, <1>4, <1>7, <2>1 DEF ReadOther
      <4> QED BY <4>1, <4>2
    <3>5. field' = SubSeq(t, 1, k + 1)
      BY <3>3, <3>4, <2>1
    <3> QED BY <3>1, <3>4, <3>5, <1>7 DEF OnItsWay
  <2> QED BY <2>2, <2>3
<1>8. CASE place = Len(row)
  BY <1>4, <1>8, <1>1
<1> QED BY <1>6, <1>7, <1>8 DEF OnItsWay

\* The end of a row that was written for t.
LEMMA RowEnded ==
  ASSUME NEW t \in Seq(Chars), NEW p, RowOf(row, t, p), OnItsWay(t, p),
         header = RecordedHeader, EndOfRow
  PROVE  state' = "done" /\ fields'[1] = <<"x">> /\ Last(fields') = t
<1>1. /\ Len(t) \in Nat /\ Len(row) \in Nat /\ p[Len(t)] + 1 = Len(row)
      /\ \A k \in 0..Len(t) : p[k] \in Nat /\ 6 <= p[k] /\ p[k] < Len(row)
  <2>1. Quoted(row, 5, t, p)
    BY DEF RowOf
  <2>2. Len(t) \in Nat /\ Len(row) \in Nat /\ p[Len(t)] + 1 = Len(row)
    BY DEF RowOf
  <2>3. ASSUME NEW k \in 0..Len(t) PROVE p[k] \in Nat /\ 6 <= p[k] /\ p[k] < Len(row)
    <3>1. p[k] \in Nat /\ 5 + 1 <= p[k] /\ p[k] <= p[Len(t)] /\ p[Len(t)] \in Nat
      BY <2>1, QuotedWithin
    <3> QED BY <3>1, <2>2
  <2> QED BY <2>2, <2>3
<1>2. place = Len(row) /\ fields' = Append(fields, field)
  BY DEF EndOfRow
<1>3. field = t /\ fields = << <<"x">>, <<"x">>, << >> >>
  <2>1. place \notin 0..5
    <3>1. 0 \in 0..Len(t)
      BY <1>1
    <3>2. p[0] \in Nat /\ 6 <= p[0] /\ p[0] < place /\ place \in Nat
      BY <3>1, <1>1, <1>2
    <3> QED BY <3>2
  <2>2. \A k \in 0..Len(t) : place # p[k]
    BY <1>1, <1>2
  <2> QED BY <2>1, <2>2 DEF OnItsWay
<1>4. fields' = << <<"x">>, <<"x">>, << >>, t >>
  BY <1>2, <1>3, FieldsGrow
<1>5. Len(fields') = 4 /\ fields'[1] = <<"x">> /\ fields'[4] = t
  BY <1>4
<1>6. Index("timestamp")' = 1 /\ Index("message")' = 4
  BY RecordedColumns, RowStays DEF Index, Columns, EndOfRow
<1>7. Index("timestamp") = 1 /\ Index("message") = 4
  BY RecordedColumns
<1>8. state' = "done"
  BY <1>5, <1>7 DEF EndOfRow, Stamp
<1> QED BY <1>5, <1>8 DEF Last

\* The library goes on to the row if each wanted column is there once.
LEMMA HeaderRead ==
  ASSUME ReadHeader
  PROVE  state' = "row" <=> \A name \in Wanted : Cardinality(Columns(name)) = 1
BY DEF ReadHeader

\* It rejects the header that the recorder writes.
LEMMA RecordedRejected ==
  ASSUME header = RecordedHeader, ReadHeader
  PROVE  state' = "rejected"
<1>1. PICK name \in Wanted : TRUE
  BY CsvAssumption
<1>2. Columns(name) = {} /\ Cardinality({}) # 1
  BY <1>1, RecordedColumns, FS_EmptySet
<1> QED BY <1>1, <1>2 DEF ReadHeader

\* A step keeps what is known of a row that was written for t.
LEMMA ReadsStep ==
  ASSUME NEW t \in Seq(Chars), NEW p, RowOf(row, t, p), Reads(t, p),
         header = RecordedHeader, RowNext
  PROVE  Reads(t, p)'
<1>1. reader' = reader
  BY RowStays
<1>2. CASE ParseCSVHeader
  <2>1. reader = "lines" /\ state = "header" /\ state' = "row"
    BY <1>2, RecordedColumns DEF ParseCSVHeader
  <2>2. place' = 0 /\ ~quoted' /\ field' = << >> /\ fields' = << >>
    BY <1>2, <2>1 DEF ParseCSVHeader, Reads
  <2>3. OnItsWay(t, p)'
    BY <2>2 DEF OnItsWay
  <2> QED BY <1>1, <2>1, <2>3 DEF Reads
<1>3. CASE ReadChar
  <2>1. reader = "lines" /\ state = "row" /\ state' = "row"
    BY <1>3 DEF ReadChar
  <2>2. OnItsWay(t, p)'
    BY <1>3, <2>1, CharRead DEF Reads
  <2> QED BY <1>1, <2>1, <2>2 DEF Reads
<1>4. CASE EndOfRow
  <2>1. reader = "lines" /\ state = "row"
    BY <1>4 DEF EndOfRow
  <2>2. state' = "done" /\ fields'[1] = <<"x">> /\ Last(fields') = t
    BY <1>4, <2>1, RowEnded DEF Reads
  <2> QED BY <1>1, <2>1, <2>2 DEF Reads, Last
<1>5. CASE ReadHeader
  <2>1. reader = "library" /\ state' \in {"row", "rejected"} /\ state' # "row"
    BY <1>5, RecordedRejected DEF ReadHeader
  <2> QED BY <1>1, <2>1 DEF Reads
<1>6. CASE ReadColumn \/ AllColumns
  <2>1. reader = "library" /\ state = "row"
    BY <1>6 DEF ReadColumn, AllColumns
  <2> QED BY <2>1 DEF Reads
<1> QED BY <1>2, <1>3, <1>4, <1>5, <1>6 DEF RowNext

\* The invariant holds of the rows that may be read, and of those written.
LEMMA RowsInit ==
  ASSUME RowInit
  PROVE  RowsInv
<1>1. /\ reader \in Readers /\ place = 0 /\ ~quoted /\ field = << >> /\ fields = << >>
      /\ state = "header"
  BY DEF RowInit
<1>2. header \in Seq(Names)
  <2>1. CASE header \in Headers
    BY <2>1, CsvAssumption
  <2>2. CASE header = RecordedHeader
    BY <2>2, RecordedColumns
  <2> QED BY <2>1, <2>2 DEF RowInit
<1>4. \A t, p : Reads(t, p)
  BY <1>1 DEF Reads
<1> QED BY <1>1, <1>2, <1>4 DEF RowsInv

LEMMA RowsStep ==
  ASSUME RowsInv, [RowNext]_rowVars
  PROVE  RowsInv'
<1>1. CASE RowNext
  <2>1. header' = header /\ row' = row
    BY <1>1, RowStays
  <2>2. ASSUME header = RecordedHeader, reader' = "library"
        PROVE  state' \in {"header", "rejected"}
    <3>1. reader = "library" /\ state \in {"header", "rejected"}
      BY <1>1, <2>2, RowStays DEF RowsInv
    <3> QED BY <1>1, <2>2, <3>1, RecordedRejected
         DEF RowNext, ParseCSVHeader, ReadChar, EndOfRow, ReadColumn, AllColumns
  <2>3. ASSUME header = RecordedHeader, NEW t \in Seq(Chars), NEW p, RowOf(row, t, p)
        PROVE  Reads(t, p)'
    <3>1. Reads(t, p)
      BY <2>3 DEF RowsInv
    <3> QED BY <1>1, <2>3, <3>1, ReadsStep
  <2>4. header \in Seq(Names)
    BY DEF RowsInv
  <2>5. header' = RecordedHeader =>
          \A t \in Seq(Chars) : \A p : RowOf(row', t, p) => Reads(t, p)'
    BY <2>1, <2>3
  <2> QED BY <2>1, <2>2, <2>4, <2>5 DEF RowsInv
<1>2. CASE UNCHANGED rowVars
  <2>1. /\ header' = header /\ row' = row /\ reader' = reader /\ place' = place
        /\ quoted' = quoted /\ field' = field /\ fields' = fields /\ state' = state
    BY <1>2 DEF rowVars
  <2>3. \A t, p : Reads(t, p)' <=> Reads(t, p)
    BY <2>1 DEF Reads, OnItsWay, Last
  <2> QED BY <2>1, <2>3 DEF RowsInv
<1> QED BY <1>1, <1>2

\* What the recorder writes of a message RecordPlayMgr reads back as one row, whose
\* message is the one recorded without the spaces around it, for every message; the
\* library rejects the file by its header, whatever names it is told.
THEOREM RecordedIsReadAlways == RowSpec => []RecordedIsRead
<1>1. RowInit => RowsInv
  BY RowsInit
<1>2. RowsInv /\ [RowNext]_rowVars => RowsInv'
  BY RowsStep
<1>3. RowsInv => RecordedIsRead
  <2>5. RowsInv /\ header = RecordedHeader /\ reader = "library"
          => state \in {"header", "rejected"}
    BY DEF RowsInv
  <2> SUFFICES ASSUME RowsInv, header = RecordedHeader, NEW m \in Messages,
                      row = FormatNmea0183AsCsv(m), reader # "library"
               PROVE  /\ state \notin {"rejected", "failed"}
                      /\ state = "done" => fields[1] = Stamp /\ Last(fields) = Trimmed(m)
    BY <2>5 DEF RecordedIsRead
  <2>4. m \in Seq(Chars)
    BY CsvAssumption
  <2>1. Trimmed(m) \in Seq(Chars)
    BY <2>4, WrittenIs
  <2>2. PICK p : RowOf(row, Trimmed(m), p)
    BY <2>4, WrittenIs
  <2>3. Reads(Trimmed(m), p)
    BY <2>1, <2>2 DEF RowsInv
  <2> QED BY <2>3 DEF Reads, Readers, Stamp
<1> QED BY <1>1, <1>2, <1>3, PTL DEF RowSpec

-----------------------------------------------------------------------------

\* Position i of the row is not within quotes.
Outside(i) == QuotesBefore(i) % 2 = 0

\* The quotes before a position are counted one by one.
LEMMA QuotesCounted ==
  ASSUME Len(row) \in Nat
  PROVE  /\ QuotesBefore(1) = 0
         /\ \A i \in 1..(Len(row) + 1) : QuotesBefore(i) \in Nat
         /\ \A i \in 1..Len(row) :
              QuotesBefore(i + 1) =
                IF row[i] = Quote THEN QuotesBefore(i) + 1 ELSE QuotesBefore(i)
<1> DEFINE S(i) == {j \in 1..(i - 1) : row[j] = Quote}
<1>1. \A i : QuotesBefore(i) = Cardinality(S(i))
  BY DEF QuotesBefore
<1>2. ASSUME NEW i \in Nat PROVE IsFiniteSet(S(i)) /\ Cardinality(S(i)) \in Nat
  <2>1. IsFiniteSet(1..(i - 1))
    BY FS_Interval
  <2>2. S(i) \in SUBSET (1..(i - 1))
    OBVIOUS
  <2> HIDE DEF S
  <2>3. IsFiniteSet(S(i))
    BY <2>1, <2>2, FS_Subset
  <2> QED BY <2>3, FS_CardinalityType
<1>3. S(1) = {}
  OBVIOUS
<1>4. ASSUME NEW i \in 1..Len(row)
      PROVE  Cardinality(S(i + 1)) = IF row[i] = Quote THEN Cardinality(S(i)) + 1
                                     ELSE Cardinality(S(i))
  <2>1. CASE row[i] = Quote
    <3>1. S(i + 1) = S(i) \union {i} /\ i \notin S(i)
      BY <2>1
    <3>2. IsFiniteSet(S(i))
      BY <1>2
    <3> HIDE DEF S
    <3>3. Cardinality(S(i) \union {i}) = Cardinality(S(i)) + 1
      BY <3>1, <3>2, FS_AddElement
    <3> QED BY <2>1, <3>1, <3>3
  <2>2. CASE row[i] # Quote
    <3>1. S(i + 1) = S(i)
      BY <2>2
    <3> HIDE DEF S
    <3> QED BY <2>2, <3>1
  <2> QED BY <2>1, <2>2
<1>5. Cardinality(S(1)) = 0
  BY <1>3, FS_EmptySet
<1> HIDE DEF S
<1>6. QuotesBefore(1) = 0
  BY <1>1, <1>5
<1>7. \A i \in 1..(Len(row) + 1) : QuotesBefore(i) \in Nat
  <2>1. \A i \in 1..(Len(row) + 1) : i \in Nat
    OBVIOUS
  <2> QED BY <1>1, <1>2, <2>1
<1>8. ASSUME NEW i \in 1..Len(row)
      PROVE  QuotesBefore(i + 1) =
               IF row[i] = Quote THEN QuotesBefore(i) + 1 ELSE QuotesBefore(i)
  BY <1>1, <1>4
<1> QED BY <1>6, <1>7, <1>8

\* A quote, and nothing else, changes whether the next position is within quotes.
LEMMA OutsideNext ==
  ASSUME Len(row) \in Nat
  PROVE  /\ Outside(1)
         /\ \A i \in 1..Len(row) :
              Outside(i + 1) <=> IF row[i] = Quote THEN ~Outside(i) ELSE Outside(i)
<1>1. Outside(1)
  <2>1. 0 % 2 = 0
    OBVIOUS
  <2> QED BY <2>1, QuotesCounted DEF Outside
<1>2. ASSUME NEW i \in 1..Len(row)
      PROVE  Outside(i + 1) <=> IF row[i] = Quote THEN ~Outside(i) ELSE Outside(i)
  <2> DEFINE m == QuotesBefore(i)
             n == QuotesBefore(i + 1)
  <2>1. i \in 1..(Len(row) + 1)
    OBVIOUS
  <2>2. m \in Nat /\ n = IF row[i] = Quote THEN m + 1 ELSE m
    BY <2>1, QuotesCounted
  <2>3. (m + 1) % 2 = 0 <=> ~(m % 2 = 0)
    <3> HIDE DEF m
    <3> QED BY <2>2
  <2> QED BY <2>2, <2>3 DEF Outside
<1> QED BY <1>1, <1>2

\* The separators are the commas that are not within quotes.
LEMMA SeparatorsAre ==
  ASSUME row \in Seq(Chars)
  PROVE  \A i : i \in Separators <=> i \in 1..Len(row) /\ row[i] = Comma /\ Outside(i)
BY DEF Separators, Outside

\* The separators before a position are counted one by one.
LEMMA BeforeCounted ==
  ASSUME row \in Seq(Chars)
  PROVE  /\ Before(1) = 0
         /\ \A i \in 1..(Len(row) + 1) : Before(i) \in Nat
         /\ \A i \in 1..Len(row) :
              Before(i + 1) =
                IF i \in Separators THEN Before(i) + 1 ELSE Before(i)
         /\ Width = Before(Len(row) + 1) + 1
<1> DEFINE S(i) == {s \in Separators : s < i}
<1>1. \A i : Before(i) = Cardinality(S(i))
  BY DEF Before
<1>2. Len(row) \in Nat /\ Separators \in SUBSET (1..Len(row))
  BY SeparatorsAre
<1> DEFINE Seps == Separators
<1>10. \A s \in Seps : s \in Nat /\ 1 <= s /\ s <= Len(row)
  BY <1>2
<1>3. ASSUME NEW i \in Nat PROVE IsFiniteSet(S(i)) /\ Cardinality(S(i)) \in Nat
  <2>1. IsFiniteSet(1..Len(row))
    BY <1>2, FS_Interval
  <2>2. S(i) \in SUBSET (1..Len(row))
    BY <1>2
  <2> HIDE DEF S
  <2>3. IsFiniteSet(S(i))
    BY <2>1, <2>2, FS_Subset
  <2> QED BY <2>3, FS_CardinalityType
<1>4. S(1) = {} /\ S(Len(row) + 1) = Separators
  <2>1. \A s \in Seps : ~(s < 1) /\ s < Len(row) + 1
    BY <1>2, <1>10
  <2> HIDE DEF Seps
  <2>2. {s \in Seps : s < 1} = {} /\ {s \in Seps : s < Len(row) + 1} = Seps
    BY <2>1
  <2> QED BY <2>2 DEF Seps
<1>5. ASSUME NEW i \in 1..Len(row)
      PROVE  Cardinality(S(i + 1)) = IF i \in Separators THEN Cardinality(S(i)) + 1
                                     ELSE Cardinality(S(i))
  <2>1. CASE i \in Separators
    <3>1. S(i + 1) = S(i) \union {i} /\ i \notin S(i)
      <4>1. \A s \in Seps : s < i + 1 <=> s < i \/ s = i
        BY <1>10
      <4>2. i \in Seps /\ ~(i < i)
        BY <2>1
      <4> HIDE DEF Seps
      <4>3. {s \in Seps : s < i + 1} = {s \in Seps : s < i} \union {i}
        BY <4>1, <4>2
      <4> QED BY <4>2, <4>3 DEF Seps
    <3>2. IsFiniteSet(S(i))
      BY <1>3
    <3> HIDE DEF S
    <3>3. Cardinality(S(i) \union {i}) = Cardinality(S(i)) + 1
      BY <3>1, <3>2, FS_AddElement
    <3> QED BY <2>1, <3>1, <3>3
  <2>2. CASE i \notin Separators
    <3>1. S(i + 1) = S(i)
      <4>1. \A s \in Seps : s < i + 1 <=> s < i
        BY <1>10, <2>2
      <4> HIDE DEF Seps
      <4>2. {s \in Seps : s < i + 1} = {s \in Seps : s < i}
        BY <4>1
      <4> QED BY <4>2 DEF Seps
    <3> HIDE DEF S
    <3> QED BY <2>2, <3>1
  <2> QED BY <2>1, <2>2
<1>6. Cardinality(S(1)) = 0
  BY <1>4, FS_EmptySet
<1>7. Width = Cardinality(Separators) + 1
  BY DEF Width
<1>8. \A i \in 1..(Len(row) + 1) : Before(i) \in Nat
  <2> HIDE DEF S
  <2> QED BY <1>1, <1>2, <1>3
<1> HIDE DEF S
<1>9. Width = Before(Len(row) + 1) + 1
  BY <1>1, <1>4, <1>7
<1> QED BY <1>1, <1>5, <1>6, <1>8, <1>9

\* There are no fewer of them before a later position, and more if there is one
\* between the two.
LEMMA BeforeGrows ==
  ASSUME row \in Seq(Chars), NEW i \in 1..(Len(row) + 1), NEW j \in i..(Len(row) + 1)
  PROVE  /\ Before(i) <= Before(j)
         /\ \A s \in Separators : i <= s /\ s < j => Before(i) < Before(j)
         /\ (\A s \in i..(j - 1) : s \notin Separators) => Before(i) = Before(j)
<1> DEFINE N == Len(row) + 1
<1>1. N \in Nat /\ i \in 1..N /\ j \in 1..N /\ i <= j
  OBVIOUS
<1>2. /\ \A k \in 1..N : Before(k) \in Nat
      /\ \A k \in 1..(N - 1) :
           Before(k + 1) =
             IF k \in Separators THEN Before(k) + 1 ELSE Before(k)
  <2>1. N - 1 = Len(row)
    OBVIOUS
  <2> QED BY <2>1, BeforeCounted
<1> HIDE DEF N
<1>3. ASSUME NEW a \in 1..N, NEW b \in 1..N, a <= b PROVE Before(a) <= Before(b)
  <2> DEFINE S == {k \in 0..(b - 1) : k < a \/ Before(a) <= Before(k + 1)}
             n == b - 1
  <2>1. 0 \in S
    <3>1. CASE a = 1
      BY <3>1, <1>1, <1>2
    <3>2. CASE a # 1
      BY <3>2
    <3> QED BY <3>1, <3>2
  <2>2. ASSUME NEW k \in 0..n, k < n, k \in S PROVE k + 1 \in S
    <3>1. k + 1 \in 1..(N - 1) /\ k + 1 \in 0..n /\ (k + 1) + 1 \in 1..N /\ k + 1 \in 1..N
      BY <1>1, <2>2, <1>3
    <3>2. Before(k + 1) <= Before((k + 1) + 1)
      <4>1. Before(k + 1) \in Nat
        BY <1>2, <3>1
      <4>2. Before((k + 1) + 1) = Before(k + 1) + 1 \/ Before((k + 1) + 1) = Before(k + 1)
        BY <1>2, <3>1
      <4> QED BY <4>1, <4>2
    <3>3. CASE k < a
      <4>1. CASE k + 1 < a
        BY <3>1, <4>1
      <4>2. CASE ~(k + 1 < a)
        <5>1. k + 1 = a
          BY <3>3, <4>2
        <5> QED BY <3>1, <3>2, <5>1
      <4> QED BY <4>1, <4>2
    <3>4. CASE ~(k < a)
      <4>1. Before(a) <= Before(k + 1)
        BY <2>2, <3>4
      <4>2. Before(a) \in Nat /\ Before(k + 1) \in Nat /\ Before((k + 1) + 1) \in Nat
        BY <1>2, <3>1
      <4>3. Before(a) <= Before((k + 1) + 1)
        BY ONLY <3>2, <4>1, <4>2
      <4> QED BY <3>1, <4>3
    <3> QED BY <3>3, <3>4
  <2>3. n \in Nat /\ n + 1 = b
    OBVIOUS
  <2> HIDE DEF S, n
  <2>4. 0..n \subseteq S
    BY <2>1, <2>2, <2>3, UpTo
  <2>5. n \in S
    BY <2>3, <2>4
  <2>6. n < a \/ Before(a) <= Before(n + 1)
    BY <2>5 DEF S
  <2>7. CASE n < a
    <3>1. a = b
      BY <2>3, <2>7, <1>3
    <3> QED BY <3>1, <1>2
  <2> QED BY <2>3, <2>6, <2>7
<1>4. Before(i) <= Before(j)
  BY <1>1, <1>3
<1>5. ASSUME NEW s \in Separators, i <= s, s < j PROVE Before(i) < Before(j)
  <2>1. s \in 1..(N - 1) /\ s \in 1..N /\ s + 1 \in 1..N /\ s + 1 <= j
    BY <1>1, <1>5, SeparatorsAre DEF N
  <2>2. Before(i) <= Before(s) /\ Before(s + 1) <= Before(j)
    BY <1>1, <1>3, <1>5, <2>1
  <2>3. Before(s + 1) = Before(s) + 1
    BY <1>2, <2>1
  <2>4. Before(i) \in Nat /\ Before(s) \in Nat /\ Before(j) \in Nat
    BY <1>1, <1>2, <2>1
  <2> QED BY ONLY <2>2, <2>3, <2>4
<1>6. ASSUME \A s \in i..(j - 1) : s \notin Separators PROVE Before(i) = Before(j)
  <2> DEFINE n == j - i
             S == {k \in 0..n : Before(i + k) = Before(i)}
  <2>1. 0 \in S
    BY <1>1
  <2>2. ASSUME NEW k \in 0..n, k < n, k \in S PROVE k + 1 \in S
    <3>1. i + k \in 1..(N - 1) /\ i + k \in i..(j - 1) /\ k + 1 \in 0..n /\ i + (k + 1) = (i + k) + 1
      BY <1>1, <2>2
    <3>2. Before(i + (k + 1)) = Before(i + k)
      BY <1>2, <1>6, <3>1
    <3> QED BY <2>2, <3>1, <3>2
  <2>3. n \in Nat /\ i + n = j
    BY <1>1
  <2> HIDE DEF S, n
  <2>4. 0..n \subseteq S
    BY <2>1, <2>2, <2>3, UpTo
  <2> QED BY <2>3, <2>4 DEF S
<1> QED BY <1>4, <1>5, <1>6

\* Column n of the row is what is at the places b to e - 1.
ColumnAt(b, e, n) ==
  /\ b \in 1..(Len(row) + 1) /\ e \in b..(Len(row) + 1)
  /\ b = 1 \/ b - 1 \in Separators
  /\ e = Len(row) + 1 \/ e \in Separators
  /\ \A j \in b..(e - 1) : j \notin Separators
  /\ n = Before(b) + 1

\* A column begins outside of quotes, and ends at the n-th separator or at the end.
LEMMA ColumnIs ==
  ASSUME row \in Seq(Chars), NEW b, NEW e, NEW n, ColumnAt(b, e, n)
  PROVE  /\ Outside(b) /\ n \in 1..Width
         /\ Before(e) = n - 1
         /\ e = Len(row) + 1 => n = Width
         /\ e # Len(row) + 1 => /\ e \in 1..Len(row) /\ e \in Separators
                                /\ Before(e + 1) = n /\ n < Width
<1>1. /\ Len(row) \in Nat /\ b \in 1..(Len(row) + 1) /\ e \in 1..(Len(row) + 1) /\ e >= b
      /\ e \in b..(Len(row) + 1)
  BY DEF ColumnAt
<1>2. Outside(b)
  <2>1. CASE b = 1
    BY <2>1, <1>1, OutsideNext
  <2>2. CASE b - 1 \in Separators
    <3>1. b - 1 \in 1..Len(row) /\ row[b - 1] # Quote /\ Outside(b - 1) /\ (b - 1) + 1 = b
      BY <2>2, <1>1, SeparatorsAre, Characters
    <3> QED BY <3>1, <1>1, OutsideNext
  <2> QED BY <2>1, <2>2 DEF ColumnAt
<1>3. Before(b) = n - 1 /\ n \in Nat /\ 1 <= n
  <2>1. Before(b) \in Nat
    BY <1>1, BeforeCounted
  <2> QED BY <2>1 DEF ColumnAt
<1>4. Before(e) = n - 1
  <2>1. Before(b) = Before(e)
    BY <1>1, BeforeGrows DEF ColumnAt
  <2> QED BY <2>1, <1>3
<1>5. Width = Before(Len(row) + 1) + 1 /\ Before(Len(row) + 1) \in Nat
  <2>1. Len(row) + 1 \in 1..(Len(row) + 1)
    BY <1>1
  <2> QED BY <2>1, BeforeCounted
<1>6. e = Len(row) + 1 => n = Width
  BY <1>3, <1>4, <1>5
<1>7. ASSUME e # Len(row) + 1
      PROVE  /\ e \in 1..Len(row) /\ e \in Separators
             /\ Before(e + 1) = n /\ n < Width
  <2>1. e \in 1..Len(row) /\ e \in Separators
    BY <1>1, <1>7 DEF ColumnAt
  <2>2. Before(e + 1) = n
    <3>1. Before(e + 1) = Before(e) + 1
      BY <2>1, BeforeCounted
    <3> QED BY <3>1, <1>3, <1>4
  <2>3. Before(e + 1) <= Before(Len(row) + 1)
    <3>1. e + 1 \in 1..(Len(row) + 1) /\ Len(row) + 1 \in (e + 1)..(Len(row) + 1)
      BY <1>1, <2>1
    <3> QED BY <3>1, BeforeGrows
  <2>4. n < Width
    BY <1>3, <1>5, <2>2, <2>3
  <2> QED BY <2>1, <2>2, <2>4
<1>8. n \in 1..Width
  BY <1>3, <1>5, <1>6, <1>7
<1> QED BY <1>2, <1>4, <1>6, <1>7, <1>8

\* There is one column n.
LEMMA ColumnUnique ==
  ASSUME row \in Seq(Chars), NEW n, NEW b, NEW e, NEW c, NEW f,
         ColumnAt(b, e, n), ColumnAt(c, f, n)
  PROVE  b = c /\ e = f
<1>1. ASSUME NEW x, NEW y, NEW z, NEW w, ColumnAt(x, z, n), ColumnAt(y, w, n) PROVE ~(x < y)
  <2> SUFFICES ASSUME x < y PROVE FALSE
    OBVIOUS
  <2>1. /\ Len(row) \in Nat /\ x \in 1..(Len(row) + 1) /\ y \in x..(Len(row) + 1)
        /\ y - 1 \in Separators /\ x <= y - 1 /\ y - 1 < y
        /\ Before(x) = Before(y)
    <3>1. Len(row) \in Nat /\ x \in 1..(Len(row) + 1) /\ y \in 1..(Len(row) + 1) /\ y # 1
      BY <1>1 DEF ColumnAt
    <3>2. y - 1 \in Separators
      BY <1>1, <3>1 DEF ColumnAt
    <3>3. Before(x) \in Nat /\ Before(y) \in Nat
      BY <3>1, BeforeCounted
    <3>4. Before(x) = Before(y)
      BY <1>1, <3>3 DEF ColumnAt
    <3> QED BY <3>1, <3>2, <3>4
  <2>2. Before(x) < Before(y) /\ Before(x) \in Nat
    BY <2>1, BeforeGrows, BeforeCounted
  <2> QED BY <2>1, <2>2
<1>2. b \in Int /\ c \in Int /\ e \in Int /\ f \in Int
  BY DEF ColumnAt
<1>3. b = c
  <2>1. ~(b < c)
    BY <1>1
  <2>2. ~(c < b)
    BY <1>1
  <2> QED BY <1>2, <2>1, <2>2
<1>4. ASSUME NEW z, NEW w, ColumnAt(b, z, n), ColumnAt(b, w, n) PROVE ~(z < w)
  <2> SUFFICES ASSUME z < w PROVE FALSE
    OBVIOUS
  <2>1. z \in b..(w - 1) /\ z # Len(row) + 1
    BY <1>4 DEF ColumnAt
  <2> QED BY <1>4, <2>1 DEF ColumnAt
<1>5. e = f
  <2>1. ColumnAt(b, f, n)
    BY <1>3
  <2>2. ~(e < f)
    BY <1>4, <2>1
  <2>3. ~(f < e)
    BY <1>4, <2>1
  <2> QED BY <1>2, <2>2, <2>3
<1> QED BY <1>3, <1>5

\* Part(n) is the text of column n.
LEMMA PartIs ==
  ASSUME row \in Seq(Chars), NEW n \in 1..Width
  PROVE  \E b, e : ColumnAt(b, e, n) /\ Part(n) = SubSeq(row, b, e - 1)
<1> DEFINE N == Len(row)
           Ends == Separators \union {N + 1}
           End(k) == EndOf(k)
<1>1. N \in Nat /\ N + 1 \in 1..(N + 1) /\ Before(N + 1) \in Nat
      /\ Width = Before(N + 1) + 1 /\ Width \in Nat
  <2>1. N \in Nat /\ N + 1 \in 1..(N + 1)
    OBVIOUS
  <2> QED BY <2>1, BeforeCounted
<1>2. \A s \in Separators : s \in 1..N
  BY SeparatorsAre
<1>3. \A k \in 1..Width : \E e \in Ends : Before(e) = k - 1
  <2> DEFINE S == {i \in 0..N : \A k \in 1..Before(i + 1) :
                                  \E e \in Separators : Before(e) = k - 1}
  <2>1. 0 \in S
    <3>1. Before(0 + 1) = 0
      BY BeforeCounted
    <3> QED BY <1>1, <3>1
  <2>2. ASSUME NEW i \in 0..N, i < N, i \in S PROVE i + 1 \in S
    <3>1. i + 1 \in 1..N /\ i + 1 \in 1..(N + 1) /\ i + 1 \in 0..N
      BY <1>1, <2>2
    <3>2. /\ Before(i + 1) \in Nat
          /\ Before((i + 1) + 1) = IF i + 1 \in Separators THEN Before(i + 1) + 1
                                       ELSE Before(i + 1)
      BY <3>1, BeforeCounted
    <3>3. \A k \in 1..Before(i + 1) : \E e \in Separators : Before(e) = k - 1
      BY <2>2
    <3>4. ASSUME NEW k \in 1..Before((i + 1) + 1)
          PROVE  \E e \in Separators : Before(e) = k - 1
      <4>1. CASE k \in 1..Before(i + 1)
        BY <3>3, <4>1
      <4>2. CASE k \notin 1..Before(i + 1)
        <5>1. i + 1 \in Separators /\ k = Before(i + 1) + 1
          BY <3>2, <4>2
        <5>2. k - 1 = Before(i + 1)
          BY <3>2, <5>1
        <5> QED BY <5>1, <5>2
      <4> QED BY <4>1, <4>2
    <3> QED BY <3>1, <3>4
  <2> HIDE DEF S
  <2>3. 0..N \subseteq S
    BY <1>1, <2>1, <2>2, UpTo
  <2>4. N \in S
    BY <1>1, <2>3
  <2>5. \A k \in 1..Before(N + 1) : \E e \in Separators : Before(e) = k - 1
    BY <2>4 DEF S
  <2> TAKE k \in 1..Width
  <2>6. CASE k = Width
    <3>1. Before(N + 1) = k - 1
      BY <1>1, <2>6
    <3> QED BY <3>1
  <2>7. CASE k # Width
    <3>1. k \in 1..Before(N + 1)
      BY <1>1, <2>7
    <3> QED BY <2>5, <3>1
  <2> QED BY <2>6, <2>7
<1>4. \A k \in 1..Width : End(k) \in Ends /\ Before(End(k)) = k - 1
  BY <1>3 DEF EndOf
<1> HIDE DEF End
<1> DEFINE b == IF n = 1 THEN 1 ELSE End(n - 1) + 1
           e == End(n)
<1>5. Part(n) = SubSeq(row, b, e - 1)
  BY DEF Part, End
<1>6. e \in 1..(N + 1) /\ (e = N + 1 \/ e \in Separators) /\ Before(e) = n - 1
  BY <1>1, <1>2, <1>4
<1>7. b \in 1..(N + 1) /\ (b = 1 \/ b - 1 \in Separators) /\ Before(b) = n - 1
  <2>1. CASE n = 1
    <3>1. Before(1) = 0 /\ b = 1
      BY <2>1, BeforeCounted
    <3> QED BY <3>1, <2>1, <1>1
  <2>2. CASE n # 1
    <3>1. n - 1 \in 1..Width /\ n - 1 < Width /\ n \in Nat
      BY <1>1, <2>2
    <3>2. End(n - 1) \in Ends /\ Before(End(n - 1)) = (n - 1) - 1
      BY <3>1, <1>4
    <3>3. End(n - 1) # N + 1
      <4>1. SUFFICES ASSUME End(n - 1) = N + 1 PROVE FALSE
        OBVIOUS
      <4>2. Before(N + 1) = (n - 1) - 1
        BY <3>2, <4>1
      <4> QED BY <4>2, <3>1, <1>1
    <3>4. End(n - 1) \in Separators /\ End(n - 1) \in 1..N
      BY <3>2, <3>3, <1>2
    <3>5. Before(End(n - 1) + 1) = n - 1
      <4>1. Before(End(n - 1) + 1) = Before(End(n - 1)) + 1
        BY <3>4, BeforeCounted
      <4> QED BY <4>1, <3>1, <3>2
    <3>6. b = End(n - 1) + 1 /\ b - 1 = End(n - 1)
      BY <2>2, <3>4
    <3> HIDE DEF b
    <3> QED BY <3>4, <3>5, <3>6
  <2> QED BY <2>1, <2>2
<1> HIDE DEF b, e
<1>8. n \in Nat /\ n - 1 \in Nat
  BY <1>1
<1>9. b <= e
  <2> SUFFICES ASSUME e < b PROVE FALSE
    BY <1>6, <1>7
  <2>1. b # 1 /\ b - 1 \in Separators /\ e <= b - 1 /\ b - 1 < b /\ b \in e..(N + 1)
    BY <1>1, <1>6, <1>7
  <2>2. Before(e) < Before(b)
    BY <1>6, <2>1, BeforeGrows
  <2> QED BY <2>2, <1>6, <1>7, <1>8
<1>10. ASSUME NEW j \in b..(e - 1) PROVE j \notin Separators
  <2> SUFFICES ASSUME j \in Separators PROVE FALSE
    OBVIOUS
  <2>1. e \in b..(N + 1) /\ b <= j /\ j < e
    BY <1>1, <1>6, <1>7, <1>9
  <2>2. Before(b) < Before(e)
    BY <1>7, <2>1, BeforeGrows
  <2> QED BY <2>2, <1>6, <1>7, <1>8
<1>11. ColumnAt(b, e, n)
  <2>1. e \in b..(N + 1) /\ n = Before(b) + 1
    BY <1>6, <1>7, <1>8, <1>9
  <2> QED BY <1>6, <1>7, <1>10, <2>1 DEF ColumnAt
<1> QED BY <1>5, <1>11

-----------------------------------------------------------------------------

\* The reader has taken i characters of the row, the last of them of the column
\* at the places b to e - 1, which is written for v.
Within(b, e, v, i, q, f) ==
  \/ /\ Quote \notin ToSet(v) /\ v = SubSeq(row, b, e - 1)
     /\ ~q /\ f = SubSeq(row, b, i)
  \/ \E p : /\ Quoted(row, b - 1, v, p) /\ p[Len(v)] + 1 = e - 1
            /\ \/ i = b - 1 /\ ~q /\ f = << >>
               \/ q /\ \E k \in 0..Len(v) : i = p[k] /\ f = SubSeq(v, 1, k)
               \/ i = e - 1 /\ ~q /\ f = v

\* It has split the columns before at their separators.
Split(i, q, f, fs) ==
  /\ i \in 0..Len(row) /\ q \in BOOLEAN
  /\ q <=> ~Outside(i + 1)
  /\ f \in Seq(Chars) /\ fs \in Seq(Seq(Chars)) /\ Len(fs) = Before(i + 1)
  /\ \A b, e, n : \A v \in Seq(Chars) :
       ColumnAt(b, e, n) /\ Writes(SubSeq(row, b, e - 1), v) =>
         /\ e <= i => fs[n] = v
         /\ b <= i + 1 /\ i < e => Within(b, e, v, i, q, f)

\* At the beginning of a column.
LEMMA Entered ==
  ASSUME row \in Seq(Chars), NEW b, NEW e, NEW n, ColumnAt(b, e, n),
         NEW v \in Seq(Chars), Writes(SubSeq(row, b, e - 1), v)
  PROVE  Within(b, e, v, b - 1, FALSE, << >>)
<1> DEFINE N == Len(row)
           d == SubSeq(row, b, e - 1)
<1>1. N \in Nat /\ b \in 1..(N + 1) /\ e \in b..(N + 1)
  BY DEF ColumnAt
<1>2. CASE d = Enclosed(v)
  <2>1. PICK q : Quoted(d, 0, v, q) /\ q[Len(v)] + 1 = Len(d)
    BY <1>2, EnclosedIs
  <2>2. d \in Seq(Chars) /\ Len(d) = e - b /\ \A i \in 1..(e - b) : d[i] = row[(b - 1) + i]
    BY <1>1
  <2> HIDE DEF d
  <2> DEFINE z == e - b
             u == b - 1
  <2>3. /\ z \in Nat /\ u \in Nat /\ u + z = e - 1 /\ u + z <= Len(row)
        /\ q[Len(v)] + 1 = 0 + z /\ \A i \in 1..z : row[u + i] = d[0 + i]
    <3>1. z \in Nat /\ u \in Nat /\ u + z = e - 1 /\ u + z <= Len(row)
      BY <1>1
    <3>2. \A i \in 1..z : row[u + i] = d[0 + i]
      BY <2>2
    <3>3. q[Len(v)] + 1 = 0 + z
      BY <2>1, <2>2, <3>1
    <3> QED BY <3>1, <3>2, <3>3
  <2> HIDE DEF z, u
  <2> DEFINE o == 0
  <2>6. /\ o \in Nat /\ Quoted(d, o, v, q) /\ q[Len(v)] + 1 = o + z
        /\ \A i \in 1..z : row[u + i] = d[o + i]
    BY <2>1, <2>3
  <2> HIDE DEF o
  <2>4. \E p : Quoted(row, u, v, p) /\ p[Len(v)] + 1 = u + z
    <3>1. SamePart(d, o, row, u, z)
      BY <2>3, <2>6 DEF SamePart
    <3> QED BY <2>2, <2>3, <2>6, <3>1, Shifted
  <2>5. \E p : Quoted(row, b - 1, v, p) /\ p[Len(v)] + 1 = e - 1
    BY <2>3, <2>4 DEF u
  <2> QED BY <2>5 DEF Within
<1>3. CASE d = v /\ Quote \notin ToSet(v)
  <2>1. SubSeq(row, b, b - 1) = << >>
    BY <1>1
  <2> QED BY <1>3, <2>1 DEF Within
<1> QED BY <1>2, <1>3 DEF Writes

\* At its end.
LEMMA Left ==
  ASSUME row \in Seq(Chars), NEW b, NEW e, NEW n, ColumnAt(b, e, n),
         NEW v \in Seq(Chars), NEW q, NEW f, Within(b, e, v, e - 1, q, f)
  PROVE  f = v
<1>1. Len(row) \in Nat /\ b \in 1..(Len(row) + 1) /\ e \in b..(Len(row) + 1)
  BY DEF ColumnAt
<1>2. CASE v = SubSeq(row, b, e - 1) /\ f = SubSeq(row, b, e - 1)
  BY <1>2
<1>3. ASSUME NEW p, Quoted(row, b - 1, v, p), p[Len(v)] + 1 = e - 1,
             \/ e - 1 = b - 1 /\ ~q /\ f = << >>
             \/ q /\ \E k \in 0..Len(v) : e - 1 = p[k] /\ f = SubSeq(v, 1, k)
             \/ e - 1 = e - 1 /\ ~q /\ f = v
      PROVE  f = v
  <2>1. \A k \in 0..Len(v) : p[k] \in Nat /\ (b - 1) + 1 <= p[k] /\ p[k] <= p[Len(v)]
    <3>1. b - 1 \in Nat
      BY <1>1
    <3> QED BY <1>3, <3>1, QuotedWithin
  <2>2. Len(v) \in 0..Len(v) /\ p[Len(v)] \in Nat
    BY <2>1
  <2>3. \A k \in 0..Len(v) : p[k] # e - 1
    <3> TAKE k \in 0..Len(v)
    <3> DEFINE x == p[k]
               y == p[Len(v)]
    <3>1. x \in Nat /\ y \in Nat /\ x <= y /\ y + 1 = e - 1
      BY <1>3, <2>1, <2>2
    <3> HIDE DEF x, y
    <3>2. x # e - 1
      BY <3>1
    <3> QED BY <3>2 DEF x
  <2>4. e - 1 # b - 1
    <3> DEFINE y == p[Len(v)]
    <3>1. y \in Nat /\ (b - 1) + 1 <= y /\ y + 1 = e - 1
      BY <1>3, <2>1, <2>2
    <3> HIDE DEF y
    <3> QED BY <3>1, <1>1
  <2> QED BY <1>3, <2>3, <2>4
<1> QED BY <1>2, <1>3 DEF Within

\* What ReadChar does: a doubled quote, a single one, a comma or another character.
LEMMA CharCases ==
  ASSUME ReadChar
  PROVE  /\ row' = row /\ place < Len(row) /\ reader = "lines" /\ state = "row"
         /\ reader' = reader /\ header' = header /\ state' = state
         /\ \/ /\ quoted /\ place + 1 < Len(row)
               /\ row[place + 1] = Quote /\ row[place + 2] = Quote
               /\ place' = place + 2 /\ quoted' = quoted
               /\ field' = Append(field, Quote) /\ fields' = fields
            \/ /\ row[place + 1] = Quote
               /\ ~(quoted /\ place + 1 < Len(row) /\ row[place + 2] = Quote)
               /\ place' = place + 1 /\ quoted' = ~quoted /\ field' = field /\ fields' = fields
            \/ /\ row[place + 1] = Comma /\ ~quoted
               /\ place' = place + 1 /\ quoted' = quoted
               /\ field' = << >> /\ fields' = Append(fields, field)
            \/ /\ row[place + 1] # Quote /\ ~(row[place + 1] = Comma /\ ~quoted)
               /\ place' = place + 1 /\ quoted' = quoted
               /\ field' = Append(field, row[place + 1]) /\ fields' = fields
<1>1. CASE row[place + 1] = Quote
  <2>1. ReadQuote
    BY <1>1 DEF ReadChar
  <2>2. CASE quoted /\ place + 1 < Len(row) /\ row[place + 2] = Quote
    BY <1>1, <2>1, <2>2 DEF ReadQuote, ReadChar
  <2>3. CASE ~(quoted /\ place + 1 < Len(row) /\ row[place + 2] = Quote)
    BY <1>1, <2>1, <2>3 DEF ReadQuote, ReadChar
  <2> QED BY <2>2, <2>3
<1>2. CASE row[place + 1] # Quote
  <2>1. ReadOther(row[place + 1])
    BY <1>2 DEF ReadChar
  <2>2. CASE row[place + 1] = Comma /\ ~quoted
    BY <1>2, <2>1, <2>2 DEF ReadOther, ReadChar
  <2>3. CASE ~(row[place + 1] = Comma /\ ~quoted)
    BY <1>2, <2>1, <2>3 DEF ReadOther, ReadChar
  <2> QED BY <2>2, <2>3
<1> QED BY <1>1, <1>2

\* A character that does not end its column.
LEMMA WithinStep ==
  ASSUME row \in Seq(Chars), ReadChar, place \in 0..Len(row), quoted \in BOOLEAN,
         quoted <=> ~Outside(place + 1),
         NEW b, NEW e, NEW n, ColumnAt(b, e, n), NEW v \in Seq(Chars),
         b <= place + 1, place + 1 < e, Within(b, e, v, place, quoted, field)
  PROVE  Within(b, e, v, place', quoted', field')
<1> DEFINE N == Len(row)
           c == row[place + 1]
<1>1. N \in Nat /\ b \in 1..(N + 1) /\ e \in b..(N + 1) /\ place \in Nat /\ place + 1 \in 1..N
  BY DEF ColumnAt
<1>2. place + 1 \notin Separators /\ c \in Chars
  <2>1. place + 1 \in b..(e - 1)
    BY <1>1
  <2> QED BY <2>1, <1>1 DEF ColumnAt
<1>3. ~(c = Comma /\ ~quoted)
  BY <1>1, <1>2, SeparatorsAre
<1>4. CASE /\ Quote \notin ToSet(v) /\ v = SubSeq(row, b, e - 1)
           /\ ~quoted /\ field = SubSeq(row, b, place)
  <2>1. c # Quote
    <3>1. v[(place + 1) - b + 1] = c /\ (place + 1) - b + 1 \in DOMAIN v
      BY <1>1, <1>4
    <3> QED BY <3>1, <1>4 DEF ToSet
  <2>2. place' = place + 1 /\ quoted' = quoted /\ field' = Append(field, c)
    BY <2>1, <1>3, CharCases
  <2>3. Append(SubSeq(row, b, place), row[place + 1]) = SubSeq(row, b, place + 1)
    <3> DEFINE s == Append(SubSeq(row, b, place), row[place + 1])
               r == SubSeq(row, b, place + 1)
    <3>1. SubSeq(row, b, place) \in Seq(Chars) /\ Len(SubSeq(row, b, place)) = place + 1 - b
          /\ \A i \in 1..(place + 1 - b) : SubSeq(row, b, place)[i] = row[b + i - 1]
      BY <1>1
    <3>2. s \in Seq(Chars) /\ Len(s) = place + 2 - b /\ s[place + 2 - b] = row[place + 1]
          /\ \A i \in 1..(place + 1 - b) : s[i] = row[b + i - 1]
      BY <3>1, <1>1, <1>2
    <3>3. r \in Seq(Chars) /\ Len(r) = place + 2 - b
          /\ \A i \in 1..(place + 2 - b) : r[i] = row[b + i - 1]
      BY <1>1
    <3> HIDE DEF s, r
    <3>4. \A i \in 1..Len(s) : s[i] = r[i]
      <4> TAKE i \in 1..Len(s)
      <4>1. CASE i = place + 2 - b
        <5>1. b + i - 1 = place + 1 /\ i \in 1..(place + 2 - b)
          BY <4>1, <1>1
        <5> QED BY <4>1, <5>1, <3>2, <3>3
      <4>2. CASE i # place + 2 - b
        <5>1. i \in 1..(place + 1 - b) /\ i \in 1..(place + 2 - b)
          BY <4>2, <3>2, <1>1
        <5> QED BY <5>1, <3>2, <3>3
      <4> QED BY <4>1, <4>2
    <3>5. s = r
      BY <3>2, <3>3, <3>4, SeqEqual
    <3> QED BY <3>5 DEF s, r
  <2> QED BY <1>4, <2>2, <2>3 DEF Within
<1>5. ASSUME NEW p, Quoted(row, b - 1, v, p), p[Len(v)] + 1 = e - 1,
             \/ place = b - 1 /\ ~quoted /\ field = << >>
             \/ quoted /\ \E k \in 0..Len(v) : place = p[k] /\ field = SubSeq(v, 1, k)
      PROVE  Within(b, e, v, place', quoted', field')
  <2> DEFINE m == Len(v)
  <2>1. /\ m \in Nat /\ p \in [0..m -> Nat] /\ p[0] = (b - 1) + 1
        /\ row[(b - 1) + 1] = Quote /\ row[p[m] + 1] = Quote
        /\ \A k \in 0..(m - 1) :
             /\ row[p[k] + 1] = v[k + 1]
             /\ IF v[k + 1] = Quote THEN row[p[k] + 2] = Quote /\ p[k + 1] = p[k] + 2
                ELSE p[k + 1] = p[k] + 1
    BY <1>5 DEF Quoted
  <2>2. CASE place = b - 1 /\ ~quoted /\ field = << >>
    <3>1. c = Quote /\ place + 1 = p[0] /\ 0 \in 0..m /\ SubSeq(v, 1, 0) = << >>
      BY <2>1, <2>2, <1>1
    <3>2. place' = place + 1 /\ quoted' /\ field' = << >>
      BY <2>2, <3>1, CharCases, Characters
    <3> QED BY <1>5, <3>1, <3>2 DEF Within
  <2>3. CASE quoted /\ \E k \in 0..m : place = p[k] /\ field = SubSeq(v, 1, k)
    <3>1. PICK k \in 0..m : place = p[k] /\ field = SubSeq(v, 1, k)
      BY <2>3
    <3>2. CASE k = m
      <4>1. c = Quote /\ place + 1 = e - 1
        BY <3>1, <3>2, <2>1, <1>5
      <4>2. ~(place + 1 < N /\ row[place + 2] = Quote)
        <5> SUFFICES ASSUME place + 1 < N PROVE row[place + 2] # Quote
          OBVIOUS
        <5>1. place + 2 = e /\ e # N + 1
          BY <4>1, <1>1
        <5>2. e \in Separators
          BY <5>1 DEF ColumnAt
        <5> QED BY <5>1, <5>2, SeparatorsAre, Characters
      <4>3. place' = place + 1 /\ ~quoted' /\ field' = field
        BY <4>1, <4>2, <2>3, CharCases
      <4>4. field = v
        BY <3>1, <3>2
      <4> QED BY <1>5, <4>1, <4>3, <4>4 DEF Within
    <3>3. CASE k # m
      <4>1. k \in 0..(m - 1) /\ k + 1 \in 0..m /\ k + 1 \in 1..m /\ v[k + 1] \in Chars
        BY <2>1, <3>3
      <4>2. c = v[k + 1]
        BY <2>1, <3>1, <4>1
      <4>3. SubSeq(v, 1, k + 1) = Append(SubSeq(v, 1, k), v[k + 1])
        BY <4>1
      <4>4. place' = p[k + 1] /\ quoted' = quoted /\ field' = Append(field, v[k + 1])
        <5>1. CASE v[k + 1] = Quote
          <6>1. row[place + 2] = Quote /\ p[k + 1] = place + 2
            BY <2>1, <3>1, <4>1, <5>1
          <6>2. place + 1 < N
            <7>1. p[k + 1] \in Nat /\ p[k + 1] <= p[m] /\ p[m] \in Nat
              <8>1. b - 1 \in Nat
                BY <1>1
              <8> QED BY <8>1, <1>5, <4>1, QuotedWithin
            <7> DEFINE x == p[m]
                       y == p[k + 1]
            <7>2. x \in Nat /\ y <= x /\ x + 1 = e - 1 /\ y = place + 2
              BY <7>1, <6>1, <1>5
            <7> HIDE DEF x, y
            <7> QED BY <7>2, <1>1
          <6> QED BY <2>3, <4>2, <5>1, <6>1, <6>2, CharCases
        <5>2. CASE v[k + 1] # Quote
          <6>1. p[k + 1] = place + 1
            BY <2>1, <3>1, <4>1, <5>2
          <6> QED BY <2>3, <4>2, <5>2, <6>1, CharCases
        <5> QED BY <5>1, <5>2
      <4>5. field' = SubSeq(v, 1, k + 1)
        BY <3>1, <4>3, <4>4
      <4> QED BY <1>5, <2>3, <4>1, <4>4, <4>5 DEF Within
    <3> QED BY <3>2, <3>3
  <2> QED BY <1>5, <2>2, <2>3
<1>6. place # e - 1
  BY <1>1
<1> QED BY <1>4, <1>5, <1>6 DEF Within

\* A place that is no separator ends no column, and the next begins none.
LEMMA NotCrossed ==
  ASSUME row \in Seq(Chars), NEW i \in 1..Len(row), i \notin Separators,
         NEW b, NEW e, NEW n, ColumnAt(b, e, n)
  PROVE  e # i /\ b # i + 1 /\ b \in Nat /\ e \in Nat /\ b <= e /\ b >= 1
<1>1. Len(row) \in Nat /\ i # Len(row) + 1 /\ (i + 1) - 1 = i /\ i + 1 # 1
  OBVIOUS
<1>2. e # i
  BY <1>1 DEF ColumnAt
<1>3. b # i + 1
  BY <1>1 DEF ColumnAt
<1> QED BY <1>1, <1>2, <1>3 DEF ColumnAt

\* A character keeps the split.
LEMMA SplitStep ==
  ASSUME row \in Seq(Chars), Split(place, quoted, field, fields), ReadChar
  PROVE  Split(place', quoted', field', fields')
<1> DEFINE N == Len(row)
           c == row[place + 1]
           i == place
<1>1. /\ N \in Nat /\ place \in Nat /\ place < N /\ place + 1 \in 1..N /\ c \in Chars
      /\ quoted \in BOOLEAN /\ field \in Seq(Chars) /\ fields \in Seq(Seq(Chars))
      /\ place \in 0..N
  BY CharCases DEF Split
<1>2. (quoted <=> ~Outside(place + 1)) /\ Len(fields) = Before(place + 1)
  BY DEF Split
<1>3. ASSUME NEW b, NEW e, NEW n, NEW v \in Seq(Chars),
             ColumnAt(b, e, n), Writes(SubSeq(row, b, e - 1), v)
      PROVE  /\ e <= place => fields[n] = v
             /\ b <= place + 1 /\ place < e => Within(b, e, v, place, quoted, field)
  BY <1>3 DEF Split
<1>4. CASE /\ quoted /\ place + 1 < N
           /\ row[place + 1] = Quote /\ row[place + 2] = Quote
           /\ place' = place + 2 /\ quoted' = quoted
           /\ field' = Append(field, Quote) /\ fields' = fields
  <2>1. place + 2 \in 1..N /\ (place + 1) + 1 = place + 2 /\ (place + 2) + 1 = place' + 1
        /\ place' \in 0..N
    BY <1>1, <1>4
  <2>2. place + 1 \notin Separators /\ place + 2 \notin Separators
    BY <1>4, SeparatorsAre, Characters
  <2>3. quoted' <=> ~Outside(place' + 1)
    BY <1>1, <1>2, <1>4, <2>1, OutsideNext
  <2>4. Before(place' + 1) = Before(place + 1)
    BY <1>1, <2>1, <2>2, BeforeCounted
  <2>5. ASSUME NEW b, NEW e, NEW n, NEW v \in Seq(Chars),
               ColumnAt(b, e, n), Writes(SubSeq(row, b, e - 1), v)
        PROVE  /\ e <= place' => fields'[n] = v
               /\ b <= place' + 1 /\ place' < e => Within(b, e, v, place', quoted', field')
    <3>1. /\ e # place + 1 /\ b # place + 2 /\ b \in Nat /\ e \in Nat
          /\ e # place + 2 /\ b # place + 3
      <4>1. /\ e # place + 1 /\ b # (place + 1) + 1 /\ b \in Nat /\ e \in Nat
            /\ e # place + 2 /\ b # (place + 2) + 1
        BY <1>1, <2>1, <2>2, <2>5, NotCrossed
      <4> QED BY <4>1, <1>1
    <3>2. e <= place' => e <= place
      BY <3>1, <1>1, <1>4
    <3>3. b <= place' + 1 /\ place' < e => b <= place + 1 /\ place < e /\ place + 1 < e
      BY <3>1, <1>1, <1>4
    <3>4. e <= place' => fields'[n] = v
      BY <3>2, <1>3, <1>4, <2>5
    <3>5. ASSUME b <= place' + 1, place' < e PROVE Within(b, e, v, place', quoted', field')
      BY <1>1, <1>2, <1>3, <2>5, <3>3, <3>5, WithinStep
    <3> QED BY <3>4, <3>5
  <2>6. field' \in Seq(Chars)
    BY <1>1, <1>4, Characters
  <2> QED BY <1>1, <1>2, <1>4, <2>1, <2>3, <2>4, <2>5, <2>6 DEF Split
<1>5. CASE /\ place' = place + 1 /\ fields' = fields /\ place + 1 \notin Separators
           /\ (quoted' <=> ~Outside(place' + 1)) /\ quoted' \in BOOLEAN
           /\ field' \in Seq(Chars)
  <2>1. place' \in 0..N /\ place' + 1 = (place + 1) + 1
    BY <1>1, <1>5
  <2>2. Before(place' + 1) = Before(place + 1)
    BY <1>1, <1>5, <2>1, BeforeCounted
  <2>3. ASSUME NEW b, NEW e, NEW n, NEW v \in Seq(Chars),
               ColumnAt(b, e, n), Writes(SubSeq(row, b, e - 1), v)
        PROVE  /\ e <= place' => fields'[n] = v
               /\ b <= place' + 1 /\ place' < e => Within(b, e, v, place', quoted', field')
    <3>1. e # place + 1 /\ b # (place + 1) + 1 /\ b \in Nat /\ e \in Nat
      BY <1>1, <1>5, <2>3, NotCrossed
    <3>2. e <= place' => e <= place
      BY <3>1, <1>1, <1>5
    <3>3. b <= place' + 1 /\ place' < e => b <= place + 1 /\ place < e /\ place + 1 < e
      BY <3>1, <1>1, <1>5
    <3>4. e <= place' => fields'[n] = v
      BY <3>2, <1>3, <1>5, <2>3
    <3>5. ASSUME b <= place' + 1, place' < e PROVE Within(b, e, v, place', quoted', field')
      BY <1>1, <1>2, <1>3, <2>3, <3>3, <3>5, WithinStep
    <3> QED BY <3>4, <3>5
  <2> QED BY <1>1, <1>2, <1>5, <2>1, <2>2, <2>3 DEF Split
<1>6. CASE /\ row[place + 1] = Quote /\ place' = place + 1 /\ quoted' = ~quoted
           /\ field' = field /\ fields' = fields
  <2>1. place + 1 \notin Separators
    BY <1>6, SeparatorsAre, Characters
  <2>2. quoted' <=> ~Outside(place' + 1)
    BY <1>1, <1>2, <1>6, OutsideNext
  <2>3. quoted' \in BOOLEAN
    BY <1>6
  <2> QED BY <1>1, <1>5, <1>6, <2>1, <2>2, <2>3
<1>7. CASE /\ row[place + 1] # Quote /\ ~(row[place + 1] = Comma /\ ~quoted)
           /\ place' = place + 1 /\ quoted' = quoted
           /\ field' = Append(field, row[place + 1]) /\ fields' = fields
  <2>1. place + 1 \notin Separators
    BY <1>2, <1>7, SeparatorsAre
  <2>2. quoted' <=> ~Outside(place' + 1)
    BY <1>1, <1>2, <1>7, OutsideNext
  <2>3. field' \in Seq(Chars)
    BY <1>1, <1>7
  <2> QED BY <1>1, <1>5, <1>7, <2>1, <2>2, <2>3
<1>8. CASE /\ row[place + 1] = Comma /\ ~quoted
           /\ place' = place + 1 /\ quoted' = quoted
           /\ field' = << >> /\ fields' = Append(fields, field)
  <2>1. place + 1 \in Separators /\ place' \in 0..N /\ place' + 1 = (place + 1) + 1
    BY <1>1, <1>2, <1>8, SeparatorsAre
  <2>2. quoted' <=> ~Outside(place' + 1)
    BY <1>1, <1>2, <1>8, OutsideNext, Characters
  <2>3. /\ Before(place' + 1) = Before(place + 1) + 1 /\ Before(place + 1) \in Nat
    <3>1. place + 1 \in 1..N /\ place + 1 \in 1..(N + 1)
      BY <1>1
    <3>2. Before((place + 1) + 1) = Before(place + 1) + 1
      BY <2>1, <3>1, BeforeCounted
    <3>3. Before(place + 1) \in Nat
      BY <3>1, BeforeCounted
    <3> QED BY <2>1, <3>2, <3>3
  <2>4. /\ fields' \in Seq(Seq(Chars)) /\ Len(fields') = Len(fields) + 1 /\ Len(fields) \in Nat
        /\ fields'[Len(fields) + 1] = field
        /\ \A j \in 1..Len(fields) : fields'[j] = fields[j]
    BY <1>1, <1>8
  <2>5. ASSUME NEW b, NEW e, NEW n, NEW v \in Seq(Chars),
               ColumnAt(b, e, n), Writes(SubSeq(row, b, e - 1), v)
        PROVE  /\ e <= place' => fields'[n] = v
               /\ b <= place' + 1 /\ place' < e => Within(b, e, v, place', quoted', field')
    <3>1. /\ b \in 1..(N + 1) /\ e \in b..(N + 1) /\ n \in Nat /\ Before(e) = n - 1
          /\ \A j \in b..(e - 1) : j \notin Separators
      <4>1. n \in 1..Width /\ Before(e) = n - 1
        BY <2>5, ColumnIs
      <4>2. n \in Nat
        BY <4>1
      <4> QED BY <2>5, <4>1, <4>2 DEF ColumnAt
    <3>2. CASE e <= place
      <4>1. n <= Len(fields) /\ n >= 1
        <5>1. e \in 1..(N + 1) /\ place + 1 \in e..(N + 1)
          BY <1>1, <3>1, <3>2
        <5>2. e # N + 1
          BY <1>1, <3>2
        <5>3. e \in Separators /\ e <= e /\ e < place + 1
          BY <2>5, <3>1, <3>2, <5>2, <1>1 DEF ColumnAt
        <5>4. Before(e) < Before(place + 1)
          BY <5>1, <5>3, BeforeGrows
        <5>5. n \in 1..Width
          BY <2>5, ColumnIs
        <5> QED BY <5>4, <5>5, <3>1, <2>3, <1>2
      <4>2. fields[n] = v
        BY <1>3, <2>5, <3>2
      <4>3. fields'[n] = fields[n]
        BY <2>4, <3>1, <4>1
      <4>4. ~(place' < e)
        BY <3>1, <3>2, <1>1, <1>8
      <4> QED BY <4>2, <4>3, <4>4
    <3>3. CASE e = place + 1
      <4>1. b <= place + 1 /\ place < e /\ place = e - 1
        BY <3>1, <3>3, <1>1
      <4>2. Within(b, e, v, place, quoted, field)
        BY <1>3, <2>5, <4>1
      <4>3. field = v
        BY <2>5, <4>1, <4>2, Left
      <4>4. n = Len(fields) + 1
        BY <3>1, <3>3, <1>2, <2>3
      <4>5. ~(place' < e)
        BY <3>1, <3>3, <1>1, <1>8
      <4> QED BY <2>4, <4>3, <4>4, <4>5
    <3>4. CASE place + 1 < e
      <4>1. b # place + 1 /\ ~(b <= place + 1)
        <5>1. place + 1 \notin b..(e - 1)
          BY <3>1, <2>1
        <5> QED BY <5>1, <3>1, <3>4, <1>1
      <4>2. ~(e <= place')
        BY <3>1, <3>4, <1>1, <1>8
      <4>3. ASSUME b <= place' + 1, place' < e PROVE Within(b, e, v, place', quoted', field')
        <5>1. b - 1 = place' /\ quoted' = FALSE /\ field' = << >>
          BY <4>1, <4>3, <3>1, <1>1, <1>8
        <5>2. Within(b, e, v, b - 1, FALSE, << >>)
          BY <2>5, Entered
        <5> QED BY <5>1, <5>2
      <4> QED BY <4>2, <4>3
    <3> QED BY <3>1, <3>2, <3>3, <3>4, <1>1
  <2>6. field' \in Seq(Chars) /\ quoted' \in BOOLEAN
    BY <1>1, <1>8
  <2> QED BY <1>2, <2>1, <2>2, <2>3, <2>4, <2>5, <2>6 DEF Split
<1> QED BY <1>4, <1>6, <1>7, <1>8, CharCases

\* At the beginning of the row.
LEMMA SplitInit ==
  ASSUME row \in Seq(Chars)
  PROVE  Split(0, FALSE, << >>, << >>)
<1>1. Len(row) \in Nat /\ Outside(1) /\ Before(1) = 0
  BY OutsideNext, BeforeCounted
<1>2. ASSUME NEW b, NEW e, NEW n, NEW v \in Seq(Chars),
             ColumnAt(b, e, n), Writes(SubSeq(row, b, e - 1), v)
      PROVE  /\ ~(e <= 0)
             /\ b <= 1 => Within(b, e, v, 0, FALSE, << >>)
  <2>1. b \in 1..(Len(row) + 1) /\ e \in b..(Len(row) + 1)
    BY <1>2 DEF ColumnAt
  <2>2. Within(b, e, v, b - 1, FALSE, << >>)
    BY <1>2, Entered
  <2>3. ~(e <= 0)
    BY <1>1, <2>1
  <2>4. ASSUME b <= 1 PROVE Within(b, e, v, 0, FALSE, << >>)
    <3>1. b - 1 = 0
      BY <2>1, <2>4
    <3> QED BY <2>2, <3>1
  <2> QED BY <2>3, <2>4
<1>3. << >> \in Seq(Chars) /\ << >> \in Seq(Seq(Chars)) /\ Len(<< >>) = 0 /\ 0 + 1 = 1
  OBVIOUS
<1>4. ASSUME NEW b, NEW e, NEW n, NEW v \in Seq(Chars),
             ColumnAt(b, e, n), Writes(SubSeq(row, b, e - 1), v)
      PROVE  /\ e <= 0 => << >>[n] = v
             /\ b <= 0 + 1 /\ 0 < e => Within(b, e, v, 0, FALSE, << >>)
  BY <1>2, <1>3, <1>4
<1>5. FALSE \in BOOLEAN /\ (FALSE <=> ~Outside(0 + 1)) /\ 0 \in 0..Len(row) /\ Before(0 + 1) = 0
  BY <1>1, <1>3
<1> QED BY <1>3, <1>4, <1>5 DEF Split

\* At its end.
LEMMA SplitEnds ==
  ASSUME row \in Seq(Chars), Split(Len(row), quoted, field, fields),
         NEW fs, fs = Append(fields, field)
  PROVE  /\ Len(fs) = Width
         /\ \A n \in 1..Width : \A v \in Seq(Chars) : Writes(Part(n), v) => fs[n] = v
<1> DEFINE N == Len(row)
<1>1. N \in Nat /\ fields \in Seq(Seq(Chars)) /\ field \in Seq(Chars)
      /\ Len(fields) = Before(N + 1)
  BY DEF Split
<1>2. Width = Len(fields) + 1 /\ Len(fields) \in Nat
  BY <1>1, BeforeCounted
<1>3. Len(fs) = Len(fields) + 1 /\ fs[Len(fields) + 1] = field
      /\ \A j \in 1..Len(fields) : fs[j] = fields[j]
  BY <1>1
<1>4. ASSUME NEW n \in 1..Width, NEW v \in Seq(Chars), Writes(Part(n), v)
      PROVE  fs[n] = v
  <2>1. PICK b, e : ColumnAt(b, e, n) /\ Part(n) = SubSeq(row, b, e - 1)
    BY PartIs
  <2>2. b \in 1..(N + 1) /\ e \in b..(N + 1)
    BY <2>1 DEF ColumnAt
  <2>3. /\ e <= N => fields[n] = v
        /\ b <= N + 1 /\ N < e => Within(b, e, v, N, quoted, field)
    BY <1>4, <2>1 DEF Split
  <2>4. CASE e = N + 1
    <3>1. n = Width
      BY <2>1, <2>4, ColumnIs
    <3>2. Within(b, e, v, e - 1, quoted, field)
      <4>1. N = e - 1 /\ b <= N + 1 /\ N < e
        BY <1>1, <2>2, <2>4
      <4> QED BY <2>3, <4>1
    <3>3. field = v
      BY <2>1, <3>2, Left
    <3> QED BY <1>2, <1>3, <3>1, <3>3
  <2>5. CASE e # N + 1
    <3>1. e <= N /\ n < Width
      BY <1>1, <2>1, <2>2, <2>5, ColumnIs
    <3>2. n \in 1..Len(fields)
      BY <1>2, <3>1
    <3> QED BY <1>3, <2>3, <3>1, <3>2
  <2> QED BY <2>4, <2>5
<1> QED BY <1>2, <1>3, <1>4

-----------------------------------------------------------------------------

\* From a quote that opens to the next one everything is within quotes.
LEMMA InsideQuotes ==
  ASSUME row \in Seq(Chars), NEW j \in 1..Len(row), Outside(j), row[j] = Quote,
         NEW m \in (j + 1)..(Len(row) + 1), \A i \in (j + 1)..(m - 1) : row[i] # Quote
  PROVE  \A i \in (j + 1)..m : ~Outside(i)
<1> DEFINE n == m - (j + 1)
           T == {k \in 0..n : ~Outside((j + 1) + k)}
<1>1. n \in Nat /\ Len(row) \in Nat /\ j \in Nat /\ m \in Nat
  OBVIOUS
<1>2. 0 \in T
  <2>1. ~Outside(j + 1)
    BY OutsideNext
  <2>2. (j + 1) + 0 = j + 1 /\ 0 \in 0..n
    BY <1>1
  <2> QED BY <2>1, <2>2
<1>3. ASSUME NEW k \in 0..n, k < n, k \in T PROVE k + 1 \in T
  <2> DEFINE i == (j + 1) + k
  <2>1. i \in 1..Len(row) /\ i \in (j + 1)..(m - 1) /\ i + 1 = (j + 1) + (k + 1)
        /\ k + 1 \in 0..n
    BY <1>1, <1>3
  <2>2. ~Outside(i)
    BY <1>3
  <2>3. row[i] # Quote
    BY <2>1
  <2> HIDE DEF i
  <2>4. ~Outside(i + 1)
    BY <2>1, <2>2, <2>3, OutsideNext
  <2> QED BY <2>1, <2>4
<1> HIDE DEF T
<1>4. 0..n \subseteq T
  <2> HIDE DEF n
  <2> QED BY <1>1, <1>2, <1>3, UpTo
<1>5. ASSUME NEW i \in (j + 1)..m PROVE ~Outside(i)
  <2>1. i - (j + 1) \in 0..n /\ (j + 1) + (i - (j + 1)) = i
    BY <1>1
  <2>2. i - (j + 1) \in T
    BY <1>4, <2>1
  <2> QED BY <2>1, <2>2 DEF T
<1> QED BY <1>5

\* The library, from position j on, finds the end c of a column, or 0 for a quote
\* that is not closed.
EndFound(j, c) ==
  \/ c = 0 /\ ~Closed
  \/ /\ c \in j..(Len(row) + 1) /\ Outside(c)
     /\ c = Len(row) + 1 \/ c \in Separators
     /\ \A i \in j..(c - 1) : i \notin Separators

\* It does so where it begins outside of quotes.
LEMMA EndIsFound ==
  ASSUME row \in Seq(Chars), NEW j \in 1..(Len(row) + 1), Outside(j)
  PROVE  EndFound(j, ColumnEnd(j))
<1> DEFINE N == Len(row)
           S == {k \in 0..N : \A i \in (k + 1)..(N + 1) : Outside(i) => EndFound(i, ColumnEnd(i))}
<1>1. N \in Nat
  OBVIOUS
<1>2. Closed <=> Outside(N + 1)
  BY DEF Closed, Outside
<1>3. N \in S
  <2> SUFFICES ASSUME NEW i \in (N + 1)..(N + 1), Outside(i) PROVE EndFound(i, ColumnEnd(i))
    BY <1>1
  <2>1. i = N + 1 /\ i \in 1..(N + 1)
    BY <1>1
  <2>2. ColumnEnd(i) = i
    BY <1>1, <2>1, ColumnEndIs
  <2>3. i \in i..(N + 1) /\ i..(i - 1) = {}
    BY <1>1, <2>1
  <2> QED BY <2>1, <2>2, <2>3 DEF EndFound
<1>4. ASSUME NEW k \in 0..N, k < N, k + 1 \in S PROVE k \in S
  <2> SUFFICES ASSUME NEW i \in (k + 1)..(N + 1), Outside(i) PROVE EndFound(i, ColumnEnd(i))
    BY <1>4
  <2>1. \A x \in ((k + 1) + 1)..(N + 1) : Outside(x) => EndFound(x, ColumnEnd(x))
    BY <1>4
  <2>2. CASE i # k + 1
    <3>1. i \in ((k + 1) + 1)..(N + 1)
      BY <1>1, <2>2
    <3> QED BY <2>1, <3>1
  <2>3. CASE i = k + 1
    <3>1. i \in 1..N /\ i \in 1..(N + 1) /\ i # N + 1 /\ i + 1 = (k + 1) + 1
      BY <1>1, <1>4, <2>3
    <3>2. CASE row[i] = Comma
      <4>1. ColumnEnd(i) = i
        BY <1>1, <3>1, <3>2, ColumnEndIs
      <4>2. i \in Separators
        BY <3>1, <3>2, SeparatorsAre
      <4>3. i \in i..(N + 1) /\ i..(i - 1) = {}
        BY <1>1, <3>1
      <4> QED BY <4>1, <4>2, <4>3 DEF EndFound
    <3>3. CASE row[i] # Comma /\ row[i] # Quote
      <4>1. ColumnEnd(i) = ColumnEnd(i + 1)
        BY <1>1, <3>1, <3>3, ColumnEndIs
      <4>2. Outside(i + 1)
        BY <1>1, <3>1, <3>3, OutsideNext
      <4> DEFINE c == ColumnEnd(i + 1)
      <4>3. EndFound(i + 1, c)
        <5>1. i + 1 \in ((k + 1) + 1)..(N + 1)
          BY <1>1, <3>1
        <5> QED BY <2>1, <4>2, <5>1
      <4>4. i \notin Separators
        BY <3>3, SeparatorsAre
      <4> HIDE DEF c
      <4>5. ASSUME c # 0 \/ Closed PROVE EndFound(i, c)
        <5>1. /\ c \in (i + 1)..(N + 1) /\ Outside(c)
              /\ c = N + 1 \/ c \in Separators
              /\ \A x \in (i + 1)..(c - 1) : x \notin Separators
          BY <4>3, <4>5 DEF EndFound
        <5>2. c \in i..(N + 1) /\ \A x \in i..(c - 1) : x = i \/ x \in (i + 1)..(c - 1)
          BY <1>1, <3>1, <5>1
        <5> QED BY <4>4, <5>1, <5>2 DEF EndFound
      <4>6. EndFound(i, c)
        BY <4>5 DEF EndFound
      <4> QED BY <4>1, <4>6 DEF c
    <3>4. CASE row[i] = Quote /\ Closes(i) = {}
      <4>1. ColumnEnd(i) = 0
        BY <1>1, <3>1, <3>4, ColumnEndIs, Characters
      <4>2. \A x \in (i + 1)..N : row[x] # Quote
        BY <3>4 DEF Closes
      <4>3. N + 1 \in (i + 1)..(N + 1) /\ (N + 1) - 1 = N
        BY <1>1, <3>1
      <4>4. ~Outside(N + 1)
        BY <3>1, <3>4, <4>2, <4>3, InsideQuotes
      <4> QED BY <1>2, <4>1, <4>4 DEF EndFound
    <3>5. CASE row[i] = Quote /\ Closes(i) # {}
      <4> DEFINE m == Min(Closes(i))
                 c == ColumnEnd(m + 1)
      <4>1. ColumnEnd(i) = c
        BY <1>1, <3>1, <3>5, ColumnEndIs, Characters
      <4>2. m \in Closes(i) /\ \A x \in Closes(i) : m <= x
        <5>1. Closes(i) \in SUBSET (1..N)
          BY <1>1, <3>1 DEF Closes
        <5> HIDE DEF m
        <5> QED BY <1>1, <3>5, <5>1, EndsOf DEF m
      <4> HIDE DEF m
      <4>3. m \in (i + 1)..N /\ row[m] = Quote
        BY <4>2 DEF Closes
      <4>4. \A x \in (i + 1)..(m - 1) : row[x] # Quote
        <5> TAKE x \in (i + 1)..(m - 1)
        <5>1. x \in (i + 1)..N /\ ~(m <= x)
          BY <1>1, <3>1, <4>3
        <5>2. x \notin Closes(i)
          BY <4>2, <5>1
        <5> QED BY <5>1, <5>2 DEF Closes
      <4>5. \A x \in (i + 1)..m : ~Outside(x)
        <5>1. m \in (i + 1)..(N + 1)
          BY <1>1, <3>1, <4>3
        <5> QED BY <3>1, <3>5, <4>4, <5>1, InsideQuotes
      <4>6. Outside(m + 1)
        <5>1. ~Outside(m) /\ m \in 1..N
          BY <1>1, <3>1, <4>3, <4>5
        <5> QED BY <1>1, <4>3, <5>1, OutsideNext
      <4>7. EndFound(m + 1, c)
        <5>1. m + 1 \in ((k + 1) + 1)..(N + 1)
          BY <1>1, <3>1, <4>3
        <5> QED BY <2>1, <4>6, <5>1
      <4>8. \A x \in i..m : x \notin Separators
        <5> TAKE x \in i..m
        <5>1. x = i \/ x \in (i + 1)..m
          BY <1>1, <3>1, <4>3
        <5> QED BY <3>5, <4>5, <5>1, SeparatorsAre, Characters
      <4> HIDE DEF c
      <4>9. ASSUME c # 0 \/ Closed PROVE EndFound(i, c)
        <5>1. /\ c \in (m + 1)..(N + 1) /\ Outside(c)
              /\ c = N + 1 \/ c \in Separators
              /\ \A x \in (m + 1)..(c - 1) : x \notin Separators
          BY <4>7, <4>9 DEF EndFound
        <5>2. c \in i..(N + 1) /\ \A x \in i..(c - 1) : x \in i..m \/ x \in (m + 1)..(c - 1)
          BY <1>1, <3>1, <4>3, <5>1
        <5> QED BY <4>8, <5>1, <5>2 DEF EndFound
      <4>10. EndFound(i, c)
        BY <4>9 DEF EndFound
      <4> QED BY <4>1, <4>10
    <3> QED BY <3>2, <3>3, <3>4, <3>5
  <2> QED BY <2>2, <2>3
<1> HIDE DEF S
<1>5. 0..N \subseteq S
  <2> HIDE DEF N
  <2> QED BY <1>1, <1>3, <1>4, DownFrom
<1>6. 0 \in S /\ 0 + 1 = 1
  BY <1>1, <1>5
<1> QED BY <1>6 DEF S

\* What is written for a value is unescaped to it.
LEMMA UnescapedWritten ==
  ASSUME NEW d \in Seq(Chars), NEW v \in Seq(Chars), Writes(d, v)
  PROVE  Unescaped(d) = v
<1>1. CASE d = Enclosed(v)
  <2>1. PICK q : Quoted(d, 0, v, q) /\ q[Len(v)] + 1 = Len(d)
    BY <1>1, EnclosedIs
  <2> QED BY <2>1, UnescapedQuoted
<1>2. CASE d = v /\ Quote \notin ToSet(v)
  <2>1. ~(Len(d) >= 2 /\ d[1] = Quote /\ Last(d) = Quote)
    <3> SUFFICES ASSUME Len(d) >= 2, d[1] = Quote PROVE FALSE
      OBVIOUS
    <3>1. 1 \in DOMAIN d
      OBVIOUS
    <3> QED BY <1>2, <3>1 DEF ToSet
  <2>2. Unescaped(d) = d
    BY <2>1 DEF Unescaped
  <2> QED BY <1>2, <2>2
<1> QED BY <1>1, <1>2 DEF Writes

\* What the library makes of column n.
Chop(n) == IF header[n] \in Wanted THEN Unescaped(Trimmed(Part(n))) ELSE Part(n)

\* The library after position i, with the columns so far.
Chopped(i, fs) ==
  /\ \E S : fs \in Seq(S)
  /\ Len(fs) <= Len(header)
  /\ IF i = AtEnd THEN Closed /\ Len(fs) = Width
     ELSE (i = 0 \/ i \in Separators) /\ Len(fs) = Before(i + 1)
  /\ \A n \in 1..Len(fs) : n <= Width /\ fs[n] = Chop(n)

\* A column keeps that, or shows that the row is none for the library.
LEMMA ChoppedStep ==
  ASSUME row \in Seq(Chars), header \in Seq(Names),
         Chopped(place, fields), ReadColumn
  PROVE  \/ state' = "row" /\ Chopped(place', fields')
         \/ state' = "failed" /\ ~(Closed /\ Width = Len(header))
<1> DEFINE N == Len(row)
           j == place + 1
           c == ColumnEnd(j)
           n == Len(fields) + 1
<1>1. N \in Nat /\ Len(header) \in Nat /\ state = "row" /\ Len(fields) < Len(header)
      /\ Len(fields) \in Nat
  BY DEF ReadColumn, Chopped
<1>2. CASE place = AtEnd
  <2>1. Len(fields) = Width
    BY <1>2 DEF Chopped
  <2>2. Width # Len(header)
    BY <1>1, <2>1
  <2>3. state' = "failed"
    BY <1>2 DEF ReadColumn
  <2> QED BY <2>2, <2>3
<1>3. CASE place # AtEnd
  <2>1. (place = 0 \/ place \in Separators) /\ Len(fields) = Before(place + 1)
    BY <1>3 DEF Chopped
  <2>2. j \in 1..(N + 1) /\ Outside(j) /\ (j = 1 \/ j - 1 \in Separators)
    <3>1. CASE place = 0
      BY <1>1, <3>1, OutsideNext
    <3>2. CASE place \in Separators
      <4>1. place \in 1..N /\ row[place] # Quote /\ Outside(place)
        BY <3>2, SeparatorsAre, Characters
      <4>2. Outside(place + 1)
        BY <1>1, <4>1, OutsideNext
      <4>3. j - 1 = place /\ j \in 1..(N + 1)
        BY <1>1, <4>1
      <4> QED BY <3>2, <4>2, <4>3
    <3> QED BY <2>1, <3>1, <3>2
  <2>3. EndFound(j, c)
    BY <2>2, EndIsFound
  <2>4. CASE c = 0
    <3>1. ~Closed
      BY <2>2, <2>3, <2>4 DEF EndFound
    <3>2. state' = "failed"
      BY <2>4 DEF ReadColumn
    <3> QED BY <3>1, <3>2
  <2>5. CASE c # 0
    <3> DEFINE column == SubSeq(row, j, c - 1)
    <3>1. /\ place' = IF c = N + 1 THEN AtEnd ELSE c
          /\ fields' = Append(fields, IF header[n] \in Wanted THEN Unescaped(Trimmed(column))
                                      ELSE column)
          /\ state' = state
      BY <1>3, <2>5 DEF ReadColumn
    <3> HIDE DEF c
    <3>2. /\ c \in j..(N + 1) /\ Outside(c) /\ (c = N + 1 \/ c \in Separators)
          /\ \A i \in j..(c - 1) : i \notin Separators
      BY <2>3, <2>5 DEF EndFound
    <3>3. ColumnAt(j, c, n)
      BY <2>1, <2>2, <3>2 DEF ColumnAt
    <3>4. n \in 1..Width
      BY <3>3, ColumnIs
    <3>5. Part(n) = column
      <4>1. PICK b, e : ColumnAt(b, e, n) /\ Part(n) = SubSeq(row, b, e - 1)
        BY <3>4, PartIs
      <4>2. b = j /\ e = c
        BY <3>3, <4>1, ColumnUnique
      <4> QED BY <4>1, <4>2
    <3>6. fields' = Append(fields, Chop(n))
      BY <3>1, <3>5 DEF Chop
    <3>7. /\ \E S : fields' \in Seq(S)
          /\ Len(fields') = n /\ fields'[n] = Chop(n)
          /\ \A i \in 1..Len(fields) : fields'[i] = fields[i]
      <4>1. PICK S : fields \in Seq(S)
        BY DEF Chopped
      <4> DEFINE x == Chop(n)
                 U == S \union {x}
      <4>2. fields \in Seq(U) /\ x \in U
        BY <4>1
      <4> HIDE DEF x, U
      <4>3. /\ Append(fields, x) \in Seq(U) /\ Len(Append(fields, x)) = n
            /\ Append(fields, x)[n] = x
            /\ \A i \in 1..Len(fields) : Append(fields, x)[i] = fields[i]
        BY <4>2
      <4> QED BY <3>6, <4>3 DEF x
    <3>8. \A i \in 1..n : i <= Width /\ fields'[i] = Chop(i)
      <4> TAKE i \in 1..n
      <4>1. CASE i = n
        BY <3>4, <3>7, <4>1
      <4>2. CASE i # n
        <5>1. i \in 1..Len(fields)
          BY <1>1, <4>2
        <5> QED BY <3>7, <5>1 DEF Chopped
      <4> QED BY <4>1, <4>2
    <3>9. n <= Len(header)
      BY <1>1
    <3>10. CASE c = N + 1
      <4>1. place' = AtEnd /\ Closed /\ n = Width
        BY <3>1, <3>2, <3>3, <3>10, ColumnIs DEF Closed, Outside
      <4> QED BY <1>1, <3>1, <3>7, <3>8, <3>9, <4>1 DEF Chopped
    <3>11. CASE c # N + 1
      <4>1. place' = c /\ c \in Separators /\ c \in 1..N /\ Before(c + 1) = n
        BY <3>1, <3>3, <3>11, ColumnIs
      <4>2. place' # AtEnd
        BY <4>1 DEF AtEnd
      <4> QED BY <1>1, <3>1, <3>7, <3>8, <3>9, <4>1, <4>2 DEF Chopped
    <3> QED BY <3>10, <3>11
  <2> QED BY <2>4, <2>5
<1> QED BY <1>2, <1>3

\* The end of the row tells whether it has as many columns as the header.
LEMMA ChoppedEnds ==
  ASSUME row \in Seq(Chars), header \in Seq(Names),
         Chopped(place, fields), AllColumns
  PROVE  /\ state' \in {"done", "failed"}
         /\ state' = "done" <=> Closed /\ Width = Len(header)
         /\ state' = "done" => \A n \in 1..Len(header) : n <= Width /\ fields[n] = Chop(n)
<1>1. state' = (IF place = AtEnd THEN "done" ELSE "failed") /\ Len(fields) = Len(header)
  BY DEF AllColumns
<1>2. CASE place = AtEnd
  BY <1>1, <1>2 DEF Chopped
<1>3. CASE place # AtEnd
  <2> DEFINE N == Len(row)
  <2>1. N \in Nat /\ (place = 0 \/ place \in Separators) /\ Len(fields) = Before(place + 1)
    BY <1>3 DEF Chopped
  <2>2. place + 1 \in 1..(N + 1) /\ N + 1 \in (place + 1)..(N + 1) /\ N + 1 \in 1..(N + 1)
    BY <2>1, SeparatorsAre
  <2>3. Before(place + 1) <= Before(N + 1)
    BY <2>2, BeforeGrows
  <2>4. Before(place + 1) \in Nat /\ Before(N + 1) \in Nat /\ Width = Before(N + 1) + 1
    BY <2>2, BeforeCounted
  <2>5. Width # Len(header)
    <3> DEFINE x == Before(place + 1)
               y == Before(N + 1)
    <3>1. x \in Nat /\ y \in Nat /\ x <= y /\ Len(header) = x /\ Width = y + 1
      BY <1>1, <2>1, <2>3, <2>4
    <3> HIDE DEF x, y
    <3> QED BY <3>1
  <2> QED BY <1>1, <1>3, <2>5
<1> QED BY <1>2, <1>3

\* What a row says stays when it does.
LEMMA SameRow ==
  ASSUME row' = row, header' = header
  PROVE  /\ Width' = Width /\ (Closed' <=> Closed) /\ Values' = Values
         /\ \A n : Part(n)' = Part(n)
         /\ \A name : Column(name)' = Column(name)
         /\ \A i, q, f, fs : Split(i, q, f, fs)' <=> Split(i, q, f, fs)
         /\ \A i, fs : Chopped(i, fs)' <=> Chopped(i, fs)
<1>1. \A i : QuotesBefore(i)' = QuotesBefore(i)
  BY DEF QuotesBefore
<1>2. Separators' = Separators
  BY <1>1 DEF Separators
<1>3. Width' = Width /\ (Closed' <=> Closed)
  BY <1>1, <1>2 DEF Width, Closed
<1>4. (\A i : Before(i)' = Before(i)) /\ (\A n : EndOf(n)' = EndOf(n))
  BY <1>2 DEF Before, EndOf
<1>5. \A n : Part(n)' = Part(n)
  BY <1>4 DEF Part
<1>6. Values' = Values
  BY <1>3, <1>5 DEF Values
<1>7. \A name : Column(name)' = Column(name)
  BY DEF Column, Columns
<1>8. (\A i : Outside(i)' <=> Outside(i)) /\ (\A b, e, n : ColumnAt(b, e, n)' <=> ColumnAt(b, e, n))
  BY <1>1, <1>2, <1>4 DEF Outside, ColumnAt
<1>9. \A b, e, v, i, q, f : Within(b, e, v, i, q, f)' <=> Within(b, e, v, i, q, f)
  BY DEF Within
<1>10. \A i, q, f, fs : Split(i, q, f, fs)' <=> Split(i, q, f, fs)
  <2> TAKE i, q, f, fs
  <2>1. (Outside(i + 1)' <=> Outside(i + 1)) /\ Before(i + 1)' = Before(i + 1)
    BY <1>4, <1>8
  <2> DEFINE Columned == \A b, e, n : \A v \in Seq(Chars) :
                 ColumnAt(b, e, n) /\ Writes(SubSeq(row, b, e - 1), v) =>
                   /\ e <= i => fs[n] = v
                   /\ b <= i + 1 /\ i < e => Within(b, e, v, i, q, f)
  <2>2. Columned' <=> Columned
    BY <1>8, <1>9
  <2> QED BY <2>1, <2>2, Zenon DEF Split
<1>11. \A n : Chop(n)' = Chop(n)
  BY <1>5 DEF Chop
<1>12. \A i, fs : Chopped(i, fs)' <=> Chopped(i, fs)
  BY <1>2, <1>3, <1>4, <1>11 DEF Chopped
<1> QED BY <1>3, <1>5, <1>6, <1>7, <1>10, <1>12

\* The inductive invariant of either reader on its way through any row.
ReadingInv ==
  /\ row \in Seq(Chars) /\ header \in Seq(Names)
  /\ reader \in Readers
  /\ state \in {"header", "rejected", "row", "done", "failed"}
  /\ state = "header" => place = 0 /\ quoted = FALSE /\ field = << >> /\ fields = << >>
  /\ reader = "library" /\ state \in {"row", "done", "failed"} => Wanted \subseteq ToSet(header)
  /\ state = "row" => IF reader = "lines" THEN Split(place, quoted, field, fields)
                      ELSE Chopped(place, fields)
  /\ ReadAsWritten

\* What a row is split into, and its parts, are texts.
LEMMA ValuesAre ==
  ASSUME row \in Seq(Chars)
  PROVE  /\ \A n \in 1..Width : Part(n) \in Seq(Chars)
         /\ \A v \in Values : v \in Seq(Chars)
<1>1. ASSUME NEW n \in 1..Width PROVE Part(n) \in Seq(Chars)
  <2>1. PICK b, e : ColumnAt(b, e, n) /\ Part(n) = SubSeq(row, b, e - 1)
    BY PartIs
  <2>2. b \in 1..(Len(row) + 1) /\ e \in b..(Len(row) + 1) /\ Len(row) \in Nat
    BY <2>1 DEF ColumnAt
  <2> QED BY <2>1, <2>2
<1>2. ASSUME NEW i \in DOMAIN row, NEW j \in DOMAIN row PROVE SubSeq(row, i, j) \in Seq(Chars)
  OBVIOUS
<1>3. ASSUME NEW v \in Values PROVE v \in Seq(Chars)
  <2>1. CASE \E n \in 1..Width : v = Part(n)
    BY <1>1, <2>1
  <2>2. CASE \E i, j \in DOMAIN row : v = SubSeq(row, i, j)
    BY <1>2, <2>2
  <2> QED BY <2>1, <2>2 DEF Values
<1> QED BY <1>1, <1>3

\* The position of a wanted column is one of the header.
LEMMA ColumnFound ==
  ASSUME header \in Seq(Names), Wanted \subseteq ToSet(header),
         NEW name \in Wanted
  PROVE  Column(name) \in 1..Len(header) /\ header[Column(name)] \in Wanted
<1>1. \E i \in DOMAIN header : header[i] = name
  BY DEF ToSet
<1>2. Column(name) \in Columns(name)
  BY <1>1 DEF Column, Columns
<1>3. DOMAIN header = 1..Len(header)
  OBVIOUS
<1> QED BY <1>2, <1>3 DEF Columns

\* The end of a row: what its readers say of it.
LEMMA RowsReadStep ==
  ASSUME ReadingInv, RowNext, state' \in {"done", "failed"}
  PROVE  ReadAsWritten'
<1>1. row' = row /\ header' = header /\ reader' = reader
  BY RowStays
<1>2. /\ Width' = Width /\ (Closed' <=> Closed) /\ Values' = Values
      /\ \A n : Part(n)' = Part(n)
      /\ \A name : Column(name)' = Column(name)
  BY <1>1, SameRow
<1>3. row \in Seq(Chars) /\ header \in Seq(Names) /\ reader \in Readers
  BY DEF ReadingInv
<1>4. CASE EndOfRow
  <2>1. reader = "lines" /\ place = Len(row) /\ fields' = Append(fields, field) /\ state = "row"
    BY <1>4 DEF EndOfRow
  <2>2. Split(Len(row), quoted, field, fields)
    BY <2>1 DEF ReadingInv
  <2>3. /\ Len(fields') = Width
        /\ \A n \in 1..Width : \A v \in Seq(Chars) : Writes(Part(n), v) => fields'[n] = v
    BY <1>3, <2>1, <2>2, SplitEnds
  <2>4. /\ Len(fields') = Width
        /\ \A n \in 1..Width : \A v \in Values : Writes(Part(n), v) => fields'[n] = v
    BY <1>3, <2>3, ValuesAre
  <2>5. FieldsAreColumns'
    BY <1>2, <2>4 DEF FieldsAreColumns
  <2>6. reader' = "lines"
    BY <1>1, <2>1
  <2> QED BY <2>5, <2>6 DEF ReadAsWritten
<1>5. CASE ReadColumn \/ AllColumns
  <2>1. reader = "library" /\ state = "row" /\ Chopped(place, fields)
        /\ Wanted \subseteq ToSet(header)
    BY <1>5 DEF ReadColumn, AllColumns, ReadingInv
  <2>2. /\ state' = "done" <=> Closed /\ Width = Len(header)
        /\ state' = "done" => \A n \in 1..Len(header) : n <= Width /\ fields'[n] = Chop(n)
    <3>1. CASE ReadColumn
      <4>1. state' = "failed" /\ ~(Closed /\ Width = Len(header))
        BY <1>3, <2>1, <3>1, ChoppedStep
      <4> QED BY <4>1
    <3>2. CASE AllColumns
      <4>1. fields' = fields
        BY <3>2 DEF AllColumns
      <4> QED BY <1>3, <2>1, <3>2, <4>1, ChoppedEnds
    <3> QED BY <1>5, <3>1, <3>2
  <2>3. ASSUME state' = "done", NEW name \in Wanted, NEW v \in Values,
               Writes(Trimmed(Part(Column(name))), v)
        PROVE  fields'[Column(name)] = v
    <3> DEFINE n == Column(name)
    <3>1. n \in 1..Len(header) /\ header[n] \in Wanted
      BY <1>3, <2>1, ColumnFound
    <3>2. Width = Len(header)
      BY <2>2, <2>3
    <3>3. Part(n) \in Seq(Chars) /\ v \in Seq(Chars)
      BY <1>3, <2>3, <3>1, <3>2, ValuesAre
    <3>4. Trimmed(Part(n)) \in Seq(Chars)
      BY <3>3, TrimmedIs
    <3>5. Unescaped(Trimmed(Part(n))) = v
      BY <2>3, <3>3, <3>4, UnescapedWritten
    <3>6. fields'[n] = Unescaped(Trimmed(Part(n)))
      BY <2>2, <2>3, <3>1 DEF Chop
    <3> QED BY <3>5, <3>6
  <2>4. RowsOfTheLibrary'
    BY <1>1, <1>2, <2>2, <2>3 DEF RowsOfTheLibrary, ParseHelper
  <2>5. reader' # "lines"
    BY <1>1, <2>1
  <2> QED BY <2>4, <2>5 DEF ReadAsWritten
<1>6. CASE ParseCSVHeader \/ ReadChar \/ ReadHeader
  BY <1>6 DEF ParseCSVHeader, ReadChar, ReadHeader
<1> QED BY <1>4, <1>5, <1>6 DEF RowNext

\* A step keeps the invariant.
LEMMA ReadingStep ==
  ASSUME ReadingInv, RowNext
  PROVE  ReadingInv'
<1>1. row' = row /\ header' = header /\ reader' = reader
  BY RowStays
<1>2. /\ row' \in Seq(Chars) /\ header' \in Seq(Names)
      /\ reader' \in Readers
  BY <1>1 DEF ReadingInv
<1>3. /\ row \in Seq(Chars) /\ header \in Seq(Names) /\ reader \in Readers
      /\ ToSet(header)' = ToSet(header)
  BY <1>1 DEF ReadingInv
<1>4. state' \notin {"done", "failed"} => ReadAsWritten'
  BY DEF ReadAsWritten
<1>5. ReadAsWritten'
  BY <1>4, RowsReadStep
<1>6. /\ \A i, q, f, fs : Split(i, q, f, fs)' <=> Split(i, q, f, fs)
      /\ \A i, fs : Chopped(i, fs)' <=> Chopped(i, fs)
  BY <1>1, SameRow
<1>7. CASE state' \in {"rejected", "done", "failed"}
  <2>1. reader = "library" /\ state' \in {"done", "failed"} => Wanted \subseteq ToSet(header)
    BY <1>7 DEF ReadingInv, RowNext, ParseCSVHeader, ReadChar, EndOfRow, ReadHeader, ReadColumn,
                AllColumns
  <2> QED BY <1>1, <1>2, <1>3, <1>5, <1>7, <2>1 DEF ReadingInv
<1>8. CASE state' = "row"
  <2>1. reader = "library" => Wanted \subseteq ToSet(header)
    <3> SUFFICES ASSUME reader = "library" PROVE Wanted \subseteq ToSet(header)
      OBVIOUS
    <3>1. CASE ParseCSVHeader
      BY <3>1 DEF ParseCSVHeader
    <3>2. CASE ReadHeader
      <4> SUFFICES ASSUME NEW name \in Wanted PROVE name \in ToSet(header)
        OBVIOUS
      <4>1. Cardinality(Columns(name)) = 1
        BY <1>8, <3>2, HeaderRead
      <4>2. Columns(name) # {}
        BY <4>1, FS_EmptySet
      <4> QED BY <4>2 DEF Columns, ToSet
    <3>3. CASE state = "row"
      BY <3>3 DEF ReadingInv
    <3> QED BY <3>1, <3>2, <3>3 DEF RowNext, ReadChar, EndOfRow, ReadColumn, AllColumns
  <2>2. CASE ParseCSVHeader \/ ReadHeader
    <3>1. /\ state = "header" /\ place' = place /\ quoted' = quoted /\ field' = field
          /\ fields' = fields
      BY <2>2 DEF ParseCSVHeader, ReadHeader
    <3>2. place' = 0 /\ quoted' = FALSE /\ field' = << >> /\ fields' = << >>
      BY <3>1 DEF ReadingInv
    <3>3. Split(0, FALSE, << >>, << >>)
      BY <1>3, SplitInit
    <3>4. Chopped(0, << >>)
      <4>1. Before(0 + 1) = 0 /\ Len(<< >>) = 0 /\ << >> \in Seq({}) /\ Len(header) \in Nat
        BY <1>3, BeforeCounted
      <4>2. 0 # AtEnd
        BY DEF AtEnd
      <4> QED BY <4>1, <4>2 DEF Chopped
    <3>5. Split(place, quoted, field, fields)' /\ Chopped(place, fields)'
      BY <1>6, <3>2, <3>3, <3>4
    <3> QED BY <1>1, <1>2, <1>3, <1>5, <1>8, <2>1, <3>5 DEF ReadingInv
  <2>3. CASE ReadChar
    <3>1. reader = "lines" /\ state = "row"
      BY <2>3 DEF ReadChar
    <3>2. Split(place, quoted, field, fields)
      BY <3>1 DEF ReadingInv
    <3>3. Split(place', quoted', field', fields')
      BY <1>3, <2>3, <3>2, SplitStep
    <3>4. Split(place, quoted, field, fields)'
      BY <1>6, <3>3
    <3> QED BY <1>1, <1>2, <1>3, <1>5, <1>8, <2>1, <3>1, <3>4 DEF ReadingInv
  <2>4. CASE ReadColumn
    <3>1. reader = "library" /\ state = "row"
      BY <2>4 DEF ReadColumn
    <3>2. Chopped(place, fields)
      BY <3>1 DEF ReadingInv
    <3>3. Chopped(place', fields')
      BY <1>3, <1>8, <2>4, <3>2, ChoppedStep
    <3>4. Chopped(place, fields)'
      BY <1>6, <3>3
    <3> QED BY <1>1, <1>2, <1>3, <1>5, <1>8, <2>1, <3>1, <3>4 DEF ReadingInv
  <2>5. CASE EndOfRow \/ AllColumns
    BY <1>8, <2>5 DEF EndOfRow, AllColumns
  <2> QED BY <2>2, <2>3, <2>4, <2>5 DEF RowNext
<1>9. state' \in {"rejected", "row", "done", "failed"}
  BY DEF ReadingInv, RowNext, ParseCSVHeader, ReadChar, EndOfRow, ReadHeader, ReadColumn,
         AllColumns
<1> QED BY <1>7, <1>8, <1>9

\* Each reader reads what a row says, whatever is in it, for rows of any length
\* under every header.
THEOREM ReadAsWrittenAlways == RowSpec => []ReadAsWritten
<1>1. RowInit => ReadingInv
  <2> SUFFICES ASSUME RowInit PROVE ReadingInv
    OBVIOUS
  <2>1. row \in Seq(Chars) /\ header \in Seq(Names)
    <3>1. CASE header \in Headers /\ row \in Rows
      BY <3>1, CsvAssumption
    <3>2. CASE header = RecordedHeader /\ row \in {FormatNmea0183AsCsv(m) : m \in Messages}
      <4>1. PICK m \in Messages : row = FormatNmea0183AsCsv(m)
        BY <3>2
      <4>2. m \in Seq(Chars)
        BY CsvAssumption
      <4>3. row \in Seq(Chars)
        BY <4>1, <4>2, WrittenIs DEF RowOf
      <4> QED BY <3>2, <4>3, RecordedColumns
    <3> QED BY <3>1, <3>2 DEF RowInit
  <2> QED BY <2>1 DEF RowInit, ReadingInv, ReadAsWritten
<1>2. ReadingInv /\ [RowNext]_rowVars => ReadingInv'
  <2> SUFFICES ASSUME ReadingInv, [RowNext]_rowVars PROVE ReadingInv'
    OBVIOUS
  <2>1. CASE UNCHANGED rowVars
    <3>1. /\ header' = header /\ row' = row /\ reader' = reader /\ place' = place
          /\ quoted' = quoted /\ field' = field /\ fields' = fields /\ state' = state
      BY <2>1 DEF rowVars
    <3>2. /\ Width' = Width /\ (Closed' <=> Closed) /\ Values' = Values
          /\ \A n : Part(n)' = Part(n)
          /\ \A name : Column(name)' = Column(name)
          /\ \A i, q, f, fs : Split(i, q, f, fs)' <=> Split(i, q, f, fs)
          /\ \A i, fs : Chopped(i, fs)' <=> Chopped(i, fs)
      BY <3>1, SameRow
    <3>3. FieldsAreColumns' <=> FieldsAreColumns
      BY <3>1, <3>2 DEF FieldsAreColumns
    <3>4. RowsOfTheLibrary' <=> RowsOfTheLibrary
      BY <3>1, <3>2 DEF RowsOfTheLibrary, ParseHelper
    <3>5. ReadAsWritten' <=> ReadAsWritten
      BY <3>1, <3>3, <3>4 DEF ReadAsWritten
    <3>6. /\ Split(place, quoted, field, fields)' <=> Split(place, quoted, field, fields)
          /\ Chopped(place, fields)' <=> Chopped(place, fields)
          /\ ToSet(header)' = ToSet(header)
      BY <3>1, <3>2
    <3> QED BY <3>1, <3>5, <3>6 DEF ReadingInv
  <2> QED BY <2>1, ReadingStep
<1>3. ReadingInv => ReadAsWritten
  BY DEF ReadingInv
<1> QED BY <1>1, <1>2, <1>3, PTL DEF RowSpec
=============================================================================

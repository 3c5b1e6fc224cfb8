-------------------------- MODULE VdrPlaybackProofs --------------------------
(***************************************************************************)
(* Theorems about VdrPlayback, for every set of files and speeds, every    *)
(* batch and every buffer.                                                 *)
(***************************************************************************)
EXTENDS VdrPlayback, SequenceTheorems, WellFoundedInduction, TLAPS

\* A set of natural numbers that is not empty has a least member.
LEMMA LeastMember ==
  ASSUME NEW T \in SUBSET Nat, T # {}
  PROVE  \E x \in T : \A y \in T : x <= y
<1> DEFINE R == {ss \in Nat \X Nat : ss[1] < ss[2]}
<1>1. IsWellFoundedOn(R, Nat)
  BY NatLessThanWellFounded DEF OpToRel
<1>2. T \subseteq Nat
  OBVIOUS
<1> HIDE DEF R
<1>3. PICK x \in T : \A y \in T : ~ (<<y, x>> \in R)
  BY <1>1, <1>2, WFMin
<1>4. ASSUME NEW y \in T, y < x PROVE FALSE
  <2>1. <<y, x>> \in Nat \X Nat
    OBVIOUS
  <2>2. <<y, x>> \in R
    BY <1>4, <2>1 DEF R
  <2> QED BY <1>3, <2>2
<1> QED BY <1>4

\* One that is bounded has a greatest member.
LEMMA GreatestMember ==
  ASSUME NEW n \in Nat, NEW T \in SUBSET (0..n), T # {}
  PROVE  \E x \in T : \A y \in T : y <= x
<1> DEFINE D == {b \in Nat : \A y \in T : y <= b}
<1>1. D \in SUBSET Nat /\ n \in D
  OBVIOUS
<1>2. PICK b \in D : \A c \in D : b <= c
  BY <1>1, LeastMember
<1>3. PICK y \in T : TRUE
  OBVIOUS
<1>4. CASE b \in T
  BY <1>2, <1>4
<1>5. CASE b \notin T
  <2>1. \A z \in T : z <= b - 1
    BY <1>2, <1>5
  <2>2. b - 1 \in Nat
    BY <1>3, <2>1, <1>2
  <2>3. b - 1 \in D
    BY <2>1, <2>2
  <2> QED BY <1>2, <2>3
<1> QED BY <1>4, <1>5

\* No stamp among the first p lines is a second or more after c, which is not
\* before the first.
Passed(p, c) ==
  /\ FirstStamp(file) <= c
  /\ \A n \in Stamped(file) : n <= p => Lines[file][n] - (Second - 1) <= c

\* The stamps that were read are less than a second after the current one.
Follows == Timed => Passed(pos, current)

\* The sentence that the reader waits for is due when the timer may fire.
Due ==
  Timed /\ wait # Idle /\ pos \in Stamped(file) => Earliest(pos) <= clock + wait

\* The inductive invariant.
Inv ==
  /\ TypeOK /\ TimerRunsWhilePlaying /\ NothingWithheld /\ NeverFarAhead
  /\ Follows /\ Due /\ BaseRate

-----------------------------------------------------------------------------
(* Division, stamps and the schedule.                                      *)

\* Time divided by a speed.
LEMMA Division ==
  ASSUME NEW a \in Nat, NEW s \in Nat \ {0}
  PROVE  a \div s \in Nat /\ a \div s <= a
OBVIOUS

\* It grows with the time, which may be before the beginning.
LEMMA DivisionGrows ==
  ASSUME NEW a \in Int, NEW b \in Int, a <= b, NEW s \in Nat \ {0}
  PROVE  /\ a \div s \in Int /\ b \div s \in Int
         /\ a \div s <= b \div s
OBVIOUS

\* The lines of a file and its stamps.
LEMMA FileLines ==
  ASSUME NEW f \in Files
  PROVE  /\ Len(Lines[f]) \in Nat
         /\ \A n \in Stamped(f) : n \in 1..Len(Lines[f]) /\ Lines[f][n] \in 0..Horizon
<1>1. Horizon \in Nat /\ Lines[f] \in Seq(0..Horizon \union {NoStamp})
  BY PlaybackAssumption
<1>2. \A n \in 1..Len(Lines[f]) : Lines[f][n] \in 0..Horizon \union {NoStamp}
  BY <1>1
<1> QED BY <1>1, <1>2 DEF Stamped

\* The first stamp of a chronological file is its least.
LEMMA FirstIsLeast ==
  ASSUME NEW f \in Files, Chronological(f)
  PROVE  /\ FirstStamp(f) \in 0..Horizon
         /\ \A n \in Stamped(f) : FirstStamp(f) <= Lines[f][n]
<1>1. Stamped(f) \in SUBSET Nat /\ Stamped(f) # {}
  BY FileLines DEF Stamped, Chronological
<1>2. \E n \in Stamped(f) : \A m \in Stamped(f) : n <= m
  BY <1>1, LeastMember
<1> DEFINE x == CHOOSE n \in Stamped(f) : \A m \in Stamped(f) : n <= m
<1>3. x \in Stamped(f) /\ \A m \in Stamped(f) : x <= m
  BY <1>2
<1>4. FirstStamp(f) = Lines[f][x]
  BY DEF FirstStamp
<1> HIDE DEF x
<1>5. Lines[f][x] \in 0..Horizon
  BY <1>3, FileLines
<1>6. ASSUME NEW n \in Stamped(f) PROVE Lines[f][x] <= Lines[f][n]
  <2>1. x \in Nat /\ n \in Nat /\ Lines[f][n] \in 0..Horizon
    BY <1>1, <1>3, <1>6, FileLines
  <2>2. CASE x = n
    BY <2>1, <2>2
  <2>3. CASE x < n
    BY <1>3, <2>3 DEF Chronological
  <2> QED BY <1>3, <2>1, <2>2, <2>3
<1> QED BY <1>4, <1>5, <1>6

\* The time at which a stamp is due.
LEMMA ScaledBounds ==
  ASSUME NEW f \in Files, Chronological(f), NEW s \in Speeds,
         NEW x \in 0..Horizon, FirstStamp(f) <= x
  PROVE  /\ Scaled(f, x, s) \in 0..Horizon
         /\ \A y \in Int : y <= x => /\ Scaled(f, y, s) \in Int
                                    /\ Scaled(f, y, s) <= Scaled(f, x, s)
<1>1. FirstStamp(f) \in 0..Horizon /\ Horizon \in Nat /\ s \in Nat \ {0}
  BY FirstIsLeast, PlaybackAssumption
<1> DEFINE a == x - FirstStamp(f)
<1>2. a \in Nat /\ a <= Horizon
  BY <1>1
<1>3. a \div s \in Nat /\ a \div s <= a
  BY <1>1, <1>2, Division
<1>4. Scaled(f, x, s) = a \div s
  BY DEF Scaled
<1>5. ASSUME NEW y \in Int, y <= x
      PROVE  Scaled(f, y, s) \in Int /\ Scaled(f, y, s) <= Scaled(f, x, s)
  <2>1. y - FirstStamp(f) \in Int /\ a \in Int /\ y - FirstStamp(f) <= a
    BY <1>1, <1>2, <1>5
  <2> HIDE DEF a
  <2>2. (y - FirstStamp(f)) \div s \in Int /\ (y - FirstStamp(f)) \div s <= a \div s
    BY <1>1, <2>1, DivisionGrows
  <2> QED BY <1>4, <2>2 DEF Scaled
<1> HIDE DEF a
<1> QED BY <1>1, <1>2, <1>3, <1>4, <1>5

\* When the first p lines are passed by c, they are due no later than c is.
LEMMA PassedIsDue ==
  ASSUME file \in Files, Timed, speed \in Speeds, NEW p, NEW c \in 0..Horizon,
         Passed(p, c), NEW s \in Speeds
  PROVE  /\ Scaled(file, c, s) \in 0..Horizon
         /\ \A n \in Stamped(file) :
              n <= p => Scaled(file, Lines[file][n] - (Second - 1), s) <= Scaled(file, c, s)
<1>1. Chronological(file)
  BY DEF Timed
<1>2. Scaled(file, c, s) \in 0..Horizon
  BY <1>1, ScaledBounds DEF Passed
<1>3. ASSUME NEW n \in Stamped(file), n <= p
      PROVE  Scaled(file, Lines[file][n] - (Second - 1), s) <= Scaled(file, c, s)
  <2>1. Lines[file][n] - (Second - 1) \in Int
    BY FileLines, PlaybackAssumption
  <2>2. Lines[file][n] - (Second - 1) <= c /\ FirstStamp(file) <= c
    BY <1>3 DEF Passed
  <2> QED BY <1>1, <2>1, <2>2, ScaledBounds
<1> QED BY <1>2, <1>3

-----------------------------------------------------------------------------
(* The buffer.                                                             *)

\* What is left of a queue when its oldest sentences are dropped.
LEMMA NewestType ==
  ASSUME NEW k \in Nat, NEW queue \in Seq(Sentences)
  PROVE  Newest(k, queue) \in Buffers(k)
<1>1. CASE Len(queue) <= k
  BY <1>1 DEF Newest, Buffers
<1>2. CASE ~(Len(queue) <= k)
  <2>1. Len(queue) \in Nat
    OBVIOUS
  <2> DEFINE m == Len(queue) - k + 1
  <2>2. m \in 1..(Len(queue) + 1) /\ Len(queue) - m + 1 = k
    BY <1>2, <2>1
  <2>3. Newest(k, queue) = SubSeq(queue, m, Len(queue))
    BY <1>2 DEF Newest
  <2>4. /\ SubSeq(queue, m, Len(queue)) \in Seq(Sentences)
        /\ Len(SubSeq(queue, m, Len(queue))) <= k
    BY <1>2, <2>1, <2>2, SubSeqProperties
  <2> QED BY <2>3, <2>4 DEF Buffers
<1> QED BY <1>1, <1>2

\* The buffer and the sentences that follow.
LEMMA QueueType ==
  ASSUME file \in Files, buffer \in Seq(Sentences),
         NEW n \in 0..Len(Lines[file]), NEW p \in 0..n
  PROVE  Queue(p, n) \in Seq(Sentences)
<1>1. Len(Lines[file]) \in Nat
  BY FileLines
<1> DEFINE lines == [i \in 1..(n - p) |-> <<file, p + i>>]
<1>2. \A i \in 1..(n - p) : <<file, p + i>> \in Sentences
  <2> SUFFICES ASSUME NEW i \in 1..(n - p) PROVE <<file, p + i>> \in Sentences
    OBVIOUS
  <2>1. p + i \in 1..Len(Lines[file])
    BY <1>1
  <2> QED BY <2>1 DEF Sentences
<1>3. n - p \in Nat
  BY <1>1
<1>4. lines \in [1..(n - p) -> Sentences]
  BY <1>2
<1>5. lines \in Seq(Sentences)
  <2> HIDE DEF lines
  <2>1. [1..(n - p) -> Sentences] \in {[1..m -> Sentences] : m \in Nat}
    BY <1>3
  <2> QED BY <1>4, <2>1, Zenon, SeqDef
<1>6. <<>> \in Seq(Sentences)
  OBVIOUS
<1>7. Queue(p, n) = buffer \o (IF mode = "internal" THEN lines ELSE <<>>)
  BY DEF Queue
<1> HIDE DEF lines
<1> QED BY <1>5, <1>6, <1>7

-----------------------------------------------------------------------------
(* The reader.                                                             *)

\* What the reader finds: a file at line p at time k, the lines before passed.
Readable(p, k) ==
  /\ file \in Files /\ speed \in Speeds /\ mode \in Modes
  /\ p \in 0..Len(Lines[file]) /\ k \in 0..Horizon
  /\ current \in 0..Horizon /\ buffer \in Buffers(MaxBuffer)
  /\ Timed => /\ Passed(p, current)
              /\ \A n \in Stamped(file) : n <= p => Earliest(n) <= k

\* Line n is the first after p where the reader stops.
StopsAt(n, p, k) ==
  /\ n \in (p + 1)..Len(Lines[file])
  /\ Ahead(n, k) \/ Filled(n, p)
  /\ \A i \in (p + 1)..(n - 1) : ~Ahead(i, k) /\ ~Filled(i, p)

\* The reader stops at the first line it can, or reads to the end.
LEMMA Notified ==
  ASSUME NEW p, NEW k, Readable(p, k), Notify(p, k)
  PROVE  \/ /\ PlayOut(p)
            /\ \A i \in (p + 1)..Len(Lines[file]) : ~Ahead(i, k) /\ ~Filled(i, p)
         \/ \E n \in (p + 1)..Len(Lines[file]) : StopsAt(n, p, k) /\ PlayUpTo(n, p, k)
<1> DEFINE stops == {n \in p+1..Len(Lines[file]) : Ahead(n, k) \/ Filled(n, p)}
           x == CHOOSE n \in stops : \A m \in stops : n <= m
<1>1. Len(Lines[file]) \in Nat /\ p \in Nat
  BY FileLines DEF Readable
<1>2. CASE stops = {}
  BY <1>2 DEF Notify
<1>3. CASE stops # {}
  <2>1. stops \in SUBSET Nat
    BY <1>1
  <2>2. \E n \in stops : \A m \in stops : n <= m
    BY <1>3, <2>1, LeastMember
  <2>3. x \in stops /\ \A m \in stops : x <= m
    BY <2>2
  <2>4. PlayUpTo(x, p, k)
    BY <1>3 DEF Notify
  <2> HIDE DEF x
  <2>5. ASSUME NEW i \in (p + 1)..(x - 1), Ahead(i, k) \/ Filled(i, p)
        PROVE  FALSE
    <3>1. i \in stops
      BY <1>1, <2>3, <2>5
    <3> QED BY <1>1, <2>3, <2>5, <3>1
  <2> QED BY <2>3, <2>4, <2>5 DEF StopsAt
<1> QED BY <1>2, <1>3

\* After the lines to n are read, they are passed by the last stamp; if one of
\* them is stamped, none is after it.
LEMMA LastStampStep ==
  ASSUME NEW p, NEW k, Readable(p, k), NEW n \in p..Len(Lines[file])
  PROVE  /\ LastStamp(p, n) \in 0..Horizon
         /\ Timed => Passed(n, LastStamp(p, n))
         /\ Timed /\ n \in Stamped(file) /\ p < n =>
              /\ FirstStamp(file) <= LastStamp(p, n)
              /\ \A i \in Stamped(file) : i <= n => Lines[file][i] <= LastStamp(p, n)
<1> DEFINE stamped == {i \in Stamped(file) : p < i /\ i <= n}
           x == CHOOSE i \in stamped : \A j \in stamped : j <= i
<1>1. /\ Len(Lines[file]) \in Nat /\ p \in Nat /\ n \in Nat /\ Second \in Nat \ {0}
      /\ \A i \in Stamped(file) : i \in 1..Len(Lines[file]) /\ Lines[file][i] \in 0..Horizon
  BY FileLines, PlaybackAssumption DEF Readable
<1>2. CASE stamped = {} \/ ~Timed
  <2>1. LastStamp(p, n) = current
    BY <1>2 DEF LastStamp
  <2>2. ASSUME Timed, NEW i \in Stamped(file), i <= n
        PROVE  i <= p
    BY <1>1, <1>2, <2>2
  <2>3. ~(Timed /\ n \in Stamped(file) /\ p < n)
    BY <1>1, <1>2
  <2> QED BY <2>1, <2>2, <2>3 DEF Readable, Passed
<1>3. CASE stamped # {} /\ Timed
  <2>1. stamped \in SUBSET (0..n)
    BY <1>1
  <2>2. \E i \in stamped : \A j \in stamped : j <= i
    BY <1>1, <1>3, <2>1, GreatestMember
  <2>3. x \in stamped /\ \A j \in stamped : j <= x
    BY <2>2
  <2>4. LastStamp(p, n) = Lines[file][x]
    BY <1>3 DEF LastStamp
  <2> HIDE DEF x
  <2>5. file \in Files /\ Chronological(file)
    BY <1>3 DEF Readable, Timed
  <2>6. LastStamp(p, n) \in 0..Horizon /\ FirstStamp(file) <= LastStamp(p, n)
    BY <1>1, <2>3, <2>4, <2>5, FirstIsLeast
  <2>7. ASSUME NEW i \in Stamped(file), i <= n
        PROVE  Lines[file][i] <= LastStamp(p, n)
    <3>1. i <= x
      BY <1>1, <2>3, <2>7
    <3>2. i = x \/ i < x
      BY <1>1, <2>3, <3>1
    <3>3. Lines[file][x] <= Lines[file][x]
      BY <1>1, <2>3
    <3> QED BY <2>3, <2>4, <2>5, <3>2, <3>3 DEF Chronological
  <2>8. \A i \in Stamped(file) : i <= n => Lines[file][i] - (Second - 1) <= LastStamp(p, n)
    <3> SUFFICES ASSUME NEW i \in Stamped(file), i <= n
                 PROVE  Lines[file][i] - (Second - 1) <= LastStamp(p, n)
      OBVIOUS
    <3>1. Lines[file][i] <= LastStamp(p, n) /\ Lines[file][i] \in 0..Horizon
      BY <1>1, <2>7
    <3> QED BY <1>1, <2>6, <3>1
  <2> QED BY <2>6, <2>7, <2>8 DEF Passed
<1> QED BY <1>2, <1>3

\* The rest of a division by the length of a second.
LEMMA Rest ==
  ASSUME NEW a \in Nat
  PROVE  a % Second \in Nat /\ a % Second <= Second - 1 /\ a % Second <= a
<1>1. Second \in Nat \ {0}
  BY PlaybackAssumption
<1> QED BY <1>1

\* What is cut off is less than a second, so that the lines are passed still.
LEMMA CutStep ==
  ASSUME NEW p, NEW k, Readable(p, k), NEW n \in (p + 1)..Len(Lines[file]),
         Timed => n \in Stamped(file)
  PROVE  /\ SetProgress(LastStamp(p, n)) \in 0..Horizon
         /\ Timed => Passed(n, SetProgress(LastStamp(p, n)))
<1> DEFINE c == LastStamp(p, n)
<1>1. p \in Nat /\ n \in p..Len(Lines[file]) /\ p < n /\ Second \in Nat \ {0} /\ Horizon \in Nat
  BY FileLines, PlaybackAssumption DEF Readable
<1>2. /\ c \in 0..Horizon
      /\ Timed => /\ FirstStamp(file) <= c
                  /\ \A i \in Stamped(file) : i <= n => Lines[file][i] <= c
  BY <1>1, LastStampStep
<1> HIDE DEF c
<1>3. CASE ~Timed
  BY <1>2, <1>3 DEF SetProgress, c
<1>4. CASE Timed
  <2>1. file \in Files /\ Chronological(file)
    BY <1>4 DEF Readable, Timed
  <2>2. FirstStamp(file) \in 0..Horizon
    BY <2>1, FirstIsLeast
  <2> DEFINE a == c - FirstStamp(file)
             r == a % Second
  <2>3. a \in Nat
    BY <1>1, <1>2, <1>4, <2>2
  <2>4. r \in Nat /\ r <= Second - 1 /\ r <= a
    BY <2>3, Rest
  <2>5. SetProgress(c) = c - r
    BY <1>4 DEF SetProgress
  <2> HIDE DEF r
  <2>6. c - r \in 0..Horizon /\ FirstStamp(file) <= c - r
    BY <1>1, <1>2, <2>2, <2>4
  <2>7. ASSUME NEW i \in Stamped(file), i <= n
        PROVE  Lines[file][i] - (Second - 1) <= c - r
    <3>1. Lines[file][i] <= c /\ Lines[file][i] \in 0..Horizon
      BY <1>2, <1>4, <2>1, <2>7, FileLines
    <3> QED BY <1>1, <1>2, <2>4, <3>1
  <2> QED BY <2>5, <2>6, <2>7 DEF Passed, c
<1> QED BY <1>3, <1>4

\* What a call of Notify leaves.
NotifyLeaves(k) ==
  /\ pos' \in 0..Len(Lines[file]) /\ current' \in 0..Horizon /\ read' \in Nat
  /\ buffer' \in Buffers(MaxBuffer) /\ pushed' \in Buffers(MaxBuffer + 1)
  /\ wait' \in Nat \union {Idle} /\ playing' \in BOOLEAN /\ atEnd' \in BOOLEAN
  /\ playing' = TRUE <=> wait' # Idle
  /\ wait' # Idle => buffer' = <<>>
  /\ mode = "internal" /\ Stamped(file) = {} => read' <= Batch
  /\ Timed => Passed(pos', current')
  /\ Timed /\ playing' = TRUE => \A n \in Stamped(file) : n < pos' => Earliest(n) <= k
  /\ Timed /\ wait' # Idle /\ pos' \in Stamped(file) => Earliest(pos') <= k + wait'

\* The time of a stamp, and that of a batch, are natural numbers.
LEMMA Times ==
  ASSUME NEW p, NEW k, Readable(p, k)
  PROVE  /\ BatchInterval \div GetSpeedMultiplier \in Nat
         /\ Timed => \A n \in Stamped(file) :
              Target(n) \in 0..Horizon /\ Earliest(n) \in Int /\ Earliest(n) <= Target(n)
<1>1. file \in Files /\ speed \in Speeds /\ Speeds \subseteq Nat \ {0} /\ BatchInterval \in Nat
  BY PlaybackAssumption DEF Readable
<1>2. speed \in Nat \ {0}
  BY <1>1
<1>3. BatchInterval \div GetSpeedMultiplier \in Nat
  BY <1>1, <1>2, Division DEF GetSpeedMultiplier
<1>4. ASSUME Timed, NEW n \in Stamped(file)
      PROVE  Target(n) \in 0..Horizon /\ Earliest(n) \in Int /\ Earliest(n) <= Target(n)
  <2>1. Chronological(file)
    BY <1>4 DEF Timed
  <2>2. Lines[file][n] \in 0..Horizon /\ FirstStamp(file) <= Lines[file][n]
    BY <1>1, <2>1, FileLines, FirstIsLeast
  <2>3. Lines[file][n] - (Second - 1) \in Int /\ Lines[file][n] - (Second - 1) <= Lines[file][n]
    BY <2>2, PlaybackAssumption
  <2> QED BY <1>1, <2>1, <2>2, <2>3, ScaledBounds DEF Target, Earliest, GetSpeedMultiplier
<1> QED BY <1>3, <1>4

\* The reader that stops at a line has a timer for it and holds nothing back.
LEMMA PlayUpToStep ==
  ASSUME NEW p, NEW k, Readable(p, k),
         NEW n \in (p + 1)..Len(Lines[file]), StopsAt(n, p, k), PlayUpTo(n, p, k)
  PROVE  NotifyLeaves(k)
<1>1. /\ Len(Lines[file]) \in Nat /\ p \in Nat /\ n \in p..Len(Lines[file]) /\ k \in 0..Horizon
      /\ n \in 0..Len(Lines[file]) /\ p \in 0..n
  BY FileLines DEF Readable
<1>2. /\ ReadTo(p, n) /\ current' = SetProgress(LastStamp(p, n))
      /\ buffer' = <<>> /\ pushed' = Newest(MaxBuffer + 1, Queue(p, n))
      /\ playing' = TRUE /\ atEnd' = FALSE
      /\ wait' = IF Ahead(n, k) THEN Target(n) - k ELSE BatchInterval \div GetSpeedMultiplier
  BY DEF PlayUpTo
<1>3. /\ pos' = n /\ read' = n - p /\ current' \in 0..Horizon
      /\ Timed => Passed(n, current')
  <2>1. Timed => n \in Stamped(file)
    BY DEF StopsAt, Ahead, Filled
  <2> QED BY <1>2, <2>1, CutStep DEF ReadTo
<1>4. wait' \in Nat
  BY <1>1, <1>2, Times DEF Ahead
<1>5. /\ buffer \in Seq(Sentences) /\ Len(buffer) \in Nat /\ file \in Files
      /\ MaxBuffer \in Nat /\ Batch \in Nat
  BY PlaybackAssumption DEF Readable, Buffers
<1>6. pushed' \in Buffers(MaxBuffer + 1)
  BY <1>1, <1>2, <1>5, QueueType, NewestType
<1>7. buffer' \in Buffers(MaxBuffer)
  BY <1>2, <1>5 DEF Buffers
<1>8. ASSUME mode = "internal", Stamped(file) = {}
      PROVE  n - p <= Batch
  <2>1. ~Timed
    BY <1>8 DEF Timed, Chronological
  <2>2. \A i \in (p + 1)..(n - 1) : Len(buffer) + (i - p) < Batch
    BY <1>1, <1>5, <1>8, <2>1 DEF StopsAt, Filled
  <2>3. CASE n = p + 1
    BY <1>1, <2>3, PlaybackAssumption
  <2>4. CASE n # p + 1
    <3>1. n - 1 \in (p + 1)..(n - 1)
      BY <1>1, <2>4
    <3>2. Len(buffer) + ((n - 1) - p) < Batch
      BY <2>2, <3>1
    <3> QED BY <1>1, <1>5, <3>2
  <2> QED BY <2>3, <2>4
<1>9. ASSUME Timed, NEW i \in Stamped(file), i < n
      PROVE  Earliest(i) <= k
  <2>1. /\ i \in Nat /\ Target(i) \in 0..Horizon
        /\ Earliest(i) \in Int /\ Earliest(i) <= Target(i)
    BY <1>5, <1>9, FileLines, Times
  <2>2. CASE i <= p
    BY <1>9, <2>2 DEF Readable
  <2>3. CASE i > p
    <3>1. i \in (p + 1)..(n - 1)
      BY <1>1, <1>9, <2>1, <2>3
    <3>2. ~Ahead(i, k)
      BY <3>1 DEF StopsAt
    <3> QED BY <1>1, <1>9, <2>1, <3>2 DEF Ahead
  <2> QED BY <1>1, <2>1, <2>2, <2>3
<1>10. ASSUME Timed, n \in Stamped(file)
       PROVE  Earliest(n) <= k + wait'
  <2>1. Ahead(n, k)
    BY <1>10 DEF StopsAt, Filled
  <2> QED BY <1>1, <1>2, <1>10, <2>1, Times
<1>11. wait' # Idle
  BY <1>4 DEF Idle
<1>12. pos' \in 0..Len(Lines[file]) /\ read' \in Nat
  BY <1>1, <1>3
<1>13. /\ Timed /\ playing' = TRUE => \A i \in Stamped(file) : i < pos' => Earliest(i) <= k
       /\ Timed /\ wait' # Idle /\ pos' \in Stamped(file) => Earliest(pos') <= k + wait'
       /\ Timed => Passed(pos', current')
       /\ mode = "internal" /\ Stamped(file) = {} => read' <= Batch
  BY <1>3, <1>8, <1>9, <1>10
<1> QED BY <1>2, <1>3, <1>4, <1>6, <1>7, <1>11, <1>12, <1>13 DEF NotifyLeaves

\* The reader that comes to the end has no timer.
LEMMA PlayOutStep ==
  ASSUME NEW p, NEW k, Readable(p, k), PlayOut(p),
         \A i \in (p + 1)..Len(Lines[file]) : ~Ahead(i, k) /\ ~Filled(i, p)
  PROVE  NotifyLeaves(k)
<1> DEFINE n == Len(Lines[file])
<1>1. n \in Nat /\ p \in 0..n /\ n \in p..n /\ n \in 0..n
  BY FileLines DEF Readable
<1>2. /\ ReadTo(p, n) /\ current' = LastStamp(p, n)
      /\ buffer' = Newest(MaxBuffer, Queue(p, n)) /\ pushed' = <<>>
      /\ playing' = FALSE /\ atEnd' = TRUE /\ wait' = Idle
  BY DEF PlayOut
<1>3. /\ pos' = n /\ read' = n - p /\ current' \in 0..Horizon
      /\ Timed => Passed(n, current')
  BY <1>1, <1>2, LastStampStep DEF ReadTo
<1>4. /\ buffer \in Seq(Sentences) /\ Len(buffer) \in Nat /\ file \in Files
      /\ MaxBuffer \in Nat /\ Batch \in Nat
  BY PlaybackAssumption DEF Readable, Buffers
<1>5. buffer' \in Buffers(MaxBuffer)
  BY <1>1, <1>2, <1>4, QueueType, NewestType
<1>6. pushed' \in Buffers(MaxBuffer + 1)
  BY <1>2, <1>4 DEF Buffers
<1>7. ASSUME mode = "internal", Stamped(file) = {}
      PROVE  n - p <= Batch
  <2>1. ~Timed
    BY <1>7 DEF Timed, Chronological
  <2>2. CASE n = p
    BY <1>1, <1>4, <2>2
  <2>3. CASE n # p
    <3>1. n \in (p + 1)..n
      BY <1>1, <2>3
    <3>2. ~Filled(n, p)
      BY <3>1
    <3> QED BY <1>1, <1>4, <1>7, <2>1, <3>2 DEF Filled
  <2> QED BY <2>2, <2>3
<1> HIDE DEF n
<1>8. n \in 0..n /\ n - p \in Nat
  BY <1>1
<1> QED BY <1>2, <1>3, <1>5, <1>6, <1>7, <1>8 DEF NotifyLeaves, n

LEMMA NotifyStep ==
  ASSUME NEW p, NEW k, Readable(p, k), Notify(p, k)
  PROVE  NotifyLeaves(k)
BY Notified, PlayUpToStep, PlayOutStep

-----------------------------------------------------------------------------
(* The inductive invariant.                                                *)

\* The conjuncts of TypeOK about what is played.
LEMMA TypeParts ==
  ASSUME TypeOK
  PROVE  /\ scanned \in BOOLEAN /\ open \in BOOLEAN /\ playing \in BOOLEAN
         /\ file \in Files \union {NoFile}
         /\ current \in 0..Horizon /\ clock \in 0..Horizon
         /\ wait \in Nat \union {Idle} /\ buffer \in Buffers(MaxBuffer)
         /\ speed \in Speeds /\ mode \in Modes /\ pos \in Nat
         /\ file # NoFile => file \in Files /\ pos \in 0..Len(Lines[file])
         /\ playing => file # NoFile
<1>1. file # NoFile => Len(Lines[file]) \in Nat
  BY FileLines DEF TypeOK
<1> QED BY <1>1 DEF TypeOK

\* The time at which the current stamp is due, to which the base time is set.
LEMMA AdjustedTime ==
  ASSUME Inv, NEW s \in Speeds
  PROVE  /\ Adjusted(s) \in 0..Horizon
         /\ Timed => \A n \in Stamped(file) :
              n <= pos => Scaled(file, Lines[file][n] - (Second - 1), s) <= Adjusted(s)
<1>1. TypeOK /\ Follows
  BY DEF Inv
<1>2. CASE ~Timed
  BY <1>1, <1>2, TypeParts DEF Adjusted
<1>3. CASE Timed
  <2>1. file \in Files
    BY <1>1, <1>3, TypeParts DEF Timed
  <2> QED BY <1>1, <1>3, <2>1, PassedIsDue, TypeParts DEF Adjusted, Follows
<1> QED BY <1>2, <1>3

\* Timed, and the schedule, depend on the file and the speed.
LEMMA SameFile ==
  ASSUME file' = file, scanned' = scanned
  PROVE  Timed' = Timed
BY DEF Timed

\* After Notify the invariant holds.
LEMMA ReaderStep ==
  ASSUME Inv, file \in Files, open' = TRUE, clock' \in 0..Horizon,
         UNCHANGED <<file, scanned, mode, speed, shown>>, NotifyLeaves(clock')
  PROVE  Inv'
<1>1. TypeOK /\ Timed' = Timed /\ file # NoFile
  BY SameFile, PlaybackAssumption DEF Inv
<1>2. /\ pos' \in 0..Len(Lines[file]) /\ current' \in 0..Horizon /\ read' \in Nat
      /\ buffer' \in Buffers(MaxBuffer) /\ pushed' \in Buffers(MaxBuffer + 1)
      /\ wait' \in Nat \union {Idle} /\ playing' \in BOOLEAN /\ atEnd' \in BOOLEAN
  BY DEF NotifyLeaves
<1>3. pos' \in Nat /\ pos' <= Len(Lines[file'])
  BY <1>2, FileLines
<1>4. TypeOK'
  BY <1>1, <1>2, <1>3 DEF TypeOK
<1>5. TimerRunsWhilePlaying' /\ NothingWithheld'
  BY <1>2 DEF NotifyLeaves, TimerRunsWhilePlaying, NothingWithheld
<1>6. NeverFarAhead'
  BY <1>1, <1>2 DEF NotifyLeaves, NeverFarAhead, Earliest, GetSpeedMultiplier
<1>7. Follows'
  BY <1>1 DEF NotifyLeaves, Follows, Passed
<1>8. Due'
  BY <1>1 DEF NotifyLeaves, Due, Earliest, GetSpeedMultiplier
<1>9. BaseRate'
  BY DEF NotifyLeaves, BaseRate
<1> QED BY <1>4, <1>5, <1>6, <1>7, <1>8, <1>9 DEF Inv

\* The timer goes on where it was, at a time that was waited for.
LEMMA TimerFiresStep ==
  ASSUME Inv, TimerFires
  PROVE  Inv'
<1>1. /\ TypeOK /\ TimerRunsWhilePlaying /\ NeverFarAhead /\ Follows /\ Due
      /\ wait = 0 /\ Notify(pos, clock) /\ open' = open /\ clock' = clock
      /\ UNCHANGED <<file, scanned, mode, speed, shown>>
  BY DEF Inv, TimerFires
<1>2. wait # Idle /\ playing /\ open
  BY <1>1 DEF TimerRunsWhilePlaying, Idle
<1>3. file \in Files /\ pos \in 0..Len(Lines[file]) /\ clock \in 0..Horizon /\ open = TRUE
  BY <1>1, <1>2, TypeParts
<1>4. ASSUME Timed, NEW n \in Stamped(file), n <= pos
      PROVE  Earliest(n) <= clock
  <2>1. n \in Nat /\ pos \in Nat
    BY <1>3, FileLines
  <2>2. CASE n < pos
    BY <1>1, <1>2, <1>4, <2>2 DEF NeverFarAhead
  <2>3. CASE n = pos
    BY <1>1, <1>2, <1>3, <1>4, <2>3 DEF Due
  <2> QED BY <1>4, <2>1, <2>2, <2>3
<1>5. Readable(pos, clock)
  BY <1>1, <1>3, <1>4, TypeParts DEF Readable, Follows
<1>6. NotifyLeaves(clock)
  BY <1>1, <1>5, NotifyStep
<1> QED BY <1>1, <1>3, <1>6, ReaderStep

\* A start reads from the first line at the time of the current stamp.
LEMMA StartPlaybackStep ==
  ASSUME Inv, StartPlayback
  PROVE  Inv'
<1>1. /\ TypeOK /\ Follows /\ file # NoFile
      /\ clock' = Adjusted(GetSpeedMultiplier) /\ Notify(0, clock') /\ open' = TRUE
      /\ UNCHANGED <<file, scanned, mode, speed, shown>>
  BY DEF Inv, StartPlayback
<1>2. file \in Files /\ pos \in 0..Len(Lines[file]) /\ speed \in Speeds
  BY <1>1, TypeParts
<1>3. clock' \in 0..Horizon
  BY <1>1, <1>2, AdjustedTime DEF GetSpeedMultiplier
<1>4. \A n \in Stamped(file) : n \in Nat /\ ~(n <= 0)
  BY <1>2, FileLines
<1>5. Timed => Passed(0, current)
  BY <1>1, <1>4 DEF Follows, Passed
<1>6. 0 \in 0..Len(Lines[file])
  BY <1>2, FileLines
<1>7. Readable(0, clock')
  BY <1>1, <1>2, <1>3, <1>4, <1>5, <1>6, TypeParts DEF Readable
<1>8. NotifyLeaves(clock')
  BY <1>1, <1>7, NotifyStep
<1> QED BY <1>1, <1>2, <1>3, <1>8, ReaderStep

\* Loading puts the reader before the first line, at the first stamp.
LEMMA LoadStep ==
  ASSUME Inv, LoadFails \/ \E f \in Files : LoadFile(f)
  PROVE  Inv'
<1>1. TypeOK /\ wait = Idle /\ ~playing
  BY DEF Inv, LoadFails, LoadFile, TimerRunsWhilePlaying
<1>2. /\ pos' = 0 /\ atEnd' = FALSE /\ NothingRead
      /\ UNCHANGED <<playing, clock, wait, buffer, mode, speed, shown>>
  BY DEF LoadFails, LoadFile
<1>3. /\ file' \in Files \union {NoFile} /\ scanned' \in BOOLEAN /\ open' \in BOOLEAN
      /\ open' => file' # NoFile
  BY PlaybackAssumption DEF LoadFails, LoadFile
<1>4. current' \in 0..Horizon /\ (Timed' => Passed(pos, current)')
  <2>1. CASE LoadFails
    BY <1>1, <2>1, TypeParts DEF LoadFails, Timed
  <2>2. ASSUME NEW f \in Files, LoadFile(f)
        PROVE  current' \in 0..Horizon /\ (Timed' => Passed(pos, current)')
    <3>1. file' = f /\ current' = IF Chronological(f) THEN FirstStamp(f) ELSE 0
      BY <2>2 DEF LoadFile
    <3>2. \A n \in Stamped(f) : n \in Nat /\ ~(n <= 0)
      BY FileLines
    <3>3. Chronological(f) => FirstStamp(f) \in 0..Horizon
      BY FirstIsLeast
    <3>4. 0 \in 0..Horizon
      BY PlaybackAssumption
    <3>5. current' \in 0..Horizon
      BY <3>1, <3>3, <3>4
    <3>6. ASSUME Timed' PROVE Passed(pos, current)'
      <4>1. current' = FirstStamp(file') /\ FirstStamp(file') \in 0..Horizon
        BY <3>1, <3>3, <3>6 DEF Timed
      <4> QED BY <1>2, <3>1, <3>2, <4>1 DEF Passed
    <3> QED BY <3>5, <3>6
  <2> QED BY <2>1, <2>2
<1>5. read' = 0 /\ pushed' = <<>>
  BY <1>2 DEF NothingRead
<1>6. pos' \in Nat /\ (file' # NoFile => pos' <= Len(Lines[file']))
  BY <1>2, <1>3, FileLines
<1>7. pushed' \in Buffers(MaxBuffer + 1)
  BY <1>5, PlaybackAssumption DEF Buffers
<1>8. TypeOK'
  <2>1. shown' \in BOOLEAN /\ atEnd' \in BOOLEAN /\ playing' \in BOOLEAN /\ ~playing'
    BY <1>1, <1>2 DEF TypeOK
  <2>2. read' \in Nat
    BY <1>5
  <2> QED BY <1>1, <1>2, <1>3, <1>4, <1>6, <1>7, <2>1, <2>2, TypeParts DEF TypeOK
<1>9. TimerRunsWhilePlaying' /\ NothingWithheld' /\ NeverFarAhead' /\ Due'
  BY <1>1, <1>2 DEF TimerRunsWhilePlaying, NothingWithheld, NeverFarAhead, Due
<1>10. Follows' /\ BaseRate'
  BY <1>4, <1>5, PlaybackAssumption DEF Follows, BaseRate
<1> QED BY <1>8, <1>9, <1>10 DEF Inv

\* What the steps that read nothing have to show.
LEMMA QuietStep ==
  ASSUME Inv, NothingRead, UNCHANGED <<file, scanned, pos, current, buffer>>,
         open' \in BOOLEAN, open' => open, playing' \in BOOLEAN, playing' => playing,
         atEnd' \in BOOLEAN,
         clock' \in 0..Horizon, wait' \in Nat \union {Idle},
         mode' \in Modes, speed' \in Speeds, shown' \in BOOLEAN,
         wait' # Idle => wait # Idle,
         TimerRunsWhilePlaying', NeverFarAhead', Due'
  PROVE  Inv'
<1>1. TypeOK /\ NothingWithheld /\ Follows /\ Timed' = Timed
  BY SameFile DEF Inv
<1>2. read' = 0 /\ pushed' = <<>> /\ read' \in Nat
  BY DEF NothingRead
<1>3. pushed' \in Buffers(MaxBuffer + 1)
  BY <1>2, PlaybackAssumption DEF Buffers
<1>4. /\ playing' \in BOOLEAN /\ (playing' => file' # NoFile)
      /\ open' \in BOOLEAN /\ (open' => file' # NoFile)
  BY <1>1 DEF TypeOK
<1>5. pos' \in Nat /\ (file' # NoFile => pos' <= Len(Lines[file']))
  BY <1>1 DEF TypeOK
<1>6. TypeOK'
  BY <1>1, <1>2, <1>3, <1>4, <1>5, TypeParts DEF TypeOK
<1>7. NothingWithheld' /\ Follows' /\ BaseRate'
  BY <1>1, <1>2, PlaybackAssumption DEF NothingWithheld, Follows, Passed, BaseRate
<1> QED BY <1>6, <1>7 DEF Inv

\* What is not playing is not ahead of its schedule.
LEMMA NotPlaying ==
  ASSUME ~playing', wait' = Idle
  PROVE  TimerRunsWhilePlaying' /\ NeverFarAhead' /\ Due'
BY DEF TimerRunsWhilePlaying, NeverFarAhead, Due

\* The steps after which nothing plays.
LEMMA PauseStep ==
  ASSUME Inv, StartFails \/ PausePlayback
  PROVE  Inv'
<1>1. TypeOK /\ speed \in Speeds /\ shown \in BOOLEAN /\ atEnd \in BOOLEAN
  BY DEF Inv, TypeOK
<1>2. /\ NothingRead /\ UNCHANGED <<file, scanned, pos, current, buffer, open, mode, speed, shown>>
      /\ atEnd' \in {atEnd, FALSE} /\ playing' \in BOOLEAN /\ ~playing'
      /\ clock' \in {clock, Adjusted(speed)}
  <2>1. CASE StartFails
    BY <1>1, <2>1, TypeParts DEF StartFails, GetSpeedMultiplier
  <2>2. CASE PausePlayback
    BY <2>2 DEF PausePlayback
  <2> QED BY <2>1, <2>2
<1>3. wait' = Idle
  BY DEF Inv, TimerRunsWhilePlaying, StartFails, PausePlayback
<1>4. clock' \in 0..Horizon
  BY <1>1, <1>2, AdjustedTime, TypeParts
<1>5. TimerRunsWhilePlaying' /\ NeverFarAhead' /\ Due'
  BY <1>2, <1>3, NotPlaying
<1> QED BY <1>1, <1>2, <1>3, <1>4, <1>5, QuietStep, TypeParts

\* The panel's windows and the preferences leave the schedule as it is.
LEMMA PanelStep ==
  ASSUME Inv, OnToolbarPlay \/ ClosePanel \/ \E m \in Modes : SetReplayMode(m)
  PROVE  Inv'
<1>1. /\ TypeOK /\ TimerRunsWhilePlaying /\ NeverFarAhead /\ Due
      /\ speed \in Speeds /\ mode \in Modes /\ shown \in BOOLEAN /\ atEnd \in BOOLEAN
      /\ open \in BOOLEAN
  BY DEF Inv, TypeOK
<1>2. /\ NothingRead
      /\ UNCHANGED <<file, scanned, pos, playing, atEnd, current, clock, buffer, speed>>
      /\ mode' \in Modes /\ shown' \in BOOLEAN
  BY <1>1 DEF OnToolbarPlay, ClosePanel, SetReplayMode, reading
<1>3. \/ wait' = wait /\ open' = open
      \/ wait' = Idle /\ open' = FALSE
  <2>1. CASE OnToolbarPlay
    <3>1. CASE shown /\ wait # Idle
      BY <2>1, <3>1 DEF OnToolbarPlay
    <3>2. CASE ~(shown /\ wait # Idle)
      BY <1>1, <2>1, <3>2 DEF OnToolbarPlay
    <3> QED BY <3>1, <3>2
  <2>2. CASE ClosePanel \/ \E m \in Modes : SetReplayMode(m)
    BY <2>2 DEF ClosePanel, SetReplayMode, reading
  <2> QED BY <2>1, <2>2
<1>4. Timed' = Timed
  BY <1>2, SameFile
<1>5. TimerRunsWhilePlaying'
  BY <1>1, <1>2, <1>3 DEF TimerRunsWhilePlaying
<1>6. NeverFarAhead'
  BY <1>1, <1>2, <1>4 DEF NeverFarAhead, Earliest, GetSpeedMultiplier
<1>7. Due'
  BY <1>1, <1>2, <1>3, <1>4 DEF Due, Earliest, GetSpeedMultiplier
<1>8. wait' \in Nat \union {Idle} /\ clock' \in 0..Horizon
  BY <1>1, <1>2, <1>3, TypeParts
<1>9. /\ open' \in BOOLEAN /\ (open' => open) /\ playing' \in BOOLEAN /\ (playing' => playing)
      /\ atEnd' \in BOOLEAN /\ speed' \in Speeds /\ (wait' # Idle => wait # Idle)
  <2>1. playing' \in BOOLEAN /\ (playing' => playing) /\ atEnd' \in BOOLEAN /\ speed' \in Speeds
    BY <1>1, <1>2, TypeParts
  <2>2. open' \in BOOLEAN /\ (open' => open)
    <3>1. CASE open' = open
      BY <1>1, <3>1
    <3>2. CASE open' = FALSE
      BY <3>2
    <3> QED BY <1>3, <3>1, <3>2
  <2>3. wait' # Idle => wait # Idle
    BY <1>3
  <2> QED BY <2>1, <2>2, <2>3
<1> QED BY <1>2, <1>5, <1>6, <1>7, <1>8, <1>9, QuietStep

\* A change of speed makes the current stamp due: what was read is not ahead.
LEMMA SpeedStep ==
  ASSUME Inv, NEW s \in Speeds, OnSpeedSliderUpdated(s)
  PROVE  Inv'
<1>1. /\ TypeOK /\ TimerRunsWhilePlaying
      /\ mode \in Modes /\ shown \in BOOLEAN /\ atEnd \in BOOLEAN
  BY DEF Inv, TypeOK
<1>2. /\ NothingRead /\ speed' = s
      /\ clock' = IF playing THEN Adjusted(s) ELSE clock
      /\ UNCHANGED <<file, scanned, open, pos, playing, atEnd, current, wait, buffer, mode, shown>>
  BY DEF OnSpeedSliderUpdated
<1>3. clock' \in 0..Horizon
  BY <1>1, <1>2, AdjustedTime, TypeParts
<1>4. Timed' = Timed
  BY <1>2, SameFile
<1>5. TimerRunsWhilePlaying'
  BY <1>1, <1>2 DEF TimerRunsWhilePlaying
<1>6. ASSUME playing, Timed, NEW n \in Stamped(file), n <= pos
      PROVE  Earliest(n)' <= clock'
  BY <1>2, <1>6, AdjustedTime DEF Earliest, GetSpeedMultiplier
<1>7. ASSUME playing, Timed
      PROVE  file \in Files /\ \A n \in Stamped(file) : n \in Nat
  <2>1. file \in Files
    BY <1>1, <1>7, TypeParts
  <2> QED BY <2>1, FileLines
<1>8. NeverFarAhead'
  <2> SUFFICES ASSUME playing, Timed, NEW n \in Stamped(file), n < pos
               PROVE  Earliest(n)' <= clock'
    BY <1>2, <1>4 DEF NeverFarAhead
  <2>1. n <= pos
    BY <1>1, <1>7, TypeParts
  <2> QED BY <1>6, <2>1
<1>9. Due'
  <2> SUFFICES ASSUME Timed, wait # Idle, pos \in Stamped(file)
               PROVE  Earliest(pos)' <= clock' + wait
    BY <1>2, <1>4 DEF Due, Earliest
  <2>1. playing
    BY <1>1 DEF TimerRunsWhilePlaying
  <2>2. wait \in Nat /\ pos \in Nat
    BY <1>1, TypeParts
  <2>3. Earliest(pos)' <= clock'
    <3>1. pos <= pos
      BY <2>2
    <3> QED BY <1>2, <1>6, <2>1, <3>1 DEF Earliest, GetSpeedMultiplier
  <2>4. Earliest(pos)' \in Int
    <3>1. Chronological(file) /\ file \in Files
      BY <1>7, <2>1 DEF Timed
    <3>2. Lines[file][pos] \in 0..Horizon /\ FirstStamp(file) <= Lines[file][pos]
      BY <3>1, FileLines, FirstIsLeast
    <3>3. Lines[file][pos] - (Second - 1) \in Int /\ Lines[file][pos] - (Second - 1) <= Lines[file][pos]
      BY <3>2, PlaybackAssumption
    <3>4. Scaled(file, Lines[file][pos] - (Second - 1), s) \in Int
      BY <3>1, <3>2, <3>3, ScaledBounds
    <3> QED BY <1>2, <3>4 DEF Earliest, GetSpeedMultiplier
  <2> QED BY <1>3, <2>2, <2>3, <2>4
<1> QED BY <1>1, <1>2, <1>3, <1>5, <1>8, <1>9, QuietStep, TypeParts

\* What the clock gains the timer loses.
LEMMA OneLess ==
  ASSUME NEW a \in Nat, NEW b \in Nat, NEW c \in Nat, b <= c + 1
  PROVE  a + b <= (a + 1) + c /\ a + b \in Nat /\ (a + 1) + c \in Nat
OBVIOUS

\* Time passes for the clock as it does for the timer.
LEMMA TickStep ==
  ASSUME Inv, Tick
  PROVE  Inv'
<1>1. /\ TypeOK /\ TimerRunsWhilePlaying /\ NeverFarAhead /\ Due
      /\ speed \in Speeds /\ mode \in Modes /\ shown \in BOOLEAN /\ atEnd \in BOOLEAN
      /\ Horizon \in Nat
  BY PlaybackAssumption DEF Inv, TypeOK
<1>2. /\ NothingRead /\ playing
      /\ wait' = IF wait > 0 THEN wait - 1 ELSE wait
      /\ clock' = IF Timed /\ clock < Horizon THEN clock + 1 ELSE clock
      /\ UNCHANGED <<file, scanned, open, pos, playing, atEnd, current, buffer, mode, speed, shown>>
  BY DEF Tick
<1>3. wait \in Nat \union {Idle} /\ clock \in 0..Horizon /\ file \in Files
  BY <1>1, <1>2, TypeParts
<1>4. /\ wait' \in Nat \union {Idle} /\ (wait' # Idle <=> wait # Idle)
      /\ clock' \in 0..Horizon /\ clock <= clock'
  BY <1>1, <1>2, <1>3 DEF Idle
<1>5. Timed' = Timed
  BY <1>2, SameFile
<1>6. TimerRunsWhilePlaying'
  BY <1>1, <1>2, <1>4 DEF TimerRunsWhilePlaying
<1>7. ASSUME Timed, NEW n \in Stamped(file)
      PROVE  Earliest(n) \in Int /\ Earliest(n) <= Horizon /\ Earliest(n)' = Earliest(n)
  <2>1. Chronological(file)
    BY <1>7 DEF Timed
  <2>2. Lines[file][n] \in 0..Horizon /\ FirstStamp(file) <= Lines[file][n]
    BY <1>3, <1>7, <2>1, FileLines, FirstIsLeast
  <2>3. Lines[file][n] - (Second - 1) \in Int /\ Lines[file][n] - (Second - 1) <= Lines[file][n]
    BY <2>2, PlaybackAssumption
  <2>4. /\ Earliest(n) \in Int /\ Target(n) \in 0..Horizon /\ Earliest(n) <= Target(n)
    BY <1>1, <1>3, <2>1, <2>2, <2>3, ScaledBounds DEF Earliest, Target, GetSpeedMultiplier
  <2>5. Earliest(n) <= Horizon
    BY <1>1, <2>4
  <2> QED BY <1>2, <2>4, <2>5 DEF Earliest, GetSpeedMultiplier
<1>8. NeverFarAhead'
  <2> SUFFICES ASSUME Timed, NEW n \in Stamped(file), n < pos
               PROVE  Earliest(n)' <= clock'
    BY <1>2, <1>5 DEF NeverFarAhead
  <2>1. Earliest(n) <= clock
    BY <1>1, <1>2 DEF NeverFarAhead
  <2> QED BY <1>3, <1>4, <1>7, <2>1
<1>9. Due'
  <2> SUFFICES ASSUME Timed, wait' # Idle, pos \in Stamped(file)
               PROVE  Earliest(pos)' <= clock' + wait'
    BY <1>2, <1>5 DEF Due, Earliest
  <2>1. Earliest(pos) <= clock + wait /\ wait \in Nat
    BY <1>1, <1>3, <1>4 DEF Due
  <2>2. Earliest(pos)' = Earliest(pos) /\ Earliest(pos) \in Int /\ Earliest(pos) <= Horizon
    BY <1>2, <1>7 DEF Earliest, GetSpeedMultiplier
  <2>3. CASE clock < Horizon
    <3>1. clock' = clock + 1
      BY <1>2, <2>3
    <3>2. wait' \in Nat /\ wait <= wait' + 1
      BY <1>2, <2>1
    <3>3. clock \in Nat
      BY <1>1, <1>3
    <3>4. wait \in Nat
      BY <2>1
    <3>5. /\ clock + wait \in Nat /\ clock' + wait' \in Nat
          /\ clock + wait <= clock' + wait'
      BY <3>1, <3>2, <3>3, <3>4, OneLess
    <3> QED BY <2>1, <2>2, <3>5
  <2>4. CASE ~(clock < Horizon)
    <3>1. clock' = Horizon
      BY <1>1, <1>2, <1>3, <2>4
    <3>2. wait' \in Nat
      BY <1>2, <2>1
    <3> QED BY <1>1, <2>2, <3>1, <3>2
  <2> QED BY <2>3, <2>4
<1>10. /\ open' \in BOOLEAN /\ (open' => open) /\ playing' \in BOOLEAN /\ (playing' => playing)
       /\ atEnd' \in BOOLEAN /\ speed' \in Speeds /\ mode' \in Modes /\ shown' \in BOOLEAN
  BY <1>1, <1>2, TypeParts
<1> QED BY <1>2, <1>4, <1>6, <1>8, <1>9, <1>10, QuietStep

-----------------------------------------------------------------------------
(* The theorems.                                                           *)

\* The plugin starts with a file at most, and nothing scanned.
LEMMA InitInv == Init => Inv
<1> SUFFICES ASSUME Init PROVE Inv
  OBVIOUS
<1>1. /\ Horizon \in Nat /\ Slowest \in Speeds /\ MaxBuffer \in Nat /\ Batch \in Nat
      /\ \A f \in Files : Len(Lines[f]) \in Nat
  BY PlaybackAssumption, FileLines
<1>2. /\ file \in Files \union {NoFile} /\ scanned = FALSE /\ open = FALSE /\ pos = 0
      /\ playing = FALSE /\ atEnd \in BOOLEAN /\ current = 0 /\ clock = 0 /\ wait = Idle
      /\ buffer = <<>> /\ mode \in Modes /\ speed = Slowest /\ shown = TRUE
      /\ pushed = <<>> /\ read = 0
  BY DEF Init
<1>3. buffer \in Buffers(MaxBuffer) /\ pushed \in Buffers(MaxBuffer + 1)
  BY <1>1, <1>2 DEF Buffers
<1>4. pos \in Nat /\ (file # NoFile => pos <= Len(Lines[file]))
  BY <1>1, <1>2
<1>5. current \in 0..Horizon /\ clock \in 0..Horizon
  BY <1>1, <1>2
<1>6. TypeOK
  BY <1>1, <1>2, <1>3, <1>4, <1>5 DEF TypeOK
<1>7. TimerRunsWhilePlaying /\ NothingWithheld /\ NeverFarAhead
  BY <1>2 DEF TimerRunsWhilePlaying, NothingWithheld, NeverFarAhead
<1>8. Follows /\ Due /\ BaseRate
  BY <1>1, <1>2 DEF Follows, Due, BaseRate, Timed
<1> QED BY <1>6, <1>7, <1>8 DEF Inv

\* Every step preserves the invariant.
LEMMA NextInv == Inv /\ [Next]_vars => Inv'
<1> SUFFICES ASSUME Inv, [Next]_vars PROVE Inv'
  OBVIOUS
<1>1. CASE TimerFires
  BY <1>1, TimerFiresStep
<1>2. CASE LoadFails \/ \E f \in Files : LoadFile(f)
  BY <1>2, LoadStep
<1>3. CASE StartPlayback
  BY <1>3, StartPlaybackStep
<1>4. CASE StartFails \/ PausePlayback
  BY <1>4, PauseStep
<1>5. CASE \E s \in Speeds : OnSpeedSliderUpdated(s)
  BY <1>5, SpeedStep
<1>6. CASE OnToolbarPlay \/ ClosePanel \/ \E m \in Modes : SetReplayMode(m)
  BY <1>6, PanelStep
<1>7. CASE Tick
  BY <1>7, TickStep
<1>8. CASE UNCHANGED vars
  BY <1>8 DEF vars, reading, Inv, TypeOK, TimerRunsWhilePlaying, NothingWithheld,
     NeverFarAhead, Follows, Passed, Due, BaseRate, Timed, Earliest, GetSpeedMultiplier
<1> QED BY <1>1, <1>2, <1>3, <1>4, <1>5, <1>6, <1>7, <1>8 DEF Next

\* The invariant holds in every state, whatever files, speeds and modes there
\* are and whatever the user does.
THEOREM PlaybackInvariant == Spec => []Inv
BY InitInv, NextInv, PTL DEF Spec

\* Positions, times and buffers have their types: no line is read beyond the
\* end, and no more sentences are buffered than kMaxBufferSize.
THEOREM PlaybackTypeCorrect == Spec => []TypeOK
<1>1. Inv => TypeOK
  BY DEF Inv
<1> QED BY <1>1, PlaybackInvariant, PTL

\* The timer of RecordPlayMgr runs exactly while an open file is played.
THEOREM TimerSafe == Spec => []TimerRunsWhilePlaying
<1>1. Inv => TimerRunsWhilePlaying
  BY DEF Inv
<1> QED BY <1>1, PlaybackInvariant, PTL

\* While Notify waits for its timer it keeps no sentence back.
THEOREM NothingIsWithheld == Spec => []NothingWithheld
<1>1. Inv => NothingWithheld
  BY DEF Inv
<1> QED BY <1>1, PlaybackInvariant, PTL

\* Playback is on schedule: AdjustPlaybackBaseTime and Notify never let it be
\* ahead by more than the sentence that is waited for and less than the second
\* that SetProgress cuts off.
THEOREM OnScheduleAlways == Spec => []NeverFarAhead
<1>1. Inv => NeverFarAhead
  BY DEF Inv
<1> QED BY <1>1, PlaybackInvariant, PTL

\* A file without stamps is played by batches of kBaseMessagesPerBatch at most.
THEOREM BaseRateAlways == Spec => []BaseRate
<1>1. Inv => BaseRate
  BY DEF Inv
<1> QED BY <1>1, PlaybackInvariant, PTL

=============================================================================

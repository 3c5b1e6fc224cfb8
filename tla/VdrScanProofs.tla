--------------------------- MODULE VdrScanProofs ---------------------------
(***************************************************************************)
(* Proofs about VdrScan: what the scan of a file finds, and that playback  *)
(* reads the stamps the scan saw and never goes back, for every file.      *)
(***************************************************************************)
EXTENDS VdrScan, WellFoundedInduction, TLAPS

\* The lines that playback takes a stamp from, and the stamp of one.
Played == IF file.csv THEN Rows ELSE StampedBy(primary)
StampRead(n) == IF file.csv THEN Lines[n].stamp ELSE StampAt(n)

\* The date that the sentences of T give: that of the last one.
LastDate(d, T) ==
  IF T = {} THEN d = 0 ELSE \E m \in T : (\A k \in T : k <= m) /\ d = Lines[m].day

\* Entry e of the sources is what the lines of T, all those of a source, say.
Known(e, T) ==
  /\ \E n \in T : e.start = StampAt(n) /\ \A m \in T : n <= m
  /\ \E n \in T : e.current = StampAt(n) /\ \A m \in T : m <= n
  /\ e.chronological <=> \A m, n \in T : m < n => StampAt(m) <= StampAt(n)

\* The lines of a source among the first k.
UpTo(s, k) == {n \in StampedBy(s) : n <= k}

\* What the scan of raw sentences knows after the first pos of them.
SentencesSoFar ==
  /\ ~parser.only
  /\ LastDate(parser.day, {m \in Dating : m <= pos})
  /\ first = Invalid /\ last = Invalid /\ current = Invalid
  /\ valid <=> \E n \in 1..pos : Lines[n].form
  /\ stamped <=> DOMAIN sources # {}
  /\ \A s \in SourceSet : s \in DOMAIN sources <=> UpTo(s, pos) # {}
  /\ \A s \in DOMAIN sources : Known(sources[s], UpTo(s, pos))

\* The rows with a stamp among the first k.
RowsUpTo(k) == {n \in Rows : n <= k}

\* What the scan of rows knows after the first pos of them.
RowsSoFar ==
  LET T == RowsUpTo(pos)
  IN  /\ \A m, n \in T : m < n => Lines[m].stamp <= Lines[n].stamp
      /\ stamped <=> T # {}
      /\ current = first
      /\ IF T = {} THEN first = Invalid /\ last = Invalid
         ELSE /\ \E n \in T : first = Lines[n].stamp /\ \A m \in T : n <= m
              /\ \E n \in T : last = Lines[n].stamp /\ \A m \in T : m <= n

Scanned ==
  phase = "scanning" =>
    ~failed /\ primary = None /\ IF file.csv THEN RowsSoFar ELSE SentencesSoFar

\* The first and the last stamp are those of two lines, and the others between.
Bounds ==
  phase = "loaded" /\ (IF file.csv THEN stamped ELSE primary # None) =>
    /\ \E m, n \in Played : first = StampRead(m) /\ last = StampRead(n)
    /\ \A n \in Played : first <= StampRead(n) /\ StampRead(n) <= last

\* The filter is that of the primary source, which lets no date through unless
\* it has one.
Filtered ==
  phase = "loaded" /\ ~file.csv /\ primary # None =>
    /\ parser.only /\ parser.src = primary
    /\ primary[1] \notin Dated => LastDate(parser.day, Dating)

\* In a regular file the current stamp is one of the file, and none that is
\* still to be read is before it.
Forward ==
  Regular /\ Played # {} =>
    /\ first <= current /\ current <= last
    /\ (\E n \in Played : n <= pos) =>
         \A m \in Played : m > pos => current <= StampRead(m)

Entries == [start : Stamps, current : Stamps, chronological : BOOLEAN]

SourcesOK == sources \in [DOMAIN sources -> Entries]

IInv ==
  /\ TypeOK
  /\ file \in Files
  /\ SourcesOK
  /\ Scanned
  /\ FoundByScan
  /\ Bounds
  /\ Filtered
  /\ Forward

-----------------------------------------------------------------------------
(* Least and greatest members.                                             *)

\* A set of natural numbers that is not empty has a least member.
LEMMA LeastMember ==
  ASSUME NEW T \in SUBSET Nat, T # {}
  PROVE  \E x \in T : \A y \in T : x <= y
<1> DEFINE R == {ss \in Nat \X Nat : ss[1] < ss[2]}
<1>1. IsWellFoundedOn(R, Nat)
  BY NatLessThanWellFounded DEF OpToRel
<1>2. T \subseteq Nat
  OBVIOUS
<1> HIDE DEF R
<1>3. PICK x \in T : \A y \in T : ~ (<<y, x>> \in R)
  BY <1>1, <1>2, WFMin
<1>4. ASSUME NEW y \in T, y < x PROVE FALSE
  <2>1. <<y, x>> \in Nat \X Nat
    OBVIOUS
  <2>2. <<y, x>> \in R
    BY <1>4, <2>1 DEF R
  <2> QED BY <1>3, <2>2
<1> QED BY <1>4

\* One that is bounded has a greatest member.
LEMMA GreatestMember ==
  ASSUME NEW n \in Nat, NEW T \in SUBSET (0..n), T # {}
  PROVE  \E x \in T : \A y \in T : y <= x
<1> DEFINE D == {b \in Nat : \A y \in T : y <= b}
<1>1. D \in SUBSET Nat /\ n \in D
  OBVIOUS
<1>2. PICK b \in D : \A c \in D : b <= c
  BY <1>1, LeastMember
<1>3. PICK y \in T : TRUE
  OBVIOUS
<1>4. CASE b \in T
  BY <1>2, <1>4
<1>5. CASE b \notin T
  <2>1. \A z \in T : z <= b - 1
    BY <1>2, <1>5
  <2>2. b - 1 \in Nat
    BY <1>3, <2>1, <1>2
  <2>3. b - 1 \in D
    BY <2>1, <2>2
  <2> QED BY <1>2, <2>3
<1> QED BY <1>4, <1>5

\* What Min and Max choose.
LEMMA MinIs ==
  ASSUME NEW S \in SUBSET Int, NEW v \in S, \A y \in S : v <= y
  PROVE  Min(S) = v
<1>1. PICK x \in S : x = Min(S) /\ \A y \in S : x <= y
  BY DEF Min
<1>2. x <= v /\ v <= x /\ x \in Int /\ v \in Int
  BY <1>1
<1> QED BY <1>1, <1>2

LEMMA MaxIs ==
  ASSUME NEW S \in SUBSET Int, NEW v \in S, \A y \in S : y <= v
  PROVE  Max(S) = v
<1>1. PICK x \in S : x = Max(S) /\ \A y \in S : x >= y
  BY DEF Max
<1>2. x <= v /\ v <= x /\ x \in Int /\ v \in Int
  BY <1>1
<1> QED BY <1>1, <1>2

-----------------------------------------------------------------------------
(* The lines of a file and their stamps.                                   *)

\* The rows of a CSV file.
RowRecords == [stamp : Nat \union {Invalid, Unreadable}]

\* The lines of a file are rows or sentences.
LEMMA FileTypes ==
  ASSUME file \in Files
  PROVE  /\ file.csv \in BOOLEAN
         /\ file.csv => Lines \in Seq(RowRecords)
         /\ ~file.csv => Lines \in Seq(Sentences)
BY ScanAssumption DEF Lines, RowRecords

\* A date and a time of day make a stamp.
LEMMA StampIs ==
  ASSUME NEW d \in Days, NEW t \in 0..DayLength-1
  PROVE  d * DayLength + t \in Stamps /\ d * DayLength + t \in Nat
<1>1. d \in Nat /\ DayLength \in Nat /\ t \in Nat
  BY ScanAssumption
<1>2. d * DayLength \in Nat
  BY <1>1
<1> QED BY <1>1, <1>2 DEF Stamps

\* Stamps are not negative, so none is taken for an invalid one.
LEMMA StampsAreNatural == Stamps \subseteq Nat /\ Invalid \notin Stamps
<1>1. ASSUME NEW x \in Stamps PROVE x \in Nat
  BY <1>1, StampIs DEF Stamps
<1> QED BY <1>1 DEF Invalid

\* A source is a kind of sentence and a precision.
LEMMA SourceIsPair ==
  ASSUME NEW s \in SourceSet
  PROVE  s # None /\ s = <<s[1], s[2]>> /\ s[1] \in Kinds /\ s[2] \in Nat
BY DEF SourceSet, None

\* The fields of a sentence.
LEMMA SentenceTypes ==
  ASSUME NEW l \in Sentences
  PROVE  /\ l.form \in BOOLEAN /\ l.kind \in Kinds \union {Other} /\ l.prec \in Nat
         /\ l.time \in 0..DayLength-1 \union {NoTime}
         /\ l.day \in Days \union {NoDay, NoSuchDay}
         /\ l.kind # Other => Source(l) \in SourceSet
BY DEF Sentences, Source, SourceSet

\* The date of a sentence without its own is that of the sentence last dated.
LEMMA DateIs ==
  ASSUME NEW n \in Nat, Dating \subseteq Nat, NEW d,
         LastDate(d, {m \in Dating : m < n})
  PROVE  DateAt(n) = IF Lines[n].kind \in Dated THEN Lines[n].day ELSE d
<1> DEFINE T == {m \in Dating : m < n}
<1>1. CASE T = {}
  BY <1>1 DEF DateAt, LastDate
<1>2. CASE T # {}
  <2>1. PICK h \in T : (\A k \in T : k <= h) /\ d = Lines[h].day
    BY <1>2 DEF LastDate
  <2>2. \A k \in T : k \in Int
    OBVIOUS
  <2>3. Max(T) = h
    <3> HIDE DEF T
    <3>1. T \in SUBSET Int
      BY <2>2
    <3> QED BY <2>1, <3>1, MaxIs
  <2> QED BY <1>2, <2>1, <2>3 DEF DateAt
<1> QED BY <1>1, <1>2

\* A sentence has a stamp or none.
LEMMA StampAtTypes ==
  ASSUME file \in Files, ~file.csv, NEW n \in DOMAIN Lines
  PROVE  /\ StampAt(n) \in Stamps \union {Invalid}
         /\ StampAt(n) # Invalid =>
              Timed(Lines[n]) /\ DateAt(n) \in Days /\ Source(Lines[n]) \in SourceSet
              /\ StampAt(n) = DateAt(n) * DayLength + Lines[n].time
              /\ Lines[n].time \in 0..DayLength-1
<1> DEFINE l == Lines[n]
<1>1. l \in Sentences
  BY FileTypes
<1>2. CASE Timed(l) /\ DateAt(n) \in Days
  <2>1. l.time \in 0..DayLength-1
    BY <1>1, <1>2, SentenceTypes DEF Timed
  <2>2. StampAt(n) = DateAt(n) * DayLength + l.time
    BY <1>2 DEF StampAt
  <2>3. StampAt(n) \in Stamps
    BY <1>2, <2>1, <2>2, StampIs
  <2> QED BY <1>1, <1>2, <2>1, <2>2, <2>3, SentenceTypes DEF Timed
<1>3. CASE ~(Timed(l) /\ DateAt(n) \in Days)
  BY <1>3 DEF StampAt
<1> QED BY <1>2, <1>3

\* The lines of a source have stamps.
LEMMA StampedByTypes ==
  ASSUME file \in Files, ~file.csv, NEW s
  PROVE  /\ StampedBy(s) \subseteq 1..Len(Lines) /\ Len(Lines) \in Nat
         /\ \A n \in StampedBy(s) : StampAt(n) \in Stamps /\ StampAt(n) \in Nat
         /\ StampedBy(s) # {} => s \in SourceSet
<1>1. Lines \in Seq(Sentences) /\ DOMAIN Lines = 1..Len(Lines) /\ Len(Lines) \in Nat
  BY FileTypes
<1>2. \A n \in StampedBy(s) : n \in DOMAIN Lines /\ StampAt(n) # Invalid /\ Source(Lines[n]) = s
  BY DEF StampedBy
<1>3. \A n \in StampedBy(s) : StampAt(n) \in Stamps /\ s \in SourceSet
  BY <1>2, StampAtTypes
<1> QED BY <1>1, <1>2, <1>3, StampsAreNatural

-----------------------------------------------------------------------------
(* The parser in the scan.                                                 *)

\* The date that the parser holds is that of the last sentence with a date, so
\* the stamp it gives is the one that the file says.
LEMMA StampInScan ==
  ASSUME file \in Files, ~file.csv, ~parser.only, pos \in Nat, pos < Len(Lines),
         LastDate(parser.day, {m \in Dating : m <= pos}), Lines[pos + 1].form
  PROVE  StampOf(parser, Lines[pos + 1]) = StampAt(pos + 1)
<1> DEFINE l == Lines[pos + 1]
<1>1. Lines \in Seq(Sentences) /\ pos + 1 \in DOMAIN Lines /\ DOMAIN Lines \subseteq Nat
  BY FileTypes
<1>2. Dating \subseteq Nat
  BY <1>1 DEF Dating
<1>3. {m \in Dating : m < pos + 1} = {m \in Dating : m <= pos}
  <2>1. \A m \in Dating : m < pos + 1 <=> m <= pos
    BY <1>2
  <2> QED BY <2>1, Zenon
<1>4. DateAt(pos + 1) = DayOf(parser, l)
  BY <1>1, <1>2, <1>3, DateIs DEF DayOf
<1>5. Timed(l) <=> Passes(parser, l) /\ l.time # NoTime
  BY DEF Timed, Passes
<1> QED BY <1>4, <1>5 DEF StampAt, StampOf

\* And the date stays right with the next sentence.
LEMMA DateInScan ==
  ASSUME file \in Files, ~file.csv, parser \in ParserStates, ~parser.only,
         pos \in Nat, pos < Len(Lines),
         LastDate(parser.day, {m \in Dating : m <= pos})
  PROVE  LET l == Lines[pos + 1]
             p == IF l.form THEN DayCached(parser, l) ELSE parser
         IN  p \in ParserStates /\ ~p.only /\ LastDate(p.day, {m \in Dating : m <= pos + 1})
<1> DEFINE l == Lines[pos + 1]
           p == IF l.form THEN DayCached(parser, l) ELSE parser
<1>1. Lines \in Seq(Sentences) /\ pos + 1 \in DOMAIN Lines /\ DOMAIN Lines \subseteq Nat
  BY FileTypes
<1>2. Dating \subseteq Nat
  BY <1>1 DEF Dating
<1>3. l \in Sentences /\ (Dates(parser, l) => l.day \in Days \union {NoSuchDay})
  BY <1>1, SentenceTypes DEF Dates
<1>4. p \in ParserStates /\ ~p.only /\ p.src = parser.src
  BY <1>3 DEF ParserStates, DayCached
<1>5. l.form /\ Dates(parser, l) <=> pos + 1 \in Dating
  BY <1>1 DEF Dates, Dating, Passes, Timed
<1>6. CASE pos + 1 \in Dating
  <2>1. p.day = l.day
    BY <1>5, <1>6 DEF DayCached, ParserStates
  <2> DEFINE T == {m \in Dating : m <= pos + 1}
  <2>2. pos + 1 \in T /\ \A k \in T : k <= pos + 1
    BY <1>6
  <2>3. LastDate(p.day, T)
    <3> HIDE DEF T, p
    <3> QED BY <2>1, <2>2 DEF LastDate
  <2> QED BY <1>4, <2>3
<1>7. CASE pos + 1 \notin Dating
  <2>1. p = parser
    BY <1>5, <1>7 DEF DayCached
  <2>2. {m \in Dating : m <= pos + 1} = {m \in Dating : m <= pos}
    <3>1. \A m \in Dating : m <= pos + 1 <=> m <= pos
      BY <1>2, <1>7
    <3> QED BY <3>1, Zenon
  <2> QED BY <1>4, <2>1, <2>2
<1> QED BY <1>6, <1>7

\* The definitions over a file do not change with it.
LEMMA SameFile ==
  ASSUME file' = file
  PROVE  /\ Lines' = Lines /\ Rows' = Rows /\ Dating' = Dating
         /\ \A n : StampAt(n)' = StampAt(n)
         /\ \A s : StampedBy(s)' = StampedBy(s) /\ (Sorted(s)' <=> Sorted(s))
         /\ \A k : RowsUpTo(k)' = RowsUpTo(k)
         /\ \A s, k : UpTo(s, k)' = UpTo(s, k)
         /\ StampedSources' = StampedSources
         /\ \A d, T : LastDate(d, T)' <=> LastDate(d, T)
         /\ \A e, T : Known(e, T)' <=> Known(e, T)
<1>1. Lines' = Lines
  BY DEF Lines
<1>2. Rows' = Rows /\ Dating' = Dating
  BY <1>1 DEF Rows, Dating
<1>3. \A n : DateAt(n)' = DateAt(n)
  BY <1>1, <1>2 DEF DateAt
<1>4. \A n : StampAt(n)' = StampAt(n)
  BY <1>1, <1>3 DEF StampAt
<1>5. \A s : StampedBy(s)' = StampedBy(s)
  BY <1>1, <1>4 DEF StampedBy
<1>6. \A s : Sorted(s)' <=> Sorted(s)
  BY <1>4, <1>5 DEF Sorted
<1>7. StampedSources' = StampedSources
  BY <1>1, <1>4 DEF StampedSources
<1>8. \A d, T : LastDate(d, T)' <=> LastDate(d, T)
  BY <1>1 DEF LastDate
<1>9. \A e, T : Known(e, T)' <=> Known(e, T)
  BY <1>4 DEF Known
<1>10. \A s, k : UpTo(s, k)' = UpTo(s, k)
  BY <1>5 DEF UpTo
<1>11. \A k : RowsUpTo(k)' = RowsUpTo(k)
  BY <1>2 DEF RowsUpTo
<1> QED BY <1>1, <1>2, <1>4, <1>5, <1>6, <1>7, <1>8, <1>9, <1>10, <1>11

-----------------------------------------------------------------------------
(* The sources in the scan.                                                *)

\* The first stamp of a source.
LEMMA KnownFirst ==
  ASSUME NEW k \in Nat, StampAt(k) \in Stamps
  PROVE  /\ [start |-> StampAt(k), current |-> StampAt(k), chronological |-> TRUE] \in Entries
         /\ Known([start |-> StampAt(k), current |-> StampAt(k), chronological |-> TRUE], {k})
BY DEF Known, Entries

\* One more stamp of a source: a source is in order as long as each stamp is not
\* before the one that came last.
LEMMA KnownNext ==
  ASSUME NEW e \in Entries, NEW T \in SUBSET Nat, NEW k \in Nat,
         Known(e, T), \A m \in T : m < k /\ StampAt(m) \in Nat, StampAt(k) \in Stamps,
         NEW f,
         f = [e EXCEPT !.chronological = Ordered(e, StampAt(k)), !.current = StampAt(k)]
  PROVE  f \in Entries /\ Known(f, T \union {k})
<1> DEFINE U == T \union {k}
<1>1. StampAt(k) \in Nat
  BY StampsAreNatural
<1>2. /\ f \in Entries /\ f.start = e.start /\ f.current = StampAt(k)
      /\ f.chronological <=> e.chronological /\ StampAt(k) >= e.current
  BY DEF Entries, Ordered
<1>3. PICK a \in T : e.start = StampAt(a) /\ \A m \in T : a <= m
  BY DEF Known
<1>4. PICK z \in T : e.current = StampAt(z) /\ \A m \in T : m <= z
  BY DEF Known
<1>5. \A m \in U : m \in T \/ m = k
  OBVIOUS
<1>6. a \in U /\ (\A m \in U : a <= m) /\ k \in U /\ (\A m \in U : m <= k)
  BY <1>3, <1>5
<1>7. f.chronological <=> \A m, n \in U : m < n => StampAt(m) <= StampAt(n)
  <2>1. ASSUME f.chronological, NEW m \in U, NEW n \in U, m < n
        PROVE  StampAt(m) <= StampAt(n)
    <3>1. e.chronological /\ StampAt(z) <= StampAt(k)
      BY <1>1, <1>2, <1>4, <2>1
    <3>2. \A i, j \in T : i < j => StampAt(i) <= StampAt(j)
      BY <3>1 DEF Known
    <3>3. m \in T
      BY <1>5, <2>1
    <3>4. CASE n \in T
      BY <2>1, <3>2, <3>3, <3>4
    <3>5. CASE n = k
      <4>1. StampAt(m) <= StampAt(z)
        <5>1. m \in Nat /\ z \in Nat /\ m <= z
          BY <1>4, <3>3
        <5>2. CASE m = z
          BY <5>2, <3>3
        <5>3. CASE m < z
          BY <5>3, <3>2, <3>3
        <5> QED BY <5>1, <5>2, <5>3
      <4> QED BY <1>1, <3>1, <3>3, <3>5, <4>1
    <3> QED BY <1>5, <3>4, <3>5
  <2>2. ASSUME \A m, n \in U : m < n => StampAt(m) <= StampAt(n)
        PROVE  f.chronological
    <3>1. StampAt(k) >= e.current
      BY <1>1, <1>4, <2>2
    <3>2. \A m, n \in T : m < n => StampAt(m) <= StampAt(n)
      BY <2>2
    <3>3. e.chronological
      BY <3>2 DEF Known
    <3> QED BY <1>2, <3>1, <3>3
  <2> QED BY <2>1, <2>2
<1>8. Known(f, U)
  <2> HIDE DEF U
  <2> QED BY <1>2, <1>3, <1>6, <1>7 DEF Known
<1> QED BY <1>2, <1>8

\* The lines of a source after one more line.
LEMMA UpToNext ==
  ASSUME file \in Files, ~file.csv, pos \in Nat, pos < Len(Lines), NEW r
  PROVE  /\ UpTo(r, pos) \in SUBSET Nat /\ \A m \in UpTo(r, pos) : m < pos + 1 /\ StampAt(m) \in Nat
         /\ UpTo(r, pos + 1) =
              IF StampAt(pos + 1) # Invalid /\ Source(Lines[pos + 1]) = r
              THEN UpTo(r, pos) \union {pos + 1} ELSE UpTo(r, pos)
<1>1. /\ StampedBy(r) \subseteq Nat /\ pos + 1 \in DOMAIN Lines
      /\ \A n \in StampedBy(r) : StampAt(n) \in Nat
  BY FileTypes, StampedByTypes
<1>2. pos + 1 \in StampedBy(r) <=> StampAt(pos + 1) # Invalid /\ Source(Lines[pos + 1]) = r
  BY <1>1 DEF StampedBy
<1>3. \A m \in StampedBy(r) : m <= pos + 1 <=> m <= pos \/ m = pos + 1
  BY <1>1
<1>4. CASE pos + 1 \in StampedBy(r)
  <2>1. pos + 1 <= pos + 1
    OBVIOUS
  <2>2. UpTo(r, pos + 1) = UpTo(r, pos) \union {pos + 1}
    BY <1>3, <1>4, <2>1, Zenon DEF UpTo
  <2> QED BY <1>1, <1>2, <1>4, <2>2 DEF UpTo
<1>5. CASE pos + 1 \notin StampedBy(r)
  <2>1. UpTo(r, pos + 1) = UpTo(r, pos)
    BY <1>3, <1>5, Zenon DEF UpTo
  <2> QED BY <1>1, <1>2, <1>5, <2>1 DEF UpTo
<1> QED BY <1>4, <1>5

\* What a sentence adds to the sources.
LEMMA SourcesNext ==
  ASSUME file \in Files, ~file.csv, pos \in Nat, pos < Len(Lines), SourcesOK,
         DOMAIN sources \subseteq SourceSet,
         \A s \in SourceSet : s \in DOMAIN sources <=> UpTo(s, pos) # {},
         \A s \in DOMAIN sources : Known(sources[s], UpTo(s, pos)),
         NEW src,
         src = IF StampAt(pos + 1) # Invalid THEN Noted(Source(Lines[pos + 1]), StampAt(pos + 1))
               ELSE sources
  PROVE  /\ DOMAIN src \subseteq SourceSet /\ src \in [DOMAIN src -> Entries]
         /\ \A s \in SourceSet : s \in DOMAIN src <=> UpTo(s, pos + 1) # {}
         /\ \A s \in DOMAIN src : Known(src[s], UpTo(s, pos + 1))
         /\ DOMAIN src # {} <=> DOMAIN sources # {} \/ StampAt(pos + 1) # Invalid
<1> DEFINE k == pos + 1
           q == Source(Lines[k])
<1>1. k \in DOMAIN Lines /\ k \in Nat
  BY FileTypes
<1>2. CASE StampAt(k) = Invalid
  <2>1. src = sources /\ \A s : UpTo(s, k) = UpTo(s, pos)
    BY <1>2, UpToNext
  <2> QED BY <1>2, <2>1 DEF SourcesOK
<1>3. CASE StampAt(k) # Invalid
  <2>1. StampAt(k) \in Stamps /\ q \in SourceSet
    BY <1>1, <1>3, StampAtTypes
  <2>2. src = Noted(q, StampAt(k)) /\ DOMAIN src = DOMAIN sources \union {q}
    BY <1>3 DEF Noted
  <2>3. UpTo(q, k) = UpTo(q, pos) \union {k} /\ UpTo(q, pos) \in SUBSET Nat
    BY <1>3, UpToNext
  <2>4. ASSUME NEW s \in DOMAIN src PROVE src[s] \in Entries /\ Known(src[s], UpTo(s, k))
    <3>1. CASE s # q
      <4>1. src[s] = sources[s] /\ s \in DOMAIN sources /\ UpTo(s, k) = UpTo(s, pos)
        BY <2>2, <2>4, <3>1, UpToNext DEF Noted
      <4> QED BY <4>1 DEF SourcesOK
    <3>2. CASE s = q /\ q \notin DOMAIN sources
      <4>1. src[s] = [start |-> StampAt(k), current |-> StampAt(k), chronological |-> TRUE]
        BY <2>2, <3>2 DEF Noted
      <4>2. UpTo(s, k) = {k}
        BY <2>1, <2>3, <3>2
      <4> QED BY <1>1, <2>1, <4>1, <4>2, KnownFirst
    <3>3. CASE s = q /\ q \in DOMAIN sources
      <4>1. src[s] = [sources[q] EXCEPT !.chronological = Ordered(sources[q], StampAt(k)),
                                        !.current = StampAt(k)]
        BY <2>2, <3>3 DEF Noted
      <4>2. sources[q] \in Entries /\ Known(sources[q], UpTo(q, pos))
        BY <3>3 DEF SourcesOK
      <4>3. \A m \in UpTo(q, pos) : m < k /\ StampAt(m) \in Nat
        BY UpToNext
      <4> HIDE DEF k, q
      <4>4. src[s] \in Entries /\ Known(src[s], UpTo(q, pos) \union {k})
        BY ONLY <1>1, <2>1, <2>3, <4>1, <4>2, <4>3, KnownNext
      <4> QED BY <2>3, <3>3, <4>4
    <3> QED BY <3>1, <3>2, <3>3
  <2>5. src \in [DOMAIN src -> Entries]
    <3>1. src = [s \in DOMAIN src |-> src[s]]
      BY <2>2 DEF Noted
    <3> QED BY <2>4, <3>1
  <2>6. \A s \in SourceSet : s \in DOMAIN src <=> UpTo(s, k) # {}
    BY <1>3, <2>2, <2>3, UpToNext
  <2> QED BY <1>3, <2>1, <2>2, <2>4, <2>5, <2>6
<1> QED BY <1>2, <1>3

-----------------------------------------------------------------------------
(* The steps of the scan.                                                  *)

\* While a file is scanned nothing is said of what has been found.
LEMMA StillScanning ==
  ASSUME TypeOK', (file \in Files)', SourcesOK', Scanned', phase' = "scanning"
  PROVE  IInv'
<1>1. FoundByScan' /\ Bounds' /\ Filtered' /\ Forward'
  BY DEF FoundByScan, Bounds, Filtered, Forward, Regular
<1> QED BY <1>1 DEF IInv

\* The scan of a sentence.
LEMMA SentenceStep ==
  ASSUME IInv, ScanSentence
  PROVE  IInv'
<1> DEFINE l == Lines[pos + 1]
           stamp == StampOf(parser, l)
           seen == l.form /\ stamp # Invalid
<1>1. /\ phase = "scanning" /\ ~file.csv /\ pos < Len(Lines) /\ pos' = pos + 1
      /\ parser' = IF l.form THEN DayCached(parser, l) ELSE parser
      /\ sources' = IF seen THEN Noted(Source(l), stamp) ELSE sources
      /\ valid' = (valid \/ l.form) /\ stamped' = (stamped \/ seen)
      /\ UNCHANGED <<file, mode, phase, open, primary, first, last, current, failed>>
  BY DEF ScanSentence
<1>2. /\ TypeOK /\ SourcesOK /\ SentencesSoFar /\ ~failed /\ primary = None /\ file \in Files
  BY <1>1 DEF IInv, Scanned
<1>3. /\ Lines \in Seq(Sentences) /\ pos \in Nat /\ pos + 1 \in DOMAIN Lines /\ l \in Sentences
      /\ parser \in ParserStates /\ DOMAIN sources \subseteq SourceSet
  BY <1>1, <1>2, FileTypes DEF TypeOK
<1>4. /\ ~parser.only /\ LastDate(parser.day, {m \in Dating : m <= pos})
      /\ first = Invalid /\ last = Invalid /\ current = Invalid
      /\ valid <=> \E n \in 1..pos : Lines[n].form
      /\ stamped <=> DOMAIN sources # {}
      /\ \A s \in SourceSet : s \in DOMAIN sources <=> UpTo(s, pos) # {}
      /\ \A s \in DOMAIN sources : Known(sources[s], UpTo(s, pos))
  BY <1>2 DEF SentencesSoFar
<1>5. /\ seen <=> StampAt(pos + 1) # Invalid
      /\ seen => stamp = StampAt(pos + 1)
  <2>1. CASE l.form
    BY <1>1, <1>2, <1>3, <1>4, <2>1, StampInScan
  <2>2. CASE ~l.form
    <3>1. StampAt(pos + 1) = Invalid
      BY <2>2 DEF StampAt, Timed
    <3> QED BY <2>2, <3>1
  <2> QED BY <2>1, <2>2
<1>6. sources' = IF StampAt(pos + 1) # Invalid THEN Noted(Source(l), StampAt(pos + 1)) ELSE sources
  BY <1>1, <1>5
<1>7. /\ DOMAIN sources' \subseteq SourceSet /\ sources' \in [DOMAIN sources' -> Entries]
      /\ \A s \in SourceSet : s \in DOMAIN sources' <=> UpTo(s, pos + 1) # {}
      /\ \A s \in DOMAIN sources' : Known(sources'[s], UpTo(s, pos + 1))
      /\ DOMAIN sources' # {} <=> DOMAIN sources # {} \/ StampAt(pos + 1) # Invalid
  <2> HIDE DEF l
  <2> QED BY <1>1, <1>2, <1>3, <1>4, <1>6, SourcesNext DEF l
<1>8. /\ parser' \in ParserStates /\ ~parser'.only
      /\ LastDate(parser'.day, {m \in Dating : m <= pos + 1})
  BY <1>1, <1>2, <1>3, <1>4, DateInScan
<1>9. TypeOK'
  <2>1. \A s \in DOMAIN sources' : s \in SourceSet /\ {sources'[s].start, sources'[s].current} \subseteq Stamps
    BY <1>7 DEF Entries
  <2>2. pos' \in 0..Len(Lines)' /\ Lines' = file'.lines
    BY <1>1, <1>3 DEF Lines
  <2>3. {valid', stamped', failed'} \subseteq BOOLEAN
    BY <1>1, <1>2, <1>3, SentenceTypes DEF TypeOK
  <2> QED BY <1>1, <1>2, <1>8, <2>1, <2>2, <2>3 DEF TypeOK
<1>10. SourcesOK'
  BY <1>7 DEF SourcesOK, Entries, Stamps
<1>11. SentencesSoFar'
  <2>1. valid' <=> \E n \in 1..pos' : Lines'[n].form
    <3>1. Lines' = Lines /\ 1..pos' = 1..pos \union {pos + 1}
      BY <1>1, <1>3 DEF Lines
    <3> QED BY <1>1, <1>4, <3>1
  <2>2. stamped' <=> DOMAIN sources' # {}
    BY <1>1, <1>4, <1>5, <1>7
  <2>3. LastDate(parser.day, {m \in Dating : m <= pos})'
    BY <1>1, <1>8, SameFile
  <2>4. \A s \in SourceSet : s \in DOMAIN sources' <=> UpTo(s, pos)' # {}
    BY <1>1, <1>7, SameFile
  <2>5. \A s \in DOMAIN sources' : Known(sources[s], UpTo(s, pos))'
    BY <1>1, <1>7, SameFile
  <2> QED BY <1>1, <1>4, <1>8, <2>1, <2>2, <2>3, <2>4, <2>5 DEF SentencesSoFar, SourceSet
<1>12. Scanned'
  BY <1>1, <1>2, <1>11 DEF Scanned
<1> QED BY <1>1, <1>2, <1>9, <1>10, <1>12, StillScanning

\* The rows with a stamp.
LEMMA RowTypes ==
  ASSUME file \in Files, file.csv
  PROVE  /\ Lines \in Seq(RowRecords)
         /\ DOMAIN Lines = 1..Len(Lines) /\ Len(Lines) \in Nat
         /\ Rows \subseteq 1..Len(Lines) /\ \A n \in Rows : Lines[n].stamp \in Nat
<1>1. /\ Lines \in Seq(RowRecords)
      /\ DOMAIN Lines = 1..Len(Lines) /\ Len(Lines) \in Nat
  BY FileTypes
<1>2. \A n \in Rows : n \in DOMAIN Lines /\ Lines[n].stamp \notin {Invalid, Unreadable}
  BY DEF Rows
<1>3. ASSUME NEW n \in Rows PROVE n \in 1..Len(Lines) /\ Lines[n].stamp \in Nat
  <2>1. n \in DOMAIN Lines /\ Lines[n] \in RowRecords
    BY <1>1, <1>2
  <2> QED BY <1>1, <1>2, <2>1 DEF RowRecords
<1> QED BY <1>1, <1>3

\* They after one more row.
LEMMA RowsNext ==
  ASSUME file \in Files, file.csv, pos \in Nat, pos < Len(Lines)
  PROVE  /\ RowsUpTo(pos) \in SUBSET Nat /\ \A m \in RowsUpTo(pos) : m < pos + 1 /\ m \in Rows
         /\ RowsUpTo(pos + 1) =
              IF Lines[pos + 1].stamp \notin {Invalid, Unreadable}
              THEN RowsUpTo(pos) \union {pos + 1} ELSE RowsUpTo(pos)
<1>1. Rows \subseteq Nat /\ pos + 1 \in DOMAIN Lines
  BY RowTypes
<1>2. pos + 1 \in Rows <=> Lines[pos + 1].stamp \notin {Invalid, Unreadable}
  BY <1>1 DEF Rows
<1>3. \A m \in Rows : m <= pos + 1 <=> m <= pos \/ m = pos + 1
  BY <1>1
<1>4. RowsUpTo(pos) \in SUBSET Nat /\ \A m \in RowsUpTo(pos) : m < pos + 1 /\ m \in Rows
  <2>1. \A m \in RowsUpTo(pos) : m \in Rows /\ m <= pos
    BY DEF RowsUpTo
  <2>2. ASSUME NEW m \in RowsUpTo(pos) PROVE m \in Nat /\ m < pos + 1
    <3>1. m \in Rows /\ m <= pos
      BY <2>1
    <3>2. m \in Nat
      BY <1>1, <3>1
    <3> QED BY <3>1, <3>2
  <2> QED BY <2>1, <2>2
<1>5. CASE pos + 1 \in Rows
  <2>1. pos + 1 <= pos + 1
    OBVIOUS
  <2>2. RowsUpTo(pos + 1) = RowsUpTo(pos) \union {pos + 1}
    BY <1>3, <1>5, <2>1, Zenon DEF RowsUpTo
  <2> QED BY <1>2, <1>5, <1>4, <2>2
<1>6. CASE pos + 1 \notin Rows
  <2>1. RowsUpTo(pos + 1) = RowsUpTo(pos)
    BY <1>3, <1>6, Zenon DEF RowsUpTo
  <2> QED BY <1>2, <1>6, <1>4, <2>1
<1> QED BY <1>5, <1>6

\* A row that goes back ends the scan, and the file is out of order.
LEMMA RowGoesBack ==
  ASSUME IInv, ScanRow, Lines[pos + 1].stamp \notin {Invalid, Unreadable},
         Backwards(Lines[pos + 1].stamp)
  PROVE  IInv'
<1> DEFINE stamp == Lines[pos + 1].stamp
<1>1. /\ phase = "scanning" /\ file.csv /\ pos < Len(Lines)
      /\ first' = Invalid /\ last' = Invalid /\ current' = Invalid
      /\ stamped' = FALSE /\ failed' = TRUE /\ phase' = "loaded" /\ pos' = 0
      /\ UNCHANGED <<file, mode, open, parser, sources, valid, primary>>
  BY DEF ScanRow
<1>2. TypeOK /\ SourcesOK /\ RowsSoFar /\ file \in Files
  BY <1>1 DEF IInv, Scanned
<1>3. pos \in Nat /\ pos + 1 \in Rows /\ last # Invalid /\ stamp < last
  BY <1>1, <1>2, FileTypes DEF TypeOK, Rows, Backwards, Lines
<1>4. PICK n \in RowsUpTo(pos) : last = Lines[n].stamp
  BY <1>2, <1>3 DEF RowsSoFar
<1>5. n \in Rows /\ n < pos + 1
  BY <1>1, <1>2, <1>3, <1>4, RowsNext
<1>6. \E m, k \in Rows : m < k /\ Lines[m].stamp > Lines[k].stamp
  BY <1>2, <1>3, <1>4, <1>5, <1>1, RowTypes
<1>7. TypeOK'
  <2>1. pos' \in 0..Len(file'.lines)
    BY <1>1, <1>2, RowTypes DEF Lines
  <2>2. Invalid \in Timestamps
    BY DEF Timestamps
  <2> QED BY <1>1, <1>2, <2>1, <2>2 DEF TypeOK
<1>8. SourcesOK'
  BY <1>1, <1>2 DEF SourcesOK, Entries, Stamps
<1>9. FoundByScan'
  <2>1. (\E m, k \in Rows : m < k /\ Lines[m].stamp > Lines[k].stamp)'
    BY <1>1, <1>6, SameFile
  <2> QED BY <1>1, <2>1 DEF FoundByScan, FoundInRows
<1>10. Bounds' /\ Filtered' /\ Forward' /\ Scanned'
  BY <1>1 DEF Bounds, Filtered, Forward, Regular, Scanned
<1> QED BY <1>1, <1>2, <1>7, <1>8, <1>9, <1>10 DEF IInv

\* A row in order.
LEMMA RowInOrder ==
  ASSUME IInv, ScanRow, Lines[pos + 1].stamp \notin {Invalid, Unreadable},
         ~Backwards(Lines[pos + 1].stamp)
  PROVE  IInv'
<1> DEFINE stamp == Lines[pos + 1].stamp
<1>1. /\ phase = "scanning" /\ file.csv /\ pos < Len(Lines)
      /\ last' = stamp /\ first' = (IF first = Invalid THEN stamp ELSE first)
      /\ current' = first' /\ stamped' = TRUE /\ pos' = pos + 1
      /\ UNCHANGED <<file, mode, phase, open, parser, sources, valid, primary, failed>>
  BY DEF ScanRow
<1>2. TypeOK /\ SourcesOK /\ RowsSoFar /\ file \in Files /\ ~failed /\ primary = None
  BY <1>1 DEF IInv, Scanned
<1> DEFINE T == RowsUpTo(pos)
           U == RowsUpTo(pos + 1)
<1>3. /\ pos \in Nat /\ stamp \in Nat /\ U = T \union {pos + 1}
      /\ T \in SUBSET Nat /\ \A m \in T : m < pos + 1 /\ Lines[m].stamp \in Nat
  <2>1. pos \in Nat /\ pos + 1 \in DOMAIN Lines
    BY <1>1, <1>2, FileTypes DEF TypeOK, Lines
  <2>2. pos + 1 \in Rows
    BY <2>1 DEF Rows
  <2> QED BY <1>1, <1>2, <2>1, <2>2, RowTypes, RowsNext
<1>4. /\ \A m, n \in T : m < n => Lines[m].stamp <= Lines[n].stamp
      /\ T = {} => first = Invalid
      /\ T # {} => /\ \E n \in T : first = Lines[n].stamp /\ \A m \in T : n <= m
                   /\ \E n \in T : last = Lines[n].stamp /\ \A m \in T : m <= n
  BY <1>2 DEF RowsSoFar
<1>5. \A m \in T : Lines[m].stamp <= stamp
  <2>1. SUFFICES ASSUME NEW m \in T PROVE Lines[m].stamp <= stamp
    OBVIOUS
  <2>2. PICK n \in T : last = Lines[n].stamp /\ \A k \in T : k <= n
    BY <1>4
  <2>3. last <= stamp
    BY <1>3, <2>2 DEF Backwards, Invalid
  <2>4. Lines[m].stamp <= Lines[n].stamp
    <3>1. m <= n /\ m \in Nat /\ n \in Nat
      BY <1>3, <2>2
    <3>2. CASE m = n
      BY <1>3, <3>2
    <3>3. CASE m < n
      BY <1>4, <3>3
    <3> QED BY <3>1, <3>2, <3>3
  <2> QED BY <1>3, <2>2, <2>3, <2>4
<1>6. /\ \A m, n \in U : m < n => Lines[m].stamp <= Lines[n].stamp
      /\ \E n \in U : last' = Lines[n].stamp /\ \A m \in U : m <= n
      /\ \E n \in U : first' = Lines[n].stamp /\ \A m \in U : n <= m
  <2>1. \A m, n \in U : m < n => Lines[m].stamp <= Lines[n].stamp
    <3>1. SUFFICES ASSUME NEW m \in U, NEW n \in U, m < n
                   PROVE  Lines[m].stamp <= Lines[n].stamp
      OBVIOUS
    <3>2. m \in T
      BY <1>3, <3>1
    <3> QED BY <1>3, <1>4, <1>5, <3>1, <3>2
  <2>2. \E n \in U : last' = Lines[n].stamp /\ \A m \in U : m <= n
    BY <1>1, <1>3
  <2>3. \E n \in U : first' = Lines[n].stamp /\ \A m \in U : n <= m
    <3>1. CASE T = {}
      BY <1>1, <1>3, <1>4, <3>1
    <3>2. CASE T # {}
      <4>1. PICK n \in T : first = Lines[n].stamp /\ \A m \in T : n <= m
        BY <1>4, <3>2
      <4>2. first' = Lines[n].stamp
        BY <1>1, <1>3, <4>1 DEF Invalid
      <4> QED BY <1>3, <4>1, <4>2
    <3> QED BY <3>1, <3>2
  <2> QED BY <2>1, <2>2, <2>3
<1>7. TypeOK'
  <2>1. pos' \in 0..Len(file'.lines)
    BY <1>1, <1>2, <1>3, RowTypes DEF Lines
  <2>2. {first', last', current'} \subseteq Timestamps /\ first' # Invalid /\ last' # Invalid
    BY <1>1, <1>2, <1>3 DEF TypeOK, Timestamps, Invalid
  <2> QED BY <1>1, <1>2, <2>1, <2>2 DEF TypeOK
<1>8. SourcesOK'
  BY <1>1, <1>2 DEF SourcesOK, Entries, Stamps
<1>9. RowsSoFar'
  <2>1. RowsUpTo(pos)' = U /\ U # {}
    BY <1>1, <1>3, SameFile
  <2> HIDE DEF U, T
  <2>2. Lines' = Lines
    BY <1>1, SameFile
  <2> QED BY <1>1, <1>6, <2>1, <2>2 DEF RowsSoFar
<1>10. Scanned'
  BY <1>1, <1>2, <1>9 DEF Scanned
<1> QED BY <1>1, <1>2, <1>7, <1>8, <1>10, StillScanning

\* A row without stamp changes nothing.
LEMMA RowWithoutStamp ==
  ASSUME IInv, ScanRow, Lines[pos + 1].stamp \in {Invalid, Unreadable}
  PROVE  IInv'
<1>1. /\ phase = "scanning" /\ file.csv /\ pos < Len(Lines)
      /\ last' = last /\ first' = first /\ current' = first /\ pos' = pos + 1
      /\ (stamped' <=> stamped)
      /\ UNCHANGED <<file, mode, phase, open, parser, sources, valid, primary, failed>>
  BY DEF ScanRow
<1>2. TypeOK /\ SourcesOK /\ RowsSoFar /\ file \in Files /\ ~failed /\ primary = None
  BY <1>1 DEF IInv, Scanned
<1>3. pos \in Nat /\ stamped' \in BOOLEAN
  BY <1>2, FileTypes DEF ScanRow, TypeOK, Lines
<1>4. RowsUpTo(pos)' = RowsUpTo(pos)
  <2>1. RowsUpTo(pos + 1) = RowsUpTo(pos)
    BY <1>1, <1>2, <1>3, RowsNext
  <2> QED BY <1>1, <2>1, SameFile
<1>5. TypeOK'
  <2>1. pos' \in 0..Len(file'.lines)
    BY <1>1, <1>2, <1>3, RowTypes DEF Lines
  <2>2. {first', last', current'} \subseteq Timestamps
    BY <1>1, <1>2 DEF TypeOK
  <2> QED BY <1>1, <1>2, <1>3, <2>1, <2>2 DEF TypeOK
<1>6. SourcesOK'
  BY <1>1, <1>2 DEF SourcesOK, Entries, Stamps
<1>7. RowsSoFar'
  <2>1. Lines' = Lines
    BY <1>1, SameFile
  <2> QED BY <1>1, <1>2, <1>4, <2>1 DEF RowsSoFar
<1>8. Scanned'
  BY <1>1, <1>2, <1>7 DEF Scanned
<1> QED BY <1>1, <1>2, <1>5, <1>6, <1>8, StillScanning

-----------------------------------------------------------------------------
(* The end of the scan.                                                    *)

\* Rows in order have their least stamp first and their greatest last.
LEMMA RowExtremes ==
  ASSUME file \in Files, file.csv, NEW a \in Rows, NEW z \in Rows,
         \A m \in Rows : a <= m /\ m <= z,
         \A m, n \in Rows : m < n => Lines[m].stamp <= Lines[n].stamp
  PROVE  /\ \A n \in Rows : Lines[a].stamp <= Lines[n].stamp /\ Lines[n].stamp <= Lines[z].stamp
         /\ Min({Lines[n].stamp : n \in Rows}) = Lines[a].stamp
         /\ Max({Lines[n].stamp : n \in Rows}) = Lines[z].stamp
<1>1. ASSUME NEW n \in Rows
      PROVE  /\ Lines[n].stamp \in Int
             /\ Lines[a].stamp <= Lines[n].stamp /\ Lines[n].stamp <= Lines[z].stamp
  <2>1. /\ n \in Nat /\ a \in Nat /\ z \in Nat
        /\ Lines[n].stamp \in Nat /\ Lines[a].stamp \in Nat /\ Lines[z].stamp \in Nat
    BY RowTypes
  <2>2. (a < n \/ a = n) /\ (n < z \/ n = z)
    BY <2>1
  <2> QED BY <2>1, <2>2
<1> DEFINE S == {Lines[n].stamp : n \in Rows}
<1>2. Lines[a].stamp \in S /\ Lines[z].stamp \in S
  OBVIOUS
<1>3. \A y \in S : y \in Int /\ Lines[a].stamp <= y /\ y <= Lines[z].stamp
  BY <1>1
<1> HIDE DEF S
<1>4. Min(S) = Lines[a].stamp /\ Max(S) = Lines[z].stamp
  <2>1. S \in SUBSET Int
    BY <1>3
  <2> QED BY <1>2, <1>3, <2>1, MinIs, MaxIs
<1> QED BY <1>1, <1>4 DEF S

\* So have the sentences of a source.
LEMMA SentenceExtremes ==
  ASSUME file \in Files, ~file.csv, NEW s, NEW a \in StampedBy(s), NEW z \in StampedBy(s),
         \A m \in StampedBy(s) : a <= m /\ m <= z, Sorted(s)
  PROVE  /\ \A n \in StampedBy(s) : StampAt(a) <= StampAt(n) /\ StampAt(n) <= StampAt(z)
         /\ Min({StampAt(n) : n \in StampedBy(s)}) = StampAt(a)
         /\ Max({StampAt(n) : n \in StampedBy(s)}) = StampAt(z)
<1>1. ASSUME NEW n \in StampedBy(s)
      PROVE  StampAt(n) \in Int /\ StampAt(a) <= StampAt(n) /\ StampAt(n) <= StampAt(z)
  <2>1. /\ n \in Nat /\ a \in Nat /\ z \in Nat
        /\ StampAt(n) \in Nat /\ StampAt(a) \in Nat /\ StampAt(z) \in Nat
    BY StampedByTypes
  <2>2. (a < n \/ a = n) /\ (n < z \/ n = z)
    BY <2>1
  <2> QED BY <2>1, <2>2 DEF Sorted
<1> DEFINE S == {StampAt(n) : n \in StampedBy(s)}
<1>2. StampAt(a) \in S /\ StampAt(z) \in S
  OBVIOUS
<1>3. \A y \in S : y \in Int /\ StampAt(a) <= y /\ y <= StampAt(z)
  BY <1>1
<1> HIDE DEF S
<1>4. Min(S) = StampAt(a) /\ Max(S) = StampAt(z)
  <2>1. S \in SUBSET Int
    BY <1>3
  <2> QED BY <1>2, <1>3, <2>1, MinIs, MaxIs
<1> QED BY <1>1, <1>4 DEF S

\* The precision of a file's sentences is bounded, since there are finitely many.
LEMMA Precisions ==
  ASSUME file \in Files, ~file.csv
  PROVE  \E b \in Nat : \A n \in DOMAIN Lines : Lines[n].prec <= b
<1>1. /\ Lines \in Seq(Sentences) /\ DOMAIN Lines = 1..Len(Lines) /\ Len(Lines) \in Nat
      /\ \A n \in DOMAIN Lines : Lines[n].prec \in Nat
  BY FileTypes, SentenceTypes
<1> DEFINE Bounded(k) == \E b \in Nat : \A n \in 1..k : Lines[n].prec <= b
           B == {k \in 0..Len(Lines) : ~Bounded(k)}
<1>2. Bounded(0)
  <2>1. 0 \in Nat /\ 1..0 = {}
    OBVIOUS
  <2> QED BY <2>1
<1>3. ASSUME NEW k \in 1..Len(Lines), Bounded(k - 1) PROVE Bounded(k)
  <2>1. PICK b \in Nat : \A n \in 1..(k-1) : Lines[n].prec <= b
    BY <1>3
  <2>2. Lines[k].prec \in Nat /\ \A n \in 1..k : Lines[n].prec \in Nat /\ (n \in 1..(k-1) \/ n = k)
    BY <1>1
  <2>3. CASE Lines[k].prec <= b
    BY <2>1, <2>2, <2>3
  <2>4. CASE b < Lines[k].prec
    <3>1. \A n \in 1..k : Lines[n].prec <= Lines[k].prec
      BY <2>1, <2>2, <2>4
    <3> QED BY <2>2, <3>1
  <2>5. Lines[k].prec <= b \/ b < Lines[k].prec
    BY <2>2
  <2> HIDE DEF Bounded
  <2> QED BY <2>3, <2>4, <2>5
<1>4. B = {}
  <2>1. SUFFICES ASSUME B # {} PROVE FALSE
    OBVIOUS
  <2>2. \A k \in B : k \in 0..Len(Lines) /\ ~Bounded(k)
    OBVIOUS
  <2>3. \A k \in 0..Len(Lines) : ~Bounded(k) => k \in B
    OBVIOUS
  <2> HIDE DEF B, Bounded
  <2>4. B \in SUBSET Nat
    BY <1>1, <2>2
  <2>5. PICK k \in B : \A m \in B : k <= m
    BY <2>1, <2>4, LeastMember
  <2>6. k \in 1..Len(Lines) /\ k - 1 \in 0..Len(Lines) /\ k - 1 \notin B
    BY <1>1, <1>2, <2>2, <2>5
  <2> QED BY <1>3, <2>2, <2>3, <2>6
<1>5. Bounded(Len(Lines))
  <2>1. Len(Lines) \in 0..Len(Lines)
    BY <1>1
  <2> HIDE DEF Bounded
  <2> QED BY <1>4, <2>1, Zenon
<1> QED BY <1>1, <1>5

\* So there is a best one among the sources in order.
LEMMA BestExists ==
  ASSUME file \in Files, ~file.csv, Candidates # {},
         \A s \in DOMAIN sources : s \in SourceSet /\ StampedBy(s) # {}
  PROVE  Best # {}
<1>1. PICK b \in Nat : \A n \in DOMAIN Lines : Lines[n].prec <= b
  BY Precisions
<1> DEFINE top == 10 + 2 * b
<1>2. ASSUME NEW s \in Candidates PROVE Score(s) \in 0..top
  <2>1. s \in SourceSet /\ StampedBy(s) # {}
    BY DEF Candidates
  <2>2. PICK n \in StampedBy(s) : n \in DOMAIN Lines /\ Source(Lines[n]) = s
    BY <2>1 DEF StampedBy
  <2>3. s[2] = Lines[n].prec /\ s[2] \in Nat
    BY <2>1, <2>2, SourceIsPair DEF Source
  <2>4. s[2] <= b
    BY <1>1, <2>2, <2>3
  <2> QED BY <2>3, <2>4 DEF Score
<1> DEFINE T == {Score(s) : s \in Candidates}
<1>3. T # {} /\ \A y \in T : y \in 0..top
  BY <1>2
<1>4. \A y \in T : \E s \in Candidates : y = Score(s)
  OBVIOUS
<1>5. \A s \in Candidates : Score(s) \in T
  OBVIOUS
<1>6. top \in Nat
  OBVIOUS
<1> HIDE DEF T, top
<1>7. T \in SUBSET (0..top)
  BY <1>3
<1>8. PICK x \in T : \A y \in T : y <= x
  BY <1>3, <1>6, <1>7, GreatestMember
<1>9. PICK s \in Candidates : x = Score(s)
  BY <1>4, <1>8
<1>10. s \in Best
  BY <1>5, <1>8, <1>9 DEF Best
<1> QED BY <1>10

\* At the end of a scan of sentences that some were accepted, a source in order
\* is a candidate.
LEMMA CandidatesAtEnd ==
  ASSUME file \in Files, ~file.csv, SentencesSoFar, pos = Len(Lines),
         DOMAIN sources \subseteq SourceSet
  PROVE  /\ \A s : UpTo(s, pos) = StampedBy(s)
         /\ StampedSources = DOMAIN sources
         /\ \A s \in DOMAIN sources : StampedBy(s) # {}
         /\ Candidates = {s \in StampedSources : Sorted(s)}
<1>1. ASSUME NEW s PROVE UpTo(s, pos) = StampedBy(s)
  <2>1. \A n \in StampedBy(s) : n <= pos
    BY StampedByTypes
  <2> QED BY <2>1, Zenon DEF UpTo
<1>2. \A s : s \in StampedSources <=> StampedBy(s) # {}
  BY DEF StampedSources, StampedBy
<1>3. \A s : StampedBy(s) # {} => s \in SourceSet
  BY StampedByTypes
<1>4. \A s \in SourceSet : s \in DOMAIN sources <=> StampedBy(s) # {}
  BY <1>1 DEF SentencesSoFar
<1>5. \A s : s \in StampedSources <=> s \in DOMAIN sources
  BY <1>2, <1>3, <1>4
<1>6. StampedSources = DOMAIN sources
  BY <1>5, Zenon
<1>7. \A s \in DOMAIN sources : sources[s].chronological <=> Sorted(s)
  BY <1>1 DEF SentencesSoFar, Known, Sorted
<1>8. Candidates = {s \in StampedSources : Sorted(s)}
  BY <1>6, <1>7 DEF Candidates
<1> QED BY <1>1, <1>4, <1>6, <1>8

\* The end of a CSV file.
LEMMA EndOfRows ==
  ASSUME IInv, ScanEnds, file.csv
  PROVE  IInv'
<1>1. /\ phase = "scanning" /\ pos = Len(Lines) /\ phase' = "loaded" /\ pos' = 0
      /\ failed' = FALSE
      /\ UNCHANGED <<file, mode, open, sources, valid, stamped, primary, parser, first, last, current>>
  BY DEF ScanEnds
<1>2. TypeOK /\ SourcesOK /\ RowsSoFar /\ file \in Files /\ primary = None
  BY <1>1 DEF IInv, Scanned
<1>3. RowsUpTo(pos) = Rows
  <2>1. \A n \in Rows : n <= pos
    BY <1>1, <1>2, RowTypes
  <2> QED BY <2>1, Zenon DEF RowsUpTo
<1>4. /\ \A m, n \in Rows : m < n => Lines[m].stamp <= Lines[n].stamp
      /\ stamped <=> Rows # {}
      /\ current = first
      /\ Rows # {} => /\ \E n \in Rows : first = Lines[n].stamp /\ \A m \in Rows : n <= m
                      /\ \E n \in Rows : last = Lines[n].stamp /\ \A m \in Rows : m <= n
  BY <1>2, <1>3 DEF RowsSoFar
<1>5. Rows # {} =>
        /\ \E m, n \in Rows : first = Lines[m].stamp /\ last = Lines[n].stamp
        /\ \A n \in Rows : first <= Lines[n].stamp /\ Lines[n].stamp <= last
        /\ first = Min({Lines[n].stamp : n \in Rows})
        /\ last = Max({Lines[n].stamp : n \in Rows})
  <2>1. SUFFICES ASSUME Rows # {}
                 PROVE  /\ \E m, n \in Rows : first = Lines[m].stamp /\ last = Lines[n].stamp
                        /\ \A n \in Rows : first <= Lines[n].stamp /\ Lines[n].stamp <= last
                        /\ first = Min({Lines[n].stamp : n \in Rows})
                        /\ last = Max({Lines[n].stamp : n \in Rows})
    OBVIOUS
  <2>2. PICK a \in Rows : first = Lines[a].stamp /\ \A m \in Rows : a <= m
    BY <1>4, <2>1
  <2>3. PICK z \in Rows : last = Lines[z].stamp /\ \A m \in Rows : m <= z
    BY <1>4, <2>1
  <2>4. /\ \A n \in Rows : Lines[a].stamp <= Lines[n].stamp /\ Lines[n].stamp <= Lines[z].stamp
        /\ Min({Lines[n].stamp : n \in Rows}) = Lines[a].stamp
        /\ Max({Lines[n].stamp : n \in Rows}) = Lines[z].stamp
    BY <1>2, <1>4, <2>2, <2>3, RowExtremes
  <2> QED BY <2>2, <2>3, <2>4
<1>6. ~(\E m, n \in Rows : m < n /\ Lines[m].stamp > Lines[n].stamp)
  <2>1. ASSUME NEW m \in Rows, NEW n \in Rows, m < n, Lines[m].stamp > Lines[n].stamp PROVE FALSE
    <3>1. Lines[m].stamp <= Lines[n].stamp
      BY <1>4, <2>1
    <3>2. Lines[m].stamp \in Nat /\ Lines[n].stamp \in Nat
      BY <1>2, RowTypes
    <3> QED BY <2>1, <3>1, <3>2
  <2> QED BY <2>1
<1>7. Lines' = Lines /\ Rows' = Rows
  BY <1>1, SameFile
<1>8. TypeOK'
  <2>1. pos' \in 0..Len(file'.lines)
    BY <1>1, <1>2, RowTypes DEF Lines
  <2> QED BY <1>1, <1>2, <2>1 DEF TypeOK
<1>9. SourcesOK'
  BY <1>1, <1>2 DEF SourcesOK, Entries, Stamps
<1>10. FoundByScan'
  <2>1. FoundInRows'
    BY <1>1, <1>4, <1>5, <1>6, <1>7, Zenon DEF FoundInRows
  <2> QED BY <1>1, <2>1 DEF FoundByScan
<1>11. Bounds'
  BY <1>1, <1>4, <1>5, <1>7 DEF Bounds, Played, StampRead
<1>12. Forward'
  <2>1. Played' = Rows
    BY <1>1, <1>7 DEF Played
  <2>2. \A n \in Rows : ~(n <= pos')
    BY <1>1, <1>2, RowTypes
  <2>3. Rows # {} => first' <= current' /\ current' <= last'
    <3>1. ASSUME NEW n \in Rows PROVE first <= first /\ first <= last
      <4>1. PICK a \in Rows, z \in Rows : first = Lines[a].stamp /\ last = Lines[z].stamp
        BY <1>5
      <4>2. Lines[a].stamp \in Nat
        BY <1>2, RowTypes
      <4> QED BY <1>5, <4>1, <4>2
    <3> QED BY <1>1, <1>4, <3>1
  <2> QED BY <2>1, <2>2, <2>3 DEF Forward
<1> QED BY <1>1, <1>2, <1>8, <1>9, <1>10, <1>11, <1>12 DEF IInv, Filtered, Scanned

\* Without a source in order, or without a sentence, no source is chosen.
LEMMA EndWithoutPrimary ==
  ASSUME IInv, ScanEnds, ~file.csv, ~valid \/ Best = {}
  PROVE  IInv'
<1>1. /\ phase = "scanning" /\ pos = Len(Lines) /\ phase' = "loaded" /\ pos' = 0
      /\ failed' = ~valid
      /\ UNCHANGED <<file, mode, open, sources, valid, stamped, parser, first, last, current>>
      /\ ~valid => primary' = primary
      /\ valid => primary' = None
  BY DEF ScanEnds, PrimaryFound
<1>2. TypeOK /\ SourcesOK /\ SentencesSoFar /\ file \in Files /\ primary = None
  BY <1>1 DEF IInv, Scanned
<1>3. DOMAIN sources \subseteq SourceSet
  BY <1>2 DEF TypeOK
<1>4. primary' = None /\ valid \in BOOLEAN /\ Len(Lines) \in Nat
  BY <1>1, <1>2, FileTypes DEF TypeOK
<1>5. /\ StampedSources = DOMAIN sources
      /\ \A s \in DOMAIN sources : StampedBy(s) # {}
      /\ Candidates = {s \in StampedSources : Sorted(s)}
  BY <1>1, <1>2, <1>3, CandidatesAtEnd
<1>6. Candidates = {}
  <2>1. CASE valid
    BY <1>2, <1>3, <1>5, <2>1, BestExists
  <2>2. CASE ~valid
    <3>1. \A n \in DOMAIN Lines : ~Lines[n].form
      BY <1>1, <1>2, <2>2, FileTypes DEF SentencesSoFar
    <3>2. \A n \in DOMAIN Lines : StampAt(n) = Invalid
      BY <3>1 DEF StampAt, Timed
    <3>3. StampedSources = {}
      BY <3>2 DEF StampedSources
    <3> QED BY <1>5, <3>3
  <2> QED BY <1>4, <2>1, <2>2
<1>7. TypeOK'
  <2>1. pos' \in 0..Len(file'.lines)
    BY <1>1, <1>4 DEF Lines
  <2> QED BY <1>1, <1>2, <1>4, <2>1 DEF TypeOK
<1>8. SourcesOK'
  BY <1>1, <1>2 DEF SourcesOK, Entries, Stamps
<1>9. FoundByScan'
  <2>1. StampedSources' = StampedSources /\ \A s : Sorted(s)' <=> Sorted(s)
    BY <1>1, SameFile
  <2>2. {s \in StampedSources : Sorted(s)}' = {}
    BY <1>5, <1>6, <2>1
  <2>3. stamped' <=> StampedSources' # {}
    BY <1>1, <1>2, <1>5, <2>1 DEF SentencesSoFar
  <2>4. FoundInSentences'
    BY <1>4, <2>2, <2>3 DEF FoundInSentences
  <2> QED BY <1>1, <2>4 DEF FoundByScan
<1>10. Bounds' /\ Filtered' /\ Forward' /\ Scanned'
  BY <1>1, <1>4 DEF Bounds, Filtered, Forward, Regular, Scanned
<1> QED BY <1>1, <1>2, <1>7, <1>8, <1>9, <1>10 DEF IInv

\* With sources in order, one of the best is the primary one.
LEMMA EndWithPrimary ==
  ASSUME IInv, ScanEnds, ~file.csv, valid, Best # {}
  PROVE  IInv'
<1>1. /\ phase = "scanning" /\ pos = Len(Lines) /\ phase' = "loaded" /\ pos' = 0
      /\ failed' = FALSE
      /\ UNCHANGED <<file, mode, open, sources, valid, stamped>>
  BY DEF ScanEnds
<1>2. PICK s \in Best :
        /\ primary' = s
        /\ first' = sources[s].start /\ current' = first' /\ last' = sources[s].current
        /\ parser' = SetPrimaryTimeSource(parser, s)
  BY DEF ScanEnds, PrimaryFound
<1>3. TypeOK /\ SourcesOK /\ SentencesSoFar /\ file \in Files
  BY <1>1 DEF IInv, Scanned
<1>4. DOMAIN sources \subseteq SourceSet /\ parser \in ParserStates /\ Len(Lines) \in Nat
  BY <1>3, FileTypes DEF TypeOK
<1>5. /\ \A r : UpTo(r, pos) = StampedBy(r)
      /\ StampedSources = DOMAIN sources
      /\ Candidates = {r \in StampedSources : Sorted(r)}
  BY <1>1, <1>3, <1>4, CandidatesAtEnd
<1>6. s \in Candidates /\ s \in DOMAIN sources /\ s \in SourceSet /\ Sorted(s) /\ s # None
  BY <1>4, <1>5, SourceIsPair DEF Best
<1>7. Known(sources[s], StampedBy(s)) /\ sources[s] \in Entries
  BY <1>3, <1>5, <1>6 DEF SentencesSoFar, SourcesOK
<1>8. PICK a \in StampedBy(s) : first' = StampAt(a) /\ \A m \in StampedBy(s) : a <= m
  BY <1>2, <1>7 DEF Known
<1>9. PICK z \in StampedBy(s) : last' = StampAt(z) /\ \A m \in StampedBy(s) : m <= z
  BY <1>2, <1>7 DEF Known
<1>10. /\ \A n \in StampedBy(s) : StampAt(a) <= StampAt(n) /\ StampAt(n) <= StampAt(z)
       /\ Min({StampAt(n) : n \in StampedBy(s)}) = StampAt(a)
       /\ Max({StampAt(n) : n \in StampedBy(s)}) = StampAt(z)
  BY <1>3, <1>6, <1>8, <1>9, SentenceExtremes
<1>11. first' \in Nat /\ last' \in Nat
  BY <1>3, <1>8, <1>9, StampedByTypes
<1>12. StampedBy(s)' = StampedBy(s) /\ \A n : StampAt(n)' = StampAt(n)
  BY <1>1, SameFile
<1>13. parser' \in ParserStates /\ parser'.only /\ parser'.src = s /\ parser'.day = parser.day
  BY <1>2, <1>4, <1>6 DEF SetPrimaryTimeSource, ParserStates
<1>14. TypeOK'
  <2>1. pos' \in 0..Len(file'.lines)
    BY <1>1, <1>4 DEF Lines
  <2>2. {first', last', current'} \subseteq Timestamps /\ first' # Invalid /\ last' # Invalid
    BY <1>2, <1>11 DEF Timestamps, Invalid
  <2>3. primary' \in DOMAIN sources' \union {None} /\ parser'.src # None
    BY <1>1, <1>2, <1>6, <1>13
  <2> QED BY <1>1, <1>3, <1>13, <2>1, <2>2, <2>3 DEF TypeOK
<1>15. SourcesOK'
  BY <1>1, <1>3 DEF SourcesOK, Entries, Stamps
<1>16. FoundByScan'
  <2>1. StampedSources' = StampedSources /\ \A r : Sorted(r)' <=> Sorted(r)
    BY <1>1, SameFile
  <2>2. {r \in StampedSources : Sorted(r)}' = Candidates
    BY <1>5, <2>1
  <2>3. stamped' <=> StampedSources' # {}
    BY <1>1, <1>3, <1>5, <2>1 DEF SentencesSoFar
  <2>4. \A r \in Candidates : Score(r) <= Score(s)
    BY DEF Best
  <2>5. /\ first' = Min({StampAt(n) : n \in StampedBy(s)})'
        /\ last' = Max({StampAt(n) : n \in StampedBy(s)})'
    BY <1>8, <1>9, <1>10, <1>12
  <2>6. StampedBy(primary)' = StampedBy(s)'
    BY <1>2, <1>12, SameFile, <1>1
  <2>7. FoundInSentences'
    BY <1>2, <1>6, <2>2, <2>3, <2>4, <2>5, <2>6 DEF FoundInSentences, Score
  <2> QED BY <1>1, <2>7 DEF FoundByScan
<1>17. Bounds' /\ Forward'
  <2>1. Played' = StampedBy(s) /\ \A n : StampRead(n)' = StampAt(n)
    BY <1>1, <1>2, <1>12, SameFile DEF Played, StampRead
  <2>2. \A n \in StampedBy(s) : first' <= StampAt(n) /\ StampAt(n) <= last' /\ StampAt(n) \in Nat
    BY <1>3, <1>8, <1>9, <1>10, StampedByTypes
  <2>3. Bounds'
    BY <1>1, <1>8, <1>9, <2>1, <2>2 DEF Bounds
  <2>4. first' <= current' /\ current' <= last'
    BY <1>2, <1>8, <1>11, <2>2
  <2>5. \A n \in StampedBy(s) : ~(n <= pos')
    BY <1>1, <1>3, StampedByTypes
  <2> QED BY <2>1, <2>3, <2>4, <2>5 DEF Forward
<1>18. Filtered'
  <2>1. {m \in Dating : m <= pos} = Dating
    <3>1. \A m \in Dating : m <= pos
      BY <1>1, <1>3, FileTypes DEF Dating
    <3> QED BY <3>1, Zenon
  <2>2. LastDate(parser.day, Dating)
    BY <1>3, <2>1 DEF SentencesSoFar
  <2>3. LastDate(parser.day, Dating)'
    BY <1>1, <1>13, <2>2, SameFile
  <2> QED BY <1>2, <1>13, <2>3 DEF Filtered
<1>19. Scanned'
  BY <1>1 DEF Scanned
<1> QED BY <1>1, <1>3, <1>14, <1>15, <1>16, <1>17, <1>18, <1>19 DEF IInv

-----------------------------------------------------------------------------
(* Loading a file.                                                         *)

\* In the loopback mode the file is not scanned.
LEMMA NotScanned ==
  ASSUME IInv, NEW f \in Files, LoadFile(f), mode = "loopback"
  PROVE  IInv'
<1>1. /\ file' = f /\ open' = TRUE /\ pos' = 0 /\ phase' = "stale"
      /\ UNCHANGED <<mode, parser, current, sources, valid, stamped, primary, first, last, failed>>
  BY DEF LoadFile, found
<1>2. TypeOK /\ SourcesOK
  BY DEF IInv
<1>3. f.csv \in BOOLEAN /\ 0 \in 0..Len(f.lines)
  BY ScanAssumption
<1>4. TypeOK'
  BY <1>1, <1>2, <1>3 DEF TypeOK
<1>5. SourcesOK'
  BY <1>1, <1>2 DEF SourcesOK, Entries, Stamps
<1>6. Scanned' /\ FoundByScan' /\ Bounds' /\ Filtered' /\ Forward'
  BY <1>1 DEF Scanned, FoundByScan, Bounds, Filtered, Forward, Regular
<1> QED BY <1>1, <1>4, <1>5, <1>6 DEF IInv

\* What was known is forgotten; an empty raw file is scanned at once, and of
\* another nothing is known yet.
LEMMA ScanBegins ==
  ASSUME IInv, NEW f \in Files, LoadFile(f), mode # "loopback"
  PROVE  IInv'
<1>1. /\ file' = f /\ open' = TRUE /\ pos' = 0
      /\ phase' = IF f.lines = <<>> /\ ~f.csv THEN "loaded" ELSE "scanning"
      /\ parser' = IF phase' = "loaded" THEN parser ELSE Reset(parser)
      /\ sources' = <<>> /\ valid' = FALSE /\ stamped' = FALSE
      /\ primary' = None /\ failed' = FALSE
      /\ first' = Invalid /\ last' = Invalid /\ current' = Invalid
      /\ mode' = mode
  BY DEF LoadFile
<1>2. TypeOK
  BY DEF IInv
<1>3. f.csv \in BOOLEAN /\ 0 \in 0..Len(f.lines) /\ DOMAIN f.lines \subseteq Nat \ {0}
  BY ScanAssumption
<1>4. DOMAIN sources' = {} /\ sources' \in [DOMAIN sources' -> Entries]
  BY <1>1
<1>5. parser' \in ParserStates /\ (parser'.only => parser'.src # None)
  BY <1>1, <1>2 DEF TypeOK, ParserStates, Reset
<1>6. TypeOK'
  <2>1. Invalid \in Timestamps
    BY DEF Timestamps
  <2> QED BY <1>1, <1>2, <1>3, <1>4, <1>5, <2>1 DEF TypeOK
<1>7. SourcesOK'
  BY <1>4 DEF SourcesOK, Entries, Stamps
<1>8. CASE phase' = "loaded"
  <2>1. DOMAIN Lines' = {} /\ ~file'.csv
    BY <1>1, <1>8 DEF Lines
  <2>2. StampedSources' = {}
    BY <2>1 DEF StampedSources
  <2>3. FoundInSentences'
    BY <1>1, <2>2 DEF FoundInSentences
  <2>4. FoundByScan' /\ Bounds' /\ Filtered' /\ Forward' /\ Scanned'
    BY <1>1, <1>8, <2>1, <2>3 DEF FoundByScan, Bounds, Filtered, Forward, Regular, Scanned
  <2> QED BY <1>1, <1>6, <1>7, <2>4 DEF IInv
<1>9. CASE phase' = "scanning"
  <2>1. DOMAIN Lines' \subseteq Nat \ {0}
    BY <1>1, <1>3 DEF Lines
  <2>2. ~parser'.only /\ parser'.day = 0
    BY <1>1, <1>2, <1>9 DEF Reset, TypeOK, ParserStates
  <2>3. CASE f.csv
    <3>1. RowsUpTo(pos)' = {}
      <4>1. \A n \in Rows' : n \in DOMAIN Lines'
        BY DEF Rows
      <4>2. \A n \in Rows' : ~(n <= 0)
        BY <2>1, <4>1
      <4> QED BY <1>1, <4>2 DEF RowsUpTo
    <3>2. RowsSoFar'
      BY <1>1, <3>1 DEF RowsSoFar
    <3> QED BY <1>1, <1>6, <1>7, <1>9, <2>3, <3>2, StillScanning DEF Scanned
  <2>4. CASE ~f.csv
    <3>1. {m \in Dating : m <= pos}' = {}
      <4>1. \A n \in Dating' : n \in DOMAIN Lines'
        BY DEF Dating
      <4>2. \A n \in Dating' : ~(n <= 0)
        BY <2>1, <4>1
      <4> QED BY <1>1, <4>2
    <3>2. LastDate(parser.day, {m \in Dating : m <= pos})'
      BY <2>2, <3>1 DEF LastDate
    <3>3. ASSUME NEW s PROVE UpTo(s, pos)' = {}
      <4>1. \A n \in StampedBy(s)' : n \in DOMAIN Lines'
        BY DEF StampedBy
      <4>2. \A n \in StampedBy(s)' : ~(n <= 0)
        BY <2>1, <4>1
      <4> QED BY <1>1, <4>2 DEF UpTo
    <3>4. 1..pos' = {}
      BY <1>1
    <3>5. SentencesSoFar'
      BY <1>1, <1>4, <2>2, <3>2, <3>3, <3>4 DEF SentencesSoFar
    <3> QED BY <1>1, <1>6, <1>7, <1>9, <2>4, <3>5, StillScanning DEF Scanned
  <2> QED BY <1>3, <2>3, <2>4
<1> QED BY <1>1, <1>8, <1>9

-----------------------------------------------------------------------------
(* What playback reads.                                                    *)

\* A later date makes a later stamp, which is what the monotony of stamps rests on.
LEMMA Later ==
  ASSUME NEW d \in Nat, NEW e \in Nat, d <= e, NEW t \in Nat
  PROVE  e * DayLength + t >= d * DayLength + t
<1>1. DayLength \in Nat
  BY ScanAssumption
<1>2. PICK c \in Nat : e = d + c
  <2>1. e - d \in Nat /\ e = d + (e - d)
    OBVIOUS
  <2> QED BY <2>1
<1>3. c * DayLength \in Nat /\ d * DayLength \in Nat
  BY <1>1
<1>4. e * DayLength = d * DayLength + c * DayLength
  BY <1>1, <1>2
<1> QED BY <1>3, <1>4

\* With the filter of a primary source that has dates, a sentence has the stamp
\* that the scan saw.
LEMMA DatedPlays ==
  ASSUME IInv, phase = "loaded", ~file.csv, primary # None, primary[1] \in Dated,
         NEW n \in DOMAIN Lines, Lines[n].form
  PROVE  StampOf(parser, Lines[n]) = IF n \in StampedBy(primary) THEN StampAt(n) ELSE Invalid
<1> DEFINE l == Lines[n]
<1>1. /\ parser.only /\ parser.src = primary /\ primary \in SourceSet /\ file \in Files
      /\ primary = <<primary[1], primary[2]>>
  BY SourceIsPair DEF IInv, Filtered, TypeOK
<1>2. l \in Sentences
  BY <1>1, FileTypes
<1>3. Source(l) = primary <=> l.kind = primary[1] /\ l.prec = primary[2]
  BY <1>1 DEF Source
<1>4. primary[1] # Other
  BY <1>1, SourceIsPair, ScanAssumption
<1>5. Passes(parser, l) <=> l.kind = primary[1]
  BY <1>1, <1>4 DEF Passes
<1>6. CASE Source(l) = primary
  <2>1. DayOf(parser, l) = l.day /\ DateAt(n) = l.day
    BY <1>3, <1>6 DEF DayOf, DateAt
  <2>2. StampOf(parser, l) = StampAt(n)
    BY <1>1, <1>3, <1>4, <1>5, <1>6, <2>1 DEF StampOf, StampAt, Timed
  <2> QED BY <1>6, <2>2 DEF StampedBy
<1>7. CASE Source(l) # primary
  BY <1>1, <1>3, <1>5, <1>7 DEF StampOf, StampedBy
<1> QED BY <1>6, <1>7

\* With that of one that has none it has the last date of the file.
LEMMA UndatedPlays ==
  ASSUME IInv, phase = "loaded", ~file.csv, primary # None, primary[1] \notin Dated,
         \A m, n \in Dating : Lines[n].day \in Days /\ (m < n => Lines[m].day <= Lines[n].day),
         NEW n \in StampedBy(primary)
  PROVE  StampOf(parser, Lines[n]) >= StampAt(n)
<1> DEFINE l == Lines[n]
<1>1. /\ parser.only /\ parser.src = primary /\ primary \in SourceSet /\ file \in Files
      /\ LastDate(parser.day, Dating)
  BY SourceIsPair DEF IInv, Filtered, TypeOK
<1>2. /\ Lines \in Seq(Sentences) /\ n \in DOMAIN Lines /\ DOMAIN Lines = 1..Len(Lines)
      /\ StampAt(n) # Invalid /\ Source(l) = primary
  BY <1>1, FileTypes DEF StampedBy
<1>3. /\ Timed(l) /\ DateAt(n) \in Days /\ l.time \in 0..DayLength-1
      /\ StampAt(n) = DateAt(n) * DayLength + l.time
  BY <1>1, <1>2, StampAtTypes
<1>4. l.kind = primary[1] /\ l.prec = primary[2] /\ Passes(parser, l)
  BY <1>1, <1>2, <1>3, SourceIsPair DEF Source, Timed, Passes
<1> DEFINE before == {m \in Dating : m < n}
<1>5. DateAt(n) = IF before = {} THEN 0 ELSE Lines[Max(before)].day
  BY <1>4 DEF DateAt
<1>6. before # {}
  BY <1>3, <1>5, ScanAssumption
<1>7. Dating \subseteq Nat
  BY <1>2 DEF Dating
<1>8. PICK h \in before : \A k \in before : k <= h
  <2>1. \A k \in before : k \in 0..n
    BY <1>2, <1>7
  <2>2. n \in Nat
    BY <1>2
  <2> HIDE DEF before
  <2> QED BY <1>6, <2>1, <2>2, GreatestMember
<1>9. DateAt(n) = Lines[h].day /\ h \in Dating
  <2>1. \A k \in before : k \in Int
    BY <1>7
  <2>2. h \in Dating
    OBVIOUS
  <2> HIDE DEF before
  <2>3. Max(before) = h
    BY <1>8, <2>1, MaxIs
  <2> QED BY <1>5, <1>6, <2>2, <2>3
<1>10. PICK z \in Dating : (\A k \in Dating : k <= z) /\ parser.day = Lines[z].day
  BY <1>1, <1>9 DEF LastDate
<1>11. parser.day \in Days /\ DateAt(n) <= parser.day
  <2>1. h \in Nat /\ z \in Nat /\ h <= z
    BY <1>7, <1>9, <1>10
  <2>2. Lines[h].day \in Days /\ Lines[z].day \in Days /\ (h < z => Lines[h].day <= Lines[z].day)
    BY <1>9, <1>10
  <2>3. Lines[h].day \in Nat
    BY <2>2, ScanAssumption
  <2>4. CASE h = z
    BY <1>9, <1>10, <2>2, <2>3, <2>4
  <2>5. CASE h < z
    BY <1>9, <1>10, <2>2, <2>5
  <2> QED BY <2>1, <2>4, <2>5
<1>12. StampOf(parser, l) = parser.day * DayLength + l.time
  BY <1>1, <1>3, <1>4, <1>11 DEF StampOf, DayOf, Timed
<1>13. parser.day \in Nat /\ DateAt(n) \in Nat /\ l.time \in Nat
  <2>1. Days \subseteq Nat /\ DayLength \in Nat
    BY ScanAssumption
  <2>2. parser.day \in Nat /\ DateAt(n) \in Nat
    BY <1>3, <1>11, <2>1
  <2>3. l.time \in Nat
    BY <1>3, <2>1
  <2> QED BY <2>2, <2>3
<1> QED BY <1>3, <1>11, <1>12, <1>13, Later

\* The parser that a seek has at a line is the one before, but for its date.
LEMMA ParserAtIs ==
  ASSUME file \in Files, ~file.csv, parser \in ParserStates, NEW n \in 0..(Len(Lines) + 1)
  PROVE  ParserAt(n) = parser \/ \E l \in Sentences : ParserAt(n) = DayCached(parser, l)
<1> DEFINE dating == {m \in 2..(n - 1) : Dates(parser, Lines[m])}
<1>1. Lines \in Seq(Sentences) /\ n \in Nat /\ Len(Lines) \in Nat /\ DOMAIN Lines = 1..Len(Lines)
  BY FileTypes
<1>2. \A m \in dating : m \in 0..n /\ m \in DOMAIN Lines
  BY <1>1
<1>3. ParserAt(n) = IF dating = {} THEN parser ELSE DayCached(parser, Lines[Max(dating)])
  BY DEF ParserAt
<1> HIDE DEF dating
<1>4. CASE dating = {}
  BY <1>3, <1>4
<1>5. CASE dating # {}
  <2>1. PICK h \in dating : \A k \in dating : k <= h
    BY <1>1, <1>2, <1>5, GreatestMember
  <2>2. dating \in SUBSET Int
    BY <1>2
  <2>3. Max(dating) = h
    BY <2>1, <2>2, MaxIs
  <2>4. Lines[h] \in Sentences
    BY <1>1, <1>2
  <2> QED BY <1>3, <1>5, <2>3, <2>4
<1> QED BY <1>4, <1>5

\* A date is of no account for a filter whose source has dates.
LEMMA SameStamp ==
  ASSUME parser \in ParserStates, NEW p,
         p = parser \/ \E k \in Sentences : p = DayCached(parser, k),
         NEW l, Passes(parser, l) => l.kind \in Dated
  PROVE  StampOf(p, l) = StampOf(parser, l)
<1>1. p.only = parser.only /\ p.src = parser.src
  BY DEF DayCached, ParserStates
<1> QED BY <1>1 DEF StampOf, Passes, DayOf

\* In a regular file playback, and a seek, read the stamps that the scan saw.
LEMMA RegularPlay ==
  ASSUME IInv, Regular
  PROVE  /\ Played \subseteq 1..Len(Lines)
         /\ \A n \in Played :
              StampRead(n) \in Nat /\ first <= StampRead(n) /\ StampRead(n) <= last
         /\ \A m, n \in Played : m < n => StampRead(m) <= StampRead(n)
         /\ Played # {} => first \in Nat /\ last \in Nat /\ stamped
         /\ \A n \in DOMAIN Lines : Read(n) = IF n \in Played THEN StampRead(n) ELSE current
         /\ \A n \in DOMAIN Examined :
              n \in 1..Len(Lines) /\ (Examined[n] >= 0 => n \in Played /\ Examined[n] = StampRead(n))
<1>1. /\ phase = "loaded" /\ ~failed /\ TypeOK /\ file \in Files /\ FoundByScan /\ Bounds
  BY DEF Regular, IInv
<1>2. CASE file.csv
  <2>1. Played = Rows /\ \A n : StampRead(n) = Lines[n].stamp
    BY <1>2 DEF Played, StampRead
  <2>2. /\ Lines \in Seq(RowRecords) /\ DOMAIN Lines = 1..Len(Lines) /\ Len(Lines) \in Nat
        /\ Rows \subseteq 1..Len(Lines) /\ \A n \in Rows : Lines[n].stamp \in Nat
    BY <1>1, <1>2, RowTypes
  <2>3. FoundInRows
    BY <1>1, <1>2 DEF FoundByScan
  <2>4. ASSUME NEW m \in Rows, NEW n \in Rows, m < n
        PROVE  Lines[m].stamp <= Lines[n].stamp
    BY <1>1, <2>2, <2>3, <2>4 DEF FoundInRows
  <2>5. Rows # {} => stamped
    BY <1>1, <2>3 DEF FoundInRows
  <2>6. Rows # {} => /\ \E m, n \in Rows : first = Lines[m].stamp /\ last = Lines[n].stamp
                     /\ \A n \in Rows : first <= Lines[n].stamp /\ Lines[n].stamp <= last
    BY <1>1, <1>2, <2>1, <2>5 DEF Bounds
  <2>7. \A n \in DOMAIN Lines : Lines[n].stamp # Invalid
    BY <1>2 DEF Regular
  <2>8. ASSUME NEW n \in DOMAIN Lines
        PROVE  Read(n) = IF n \in Rows THEN Lines[n].stamp ELSE current
    BY <1>2, <2>7 DEF Read, Rows
  <2>9. Examined = [n \in DOMAIN Lines |-> Lines[n].stamp]
    BY <1>2 DEF Examined
  <2>10. ASSUME NEW n \in DOMAIN Lines, Lines[n].stamp >= 0
         PROVE  n \in Rows
    BY <2>10 DEF Rows, Invalid, Unreadable
  <2> QED BY <2>1, <2>2, <2>4, <2>5, <2>6, <2>8, <2>9, <2>10
<1>3. CASE ~file.csv
  <2>1. Played = StampedBy(primary) /\ \A n : StampRead(n) = StampAt(n)
    BY <1>3 DEF Played, StampRead
  <2>2. /\ Lines \in Seq(Sentences) /\ DOMAIN Lines = 1..Len(Lines) /\ Len(Lines) \in Nat
        /\ StampedBy(primary) \subseteq 1..Len(Lines)
        /\ \A n \in StampedBy(primary) : StampAt(n) \in Nat
    BY <1>1, <1>3, FileTypes, StampedByTypes
  <2>3. primary # None /\ primary[1] \in Dated /\ \A n \in DOMAIN Lines : Lines[n].form
    BY <1>3 DEF Regular
  <2>4. Sorted(primary) /\ stamped
    <3>1. FoundInSentences
      BY <1>1, <1>3 DEF FoundByScan
    <3> QED BY <2>3, <3>1 DEF FoundInSentences
  <2>5. /\ \E m, n \in StampedBy(primary) : first = StampAt(m) /\ last = StampAt(n)
        /\ \A n \in StampedBy(primary) : first <= StampAt(n) /\ StampAt(n) <= last
    BY <1>1, <1>3, <2>1, <2>3 DEF Bounds
  <2>6. \A n \in DOMAIN Lines :
          StampOf(parser, Lines[n]) = IF n \in StampedBy(primary) THEN StampAt(n) ELSE Invalid
    BY <1>1, <1>3, <2>3, DatedPlays
  <2>7. ASSUME NEW n \in DOMAIN Lines
        PROVE  Read(n) = IF n \in StampedBy(primary) THEN StampAt(n) ELSE current
    BY <1>3, <2>2, <2>6 DEF Read, Invalid
  <2>8. ASSUME NEW n \in DOMAIN Examined
        PROVE  /\ n \in DOMAIN Lines
               /\ Examined[n] = StampOf(parser, Lines[n])
    <3>1. Examined = [k \in 2..Len(Lines) |-> StampOf(ParserAt(k), Lines[k])]
      BY <1>3 DEF Examined
    <3>2. n \in DOMAIN Lines /\ n \in 0..(Len(Lines) + 1) /\ Examined[n] = StampOf(ParserAt(n), Lines[n])
      BY <2>2, <3>1
    <3>3. Passes(parser, Lines[n]) => Lines[n].kind \in Dated
      BY <1>1, <1>3, <2>3 DEF Passes, IInv, Filtered
    <3>4. parser \in ParserStates
      BY <1>1 DEF TypeOK
    <3>5. ParserAt(n) = parser \/ \E l \in Sentences : ParserAt(n) = DayCached(parser, l)
      BY <1>1, <1>3, <3>2, <3>4, ParserAtIs
    <3> QED BY <3>2, <3>3, <3>4, <3>5, SameStamp
  <2>9. \A n \in DOMAIN Examined :
          n \in 1..Len(Lines) /\ (Examined[n] >= 0 => n \in StampedBy(primary) /\ Examined[n] = StampAt(n))
    BY <2>2, <2>6, <2>8 DEF Invalid
  <2> QED BY <2>1, <2>2, <2>4, <2>5, <2>7, <2>9 DEF Sorted
<1> QED BY <1>2, <1>3

-----------------------------------------------------------------------------
(* The steps of playback.                                                  *)

\* The steps of playback leave alone what the scan has found, and of the parser
\* all but the date, which a filter without dates does not touch either.
LEMMA PlaybackStep ==
  ASSUME IInv, phase # "scanning", UNCHANGED <<file, phase, found>>,
         parser' = parser \/ (~file.csv /\ \E l \in Sentences : parser' = DayCached(parser, l)),
         mode' \in {"lines", "loopback"}, open' \in BOOLEAN,
         pos' \in 0..Len(Lines), current' \in Timestamps, Forward'
  PROVE  IInv'
<1>1. /\ file' = file /\ phase' = phase /\ sources' = sources /\ valid' = valid
      /\ stamped' = stamped /\ primary' = primary /\ first' = first /\ last' = last
      /\ failed' = failed
  BY DEF found
<1>2. TypeOK /\ SourcesOK /\ FoundByScan /\ Bounds /\ Filtered /\ file \in Files
  BY DEF IInv
<1>3. parser' \in ParserStates /\ parser'.only = parser.only /\ parser'.src = parser.src
  <2>1. parser \in ParserStates
    BY <1>2 DEF TypeOK
  <2>2. ASSUME NEW l \in Sentences, parser' = DayCached(parser, l)
        PROVE  parser' \in ParserStates /\ parser'.only = parser.only /\ parser'.src = parser.src
    <3>1. Dates(parser, l) => l.day \in Days \union {NoSuchDay}
      BY SentenceTypes DEF Dates
    <3> QED BY <2>1, <2>2, <3>1 DEF DayCached, ParserStates
  <2> QED BY <2>1, <2>2
<1>4. TypeOK'
  <2>1. pos' \in 0..Len(file'.lines)
    BY <1>1 DEF Lines
  <2> QED BY <1>1, <1>2, <1>3, <2>1 DEF TypeOK
<1>5. SourcesOK'
  BY <1>1, <1>2 DEF SourcesOK, Entries, Stamps
<1>6. /\ Rows' = Rows /\ Lines' = Lines /\ StampedSources' = StampedSources
      /\ \A n : StampAt(n)' = StampAt(n)
      /\ \A s : StampedBy(s)' = StampedBy(s) /\ (Sorted(s)' <=> Sorted(s))
      /\ Dating' = Dating /\ \A d, T : LastDate(d, T)' <=> LastDate(d, T)
  BY <1>1, SameFile
<1>7. FoundByScan'
  <2>1. FoundInRows => FoundInRows'
    BY <1>1, <1>6, Zenon DEF FoundInRows
  <2>2. FoundInSentences => FoundInSentences'
    <3>1. {s \in StampedSources : Sorted(s)}' = {s \in StampedSources : Sorted(s)}
      BY <1>6
    <3>2. StampedBy(primary)' = StampedBy(primary)
      BY <1>1, <1>6
    <3>3. {StampAt(n) : n \in StampedBy(primary)}' = {StampAt(n) : n \in StampedBy(primary)}
      BY <1>6, <3>2
    <3> QED BY <1>1, <1>6, <3>1, <3>3 DEF FoundInSentences, Score
  <2> QED BY <1>1, <1>2, <2>1, <2>2 DEF FoundByScan
<1>8. Bounds'
  <2>1. Played' = Played
    BY <1>1, <1>6 DEF Played
  <2>2. \A n : StampRead(n)' = StampRead(n)
    BY <1>1, <1>6 DEF StampRead
  <2> QED BY <1>1, <1>2, <2>1, <2>2 DEF Bounds
<1>9. Filtered'
  <2>1. SUFFICES ASSUME phase = "loaded", ~file.csv, primary # None
                 PROVE  /\ parser'.only /\ parser'.src = primary
                        /\ primary[1] \notin Dated => LastDate(parser'.day, Dating)
    BY <1>1, <1>6 DEF Filtered
  <2>2. parser.only /\ parser.src = primary /\ (primary[1] \notin Dated => LastDate(parser.day, Dating))
    BY <1>2, <2>1 DEF Filtered
  <2>3. primary[1] \notin Dated => parser' = parser
    BY <2>2 DEF DayCached, Dates, Passes
  <2> QED BY <1>3, <2>2, <2>3
<1>10. Scanned'
  BY <1>1 DEF Scanned
<1> QED BY <1>1, <1>2, <1>4, <1>5, <1>7, <1>8, <1>9, <1>10 DEF IInv

\* And what playback reads from is the same file.
LEMMA SamePlay ==
  ASSUME UNCHANGED <<file, phase, found>>
  PROVE  /\ Regular' <=> Regular
         /\ Played' = Played /\ \A n : StampRead(n)' = StampRead(n)
<1>1. file' = file /\ phase' = phase /\ primary' = primary /\ failed' = failed
  BY DEF found
<1>2. Rows' = Rows /\ Lines' = Lines /\ (\A n : StampAt(n)' = StampAt(n))
      /\ \A s : StampedBy(s)' = StampedBy(s)
  BY <1>1, SameFile
<1> QED BY <1>1, <1>2 DEF Regular, Played, StampRead

\* What SetProgress leaves of a current stamp within the bounds.
LEMMA ProgressWithin ==
  ASSUME NEW c, NEW d, d \in SetProgress(c), {first, last} \subseteq Timestamps, c \in Timestamps,
         first = Invalid <=> last = Invalid
  PROVE  /\ d \in Timestamps
         /\ stamped /\ first \in Nat /\ last \in Nat /\ first <= c /\ c <= last => d = c
<1>1. CASE Invalid \in {first, last}
  BY <1>1 DEF SetProgress, Invalid
<1>2. CASE Invalid \notin {first, last}
  <2>1. first \in Nat /\ last \in Nat /\ d \in GetProgressFraction(c)
    BY <1>2 DEF SetProgress, Timestamps
  <2>2. CASE ~stamped \/ c = Invalid
    BY <2>1, <2>2 DEF GetProgressFraction, Timestamps, Invalid
  <2>3. CASE stamped /\ c # Invalid
    <3>1. c \in Nat
      BY <2>3 DEF Timestamps
    <3>2. d = IF first = last THEN first ELSE c
      BY <2>1, <2>3 DEF GetProgressFraction
    <3> QED BY <2>1, <3>1, <3>2 DEF Timestamps
  <2> QED BY <2>2, <2>3
<1> QED BY <1>1, <1>2

\* The parser gives a stamp or an invalid one.
LEMMA StampOfTypes ==
  ASSUME NEW p, NEW l \in Sentences
  PROVE  StampOf(p, l) \in Timestamps
<1>1. CASE DayOf(p, l) \in Days /\ l.time # NoTime
  <2>1. l.time \in 0..DayLength-1
    BY <1>1, SentenceTypes
  <2>2. DayOf(p, l) * DayLength + l.time \in Nat
    BY <1>1, <2>1, StampIs
  <2> QED BY <2>2 DEF StampOf, Timestamps
<1>2. CASE ~(DayOf(p, l) \in Days /\ l.time # NoTime)
  BY <1>2 DEF StampOf, Timestamps
<1> QED BY <1>1, <1>2

\* So does a line in playback, or it keeps the current stamp.
LEMMA ReadTypes ==
  ASSUME file \in Files, current \in Timestamps, NEW n \in DOMAIN Lines
  PROVE  Read(n) \in Timestamps
<1>1. CASE file.csv
  <2>1. Lines[n] \in RowRecords
    BY <1>1, RowTypes
  <2> QED BY <1>1, <2>1 DEF Read, RowRecords, Timestamps
<1>2. CASE ~file.csv
  <2>1. Lines[n] \in Sentences
    BY <1>2, FileTypes
  <2> QED BY <1>2, <2>1, StampOfTypes DEF Read
<1> QED BY <1>1, <1>2, FileTypes

\* After the start of playback, or its end, nothing has been read.
LEMMA StartStep ==
  ASSUME IInv, StartPlayback \/ StopPlayback
  PROVE  IInv'
<1>1. /\ phase # "scanning" /\ pos' = 0 /\ open' \in BOOLEAN
      /\ current' \in SetProgress(current) \/ current' = IF Invalid \in {first, last} THEN current ELSE first
      /\ UNCHANGED <<file, mode, phase, parser, found>>
  BY DEF StartPlayback, StopPlayback
<1>2. /\ TypeOK /\ file \in Files /\ Forward /\ {first, last, current} \subseteq Timestamps
      /\ first = Invalid <=> last = Invalid
  BY DEF IInv, TypeOK
<1>3. current' \in Timestamps
  <2>1. CASE current' \in SetProgress(current)
    BY <1>2, <2>1, ProgressWithin
  <2>2. CASE current' = IF Invalid \in {first, last} THEN current ELSE first
    BY <1>2, <2>2
  <2> QED BY <1>1, <2>1, <2>2
<1>4. Forward'
  <2>1. SUFFICES ASSUME Regular, Played # {}
                 PROVE  /\ first <= current' /\ current' <= last
                        /\ \A n \in Played : ~(n <= pos')
    BY <1>1, SamePlay DEF Forward, found
  <2>2. /\ Played \subseteq 1..Len(Lines) /\ first \in Nat /\ last \in Nat /\ stamped
        /\ first <= current /\ current <= last
    BY <1>2, <2>1, RegularPlay DEF Forward
  <2>3. \A n \in Played : ~(n <= pos')
    <3>1. \A n \in Played : n \in Nat /\ n >= 1
      BY <2>2, FileTypes, <1>2
    <3> QED BY <1>1, <3>1
  <2>4. current' = current \/ current' = first
    BY <1>1, <1>2, <2>2, ProgressWithin
  <2>5. current \in Nat
    BY <1>2, <2>2 DEF Timestamps, Invalid
  <2> QED BY <2>2, <2>3, <2>4, <2>5
<1>5. 0 \in 0..Len(Lines)
  BY <1>2, FileTypes
<1>6. mode' \in {"lines", "loopback"} /\ pos' \in 0..Len(Lines) /\ parser' = parser
  BY <1>1, <1>2, <1>5 DEF TypeOK
<1>7. UNCHANGED <<file, phase, found>>
  BY <1>1
<1>8. phase # "scanning" /\ open' \in BOOLEAN
  BY <1>1
<1> QED BY <1>3, <1>4, <1>6, <1>7, <1>8, PlaybackStep

\* The next line: the current stamp does not go back.
LEMMA NotifyForward ==
  ASSUME IInv, Notify
  PROVE  /\ Forward'
         /\ Regular /\ (\E n \in Played : n <= pos) => current <= current' /\ current' <= last
<1> DEFINE n == pos + 1
<1>1. /\ pos' = n /\ current' \in {Read(n)} \union SetProgress(Read(n)) /\ pos < Len(Lines)
      /\ UNCHANGED <<file, phase, found>>
  BY DEF Notify
<1>2. /\ TypeOK /\ file \in Files /\ Forward /\ {first, last, current} \subseteq Timestamps
      /\ first = Invalid <=> last = Invalid
  BY DEF IInv, TypeOK
<1>3. n \in DOMAIN Lines /\ pos \in Nat /\ Read(n) \in Timestamps
  <2>1. n \in DOMAIN Lines /\ pos \in Nat
    BY <1>1, <1>2, FileTypes DEF TypeOK, Lines
  <2> QED BY <1>2, <2>1, ReadTypes
<1>4. SUFFICES ASSUME Regular, Played # {}
               PROVE  /\ first <= current' /\ current' <= last
                      /\ (\E k \in Played : k <= n) => \A m \in Played : m > n => current' <= StampRead(m)
                      /\ (\E k \in Played : k <= pos) => current <= current'
  BY <1>1, SamePlay DEF Forward, found
<1>5. /\ Played \subseteq 1..Len(Lines) /\ first \in Nat /\ last \in Nat /\ stamped
      /\ \A k \in Played : StampRead(k) \in Nat /\ first <= StampRead(k) /\ StampRead(k) <= last
      /\ \A m, k \in Played : m < k => StampRead(m) <= StampRead(k)
      /\ Read(n) = IF n \in Played THEN StampRead(n) ELSE current
  BY <1>3, <1>4, RegularPlay
<1>6. /\ first <= current /\ current <= last
      /\ (\E k \in Played : k <= pos) => \A m \in Played : m > pos => current <= StampRead(m)
  BY <1>2, <1>4 DEF Forward
<1>7. current \in Nat /\ Len(Lines) \in Nat
  BY <1>2, <1>5, <1>6, FileTypes DEF Timestamps, Invalid
<1>8. current' = Read(n) /\ first <= Read(n) /\ Read(n) <= last
  <2>1. first <= Read(n) /\ Read(n) <= last
    BY <1>5, <1>6
  <2>2. ASSUME current' \in SetProgress(Read(n)) PROVE current' = Read(n)
    BY <1>2, <1>3, <1>5, <2>1, <2>2, ProgressWithin
  <2> QED BY <1>1, <2>1, <2>2
<1>9. CASE n \in Played
  <2>1. \A m \in Played : m > n => current' <= StampRead(m)
    BY <1>3, <1>5, <1>8, <1>9
  <2>2. (\E k \in Played : k <= pos) => current <= current'
    BY <1>3, <1>5, <1>6, <1>8, <1>9
  <2> QED BY <1>8, <2>1, <2>2
<1>10. CASE n \notin Played
  <2>1. current' = current
    BY <1>5, <1>8, <1>10
  <2>2. \A k \in Played : k <= n => k <= pos
    BY <1>3, <1>5, <1>7, <1>10
  <2>3. \A m \in Played : m > n => m > pos
    BY <1>3, <1>5, <1>7
  <2>4. current <= current
    BY <1>7
  <2> QED BY <1>6, <2>1, <2>2, <2>3, <2>4
<1> QED BY <1>9, <1>10

\* One pass of Notify, in any file.
LEMMA NotifyStep ==
  ASSUME IInv, Notify
  PROVE  IInv'
<1>1. /\ phase # "scanning" /\ pos' = pos + 1 /\ pos < Len(Lines)
      /\ current' \in {Read(pos + 1)} \union SetProgress(Read(pos + 1))
      /\ parser' = IF file.csv THEN parser ELSE DayCached(parser, Lines[pos + 1])
      /\ UNCHANGED <<file, mode, phase, open, found>>
  BY DEF Notify
<1>2. /\ TypeOK /\ file \in Files /\ {first, last, current} \subseteq Timestamps
      /\ file.csv \in BOOLEAN
      /\ first = Invalid <=> last = Invalid
  BY DEF IInv, TypeOK
<1>3. pos + 1 \in DOMAIN Lines /\ pos' \in 0..Len(Lines)
  BY <1>1, <1>2, FileTypes DEF TypeOK, Lines
<1>4. current' \in Timestamps
  <2>1. Read(pos + 1) \in Timestamps
    BY <1>2, <1>3, ReadTypes
  <2>2. \A d \in SetProgress(Read(pos + 1)) : d \in Timestamps
    BY <1>2, <2>1, ProgressWithin
  <2> QED BY <1>1, <2>1, <2>2
<1>5. parser' = parser \/ (~file.csv /\ \E l \in Sentences : parser' = DayCached(parser, l))
  <2>1. CASE file.csv
    BY <1>1, <2>1
  <2>2. CASE ~file.csv
    BY <1>1, <1>2, <1>3, <2>2, FileTypes
  <2> QED BY <2>1, <2>2
<1> QED BY <1>1, <1>2, <1>3, <1>4, <1>5, NotifyForward, PlaybackStep DEF TypeOK

\* Where a seek in a file with stamps ends.
LEMMA SeekEnds ==
  ASSUME IInv, SeekToFraction, HasValidTimestamps
  PROVE  /\ \/ pos' = Len(Lines) /\ current' = current
            \/ /\ pos' \in DOMAIN Examined /\ pos' \in 1..Len(Lines)
               /\ current' = Examined[pos'] /\ Examined[pos'] >= 0
         /\ parser' = IF file.csv THEN parser ELSE ParserAt(pos' + 1)
<1>1. PICK target \in first..last : SeekTo(target)
  BY DEF SeekToFraction
<1>2. first \in Nat /\ file \in Files
  BY DEF IInv, TypeOK, HasValidTimestamps, Timestamps
<1>3. target >= 0 /\ target \in Int
  <2>1. target \in Int /\ first <= target
    BY <1>1
  <2> QED BY <1>2, <2>1
<1> DEFINE after == {n \in DOMAIN Examined : Examined[n] >= target}
<1>4. /\ pos' = IF after = {} THEN Len(Lines) ELSE Min(after)
      /\ current' = IF after = {} THEN current ELSE Examined[pos']
      /\ parser' = IF file.csv THEN parser ELSE ParserAt(pos' + 1)
  BY <1>1 DEF SeekTo
<1>5. DOMAIN Examined \subseteq 1..Len(Lines) /\ \A n \in DOMAIN Examined : Examined[n] \in Int
  <2>1. CASE file.csv
    <3>1. /\ Lines \in Seq(RowRecords) /\ DOMAIN Lines = 1..Len(Lines)
          /\ Examined = [n \in DOMAIN Lines |-> Lines[n].stamp]
      BY <1>2, <2>1, RowTypes DEF Examined
    <3>2. ASSUME NEW n \in DOMAIN Lines PROVE Lines[n].stamp \in Int
      <4>1. Lines[n] \in RowRecords
        BY <3>1
      <4> QED BY <4>1 DEF RowRecords, Invalid, Unreadable
    <3> QED BY <3>1, <3>2
  <2>2. CASE ~file.csv
    <3>1. /\ Lines \in Seq(Sentences) /\ Len(Lines) \in Nat /\ DOMAIN Lines = 1..Len(Lines)
          /\ Examined = [n \in 2..Len(Lines) |-> StampOf(ParserAt(n), Lines[n])]
      BY <1>2, <2>2, FileTypes DEF Examined
    <3>2. \A n \in 2..Len(Lines) : Lines[n] \in Sentences
      BY <3>1
    <3>3. \A n \in 2..Len(Lines) : StampOf(ParserAt(n), Lines[n]) \in Timestamps
      BY <3>2, StampOfTypes
    <3>4. Timestamps \subseteq Int
      BY DEF Timestamps, Invalid
    <3>5. \A n \in DOMAIN Examined : n \in 1..Len(Lines) /\ Examined[n] \in Timestamps
      BY <3>1, <3>3
    <3> QED BY <3>4, <3>5
  <2> QED BY <1>2, <2>1, <2>2, FileTypes
<1>6. \A n \in after : n \in DOMAIN Examined /\ Examined[n] >= 0 /\ n \in 1..Len(Lines)
  BY <1>3, <1>5
<1> HIDE DEF after
<1>7. CASE after = {}
  BY <1>4, <1>7
<1>8. CASE after # {}
  <2>1. after \in SUBSET Nat
    BY <1>6
  <2>2. PICK n \in after : \A m \in after : n <= m
    BY <1>8, <2>1, LeastMember
  <2>3. after \in SUBSET Int
    BY <2>1
  <2>4. Min(after) = n
    BY <2>2, <2>3, MinIs
  <2> QED BY <1>4, <1>6, <1>8, <2>4
<1> QED BY <1>7, <1>8

\* A seek comes to a line that the scan gave a stamp, and if that is one further
\* on, its stamp is not before the current one.
LEMMA SeekForward ==
  ASSUME IInv, SeekToFraction
  PROVE  /\ Forward'
         /\ Regular /\ pos' = pos + 1 /\ (\E n \in Played : n <= pos) =>
              current <= current' /\ current' <= last
<1>1. UNCHANGED <<file, phase, found>>
  BY DEF SeekToFraction
<1>2. /\ file \in Files /\ Forward /\ current \in Timestamps /\ pos \in Nat /\ Len(Lines) \in Nat
  <2>1. file \in Files /\ Forward /\ TypeOK
    BY DEF IInv
  <2> QED BY <2>1, FileTypes DEF TypeOK, Lines
<1>3. SUFFICES ASSUME Regular, Played # {}
               PROVE  /\ first <= current' /\ current' <= last
                      /\ \A m \in Played : m > pos' => current' <= StampRead(m)
                      /\ pos' = pos + 1 /\ (\E k \in Played : k <= pos) => current <= current'
  BY <1>1, SamePlay DEF Forward, found
<1>4. /\ Played \subseteq 1..Len(Lines) /\ first \in Nat /\ last \in Nat /\ stamped
      /\ \A k \in Played : StampRead(k) \in Nat /\ first <= StampRead(k) /\ StampRead(k) <= last
      /\ \A m, k \in Played : m < k => StampRead(m) <= StampRead(k)
      /\ \A n \in DOMAIN Examined : Examined[n] >= 0 => n \in Played /\ Examined[n] = StampRead(n)
  BY <1>3, RegularPlay
<1>5. /\ first <= current /\ current <= last
      /\ (\E k \in Played : k <= pos) => \A m \in Played : m > pos => current <= StampRead(m)
  BY <1>2, <1>3 DEF Forward
<1>6. current \in Nat
  BY <1>2, <1>4, <1>5 DEF Timestamps, Invalid
<1>7. HasValidTimestamps
  BY <1>4, <1>6 DEF HasValidTimestamps, Invalid
<1>8. CASE pos' = Len(Lines) /\ current' = current
  <2>1. \A m \in Played : ~(m > pos')
    BY <1>2, <1>4, <1>8
  <2> QED BY <1>5, <1>6, <1>8, <2>1
<1>9. CASE pos' \in DOMAIN Examined /\ current' = Examined[pos'] /\ Examined[pos'] >= 0
  <2>1. pos' \in Played /\ current' = StampRead(pos')
    BY <1>4, <1>9
  <2>2. \A m \in Played : m > pos' => current' <= StampRead(m)
    BY <1>4, <2>1
  <2>3. pos' = pos + 1 => pos' > pos
    BY <1>2
  <2> QED BY <1>4, <1>5, <2>1, <2>2, <2>3
<1> QED BY <1>7, <1>8, <1>9, SeekEnds

\* And a seek in any file.
LEMMA SeekStep ==
  ASSUME IInv, SeekToFraction
  PROVE  IInv'
<1>1. /\ phase # "scanning" /\ UNCHANGED <<file, mode, phase, open, found>>
      /\ ~HasValidTimestamps =>
           /\ pos' \in (IF file.csv THEN 0 ELSE 1)..Len(Lines)
           /\ UNCHANGED <<parser, current>>
  BY DEF SeekToFraction
<1>2. TypeOK /\ file \in Files /\ current \in Timestamps /\ parser \in ParserStates
  BY DEF IInv, TypeOK
<1>3. Len(Lines) \in Nat /\ file.csv \in BOOLEAN
  BY <1>2, FileTypes
<1>4. /\ pos' \in 0..Len(Lines) /\ current' \in Timestamps
      /\ parser' = parser \/ (~file.csv /\ \E l \in Sentences : parser' = DayCached(parser, l))
  <2>1. CASE ~HasValidTimestamps
    BY <1>1, <1>2, <1>3, <2>1
  <2>2. CASE HasValidTimestamps
    <3>1. /\ \/ pos' = Len(Lines) /\ current' = current
             \/ /\ pos' \in DOMAIN Examined /\ pos' \in 1..Len(Lines)
                /\ current' = Examined[pos'] /\ Examined[pos'] >= 0
          /\ parser' = IF file.csv THEN parser ELSE ParserAt(pos' + 1)
      BY <2>2, SeekEnds
    <3>2. pos' \in 0..Len(Lines)
      BY <1>3, <3>1
    <3>3. CASE file.csv
      <4>1. ASSUME pos' \in 1..Len(Lines), current' = Examined[pos'], Examined[pos'] >= 0
            PROVE  current' \in Timestamps
        <5>1. pos' \in DOMAIN Lines /\ Lines[pos'] \in RowRecords
          BY <1>2, <3>3, <4>1, RowTypes
        <5>2. current' = Lines[pos'].stamp
          BY <3>3, <4>1, <5>1 DEF Examined
        <5> QED BY <4>1, <5>1, <5>2 DEF RowRecords, Timestamps, Invalid, Unreadable
      <4> QED BY <1>2, <3>1, <3>2, <3>3, <4>1
    <3>4. CASE ~file.csv
      <4>1. ASSUME pos' \in DOMAIN Examined, current' = Examined[pos']
            PROVE  current' \in Timestamps
        <5>1. pos' \in 2..Len(Lines) /\ current' = StampOf(ParserAt(pos'), Lines[pos'])
          BY <3>4, <4>1 DEF Examined
        <5>2. Lines[pos'] \in Sentences
          BY <1>2, <1>3, <3>4, <5>1, FileTypes
        <5> QED BY <5>1, <5>2, StampOfTypes
      <4>2. pos' + 1 \in 0..(Len(Lines) + 1)
        <5>1. \A m \in Nat : \A n \in 0..m : n + 1 \in 0..(m + 1)
          OBVIOUS
        <5> QED BY ONLY <1>3, <3>2, <5>1
      <4>3. parser' = parser \/ \E l \in Sentences : parser' = DayCached(parser, l)
        BY <1>2, <3>1, <3>4, <4>2, ParserAtIs
      <4> QED BY <1>2, <3>1, <3>2, <3>4, <4>1, <4>3
    <3> QED BY <1>3, <3>3, <3>4
  <2> QED BY <2>1, <2>2
<1>5. mode' \in {"lines", "loopback"} /\ open' \in BOOLEAN
  BY <1>1, <1>2 DEF TypeOK
<1>6. UNCHANGED <<file, phase, found>>
  BY <1>1
<1> QED BY <1>1, <1>4, <1>5, <1>6, SeekForward, PlaybackStep

\* The replay mode is of no account to it.
LEMMA ModeStep ==
  ASSUME IInv, SetReplayMode
  PROVE  IInv'
<1>1. /\ phase # "scanning" /\ mode' \in {"lines", "loopback"}
      /\ UNCHANGED <<file, phase, open, pos, parser, current, found>>
  BY DEF SetReplayMode
<1>2. TypeOK /\ Forward
  BY DEF IInv
<1>3. pos' \in 0..Len(Lines) /\ open' \in BOOLEAN /\ current' \in Timestamps /\ parser' = parser
  BY <1>1, <1>2 DEF TypeOK, Lines
<1>4. Forward'
  BY <1>1, <1>2, SamePlay DEF Forward, found
<1>5. UNCHANGED <<file, phase, found>>
  BY <1>1
<1> QED BY <1>1, <1>3, <1>4, <1>5, PlaybackStep

-----------------------------------------------------------------------------
(* The theorems.                                                           *)

\* Before the first file nothing has been found.
LEMMA InitIInv ==
  ASSUME Init
  PROVE  IInv
<1>1. file \in Files /\ file.csv \in BOOLEAN /\ 0 \in 0..Len(file.lines)
  BY ScanAssumption DEF Init
<1>2. TypeOK
  <2>1. Fresh \in ParserStates /\ ~Fresh.only
    BY DEF Fresh, ParserStates
  <2>2. Invalid \in Timestamps /\ DOMAIN sources = {}
    BY DEF Timestamps, Init
  <2> QED BY <1>1, <2>1, <2>2 DEF Init, TypeOK
<1>3. SourcesOK
  BY DEF Init, SourcesOK
<1>4. Scanned /\ FoundByScan /\ Bounds /\ Filtered /\ Forward
  BY DEF Init, Scanned, FoundByScan, Bounds, Filtered, Forward, Regular
<1> QED BY <1>1, <1>2, <1>3, <1>4 DEF IInv

\* Steps that change nothing.
LEMMA StutterStep ==
  ASSUME IInv, UNCHANGED vars
  PROVE  IInv'
<1>1. UNCHANGED <<file, mode, phase, open, pos, parser, current, found>>
  BY DEF vars
<1>2. TypeOK /\ SourcesOK /\ Scanned /\ Forward /\ file \in Files
  BY DEF IInv
<1>3. CASE phase = "scanning"
  <2>1. UNCHANGED <<sources, valid, stamped, primary, first, last, failed>>
    BY <1>1 DEF found
  <2>2. TypeOK'
    BY <1>1, <1>2, <2>1 DEF TypeOK
  <2>3. SourcesOK'
    BY <1>2, <2>1 DEF SourcesOK, Entries, Stamps
  <2>4. RowsSoFar => RowsSoFar'
    BY <1>1, <2>1, SameFile DEF RowsSoFar
  <2>5. SentencesSoFar => SentencesSoFar'
    <3>1. {m \in Dating : m <= pos}' = {m \in Dating : m <= pos}
      BY <1>1, SameFile
    <3>2. \A s : UpTo(s, pos)' = UpTo(s, pos)
      BY <1>1, SameFile
    <3>3. LastDate(parser.day, {m \in Dating : m <= pos}) => LastDate(parser.day, {m \in Dating : m <= pos})'
      BY <1>1, <3>1, SameFile
    <3>4. (\A s \in DOMAIN sources : Known(sources[s], UpTo(s, pos)))
          => (\A s \in DOMAIN sources : Known(sources[s], UpTo(s, pos)))'
      BY <1>1, <2>1, <3>2, SameFile
    <3>5. (\E n \in 1..pos : Lines[n].form)' <=> \E n \in 1..pos : Lines[n].form
      BY <1>1, SameFile
    <3> QED BY <1>1, <2>1, <3>2, <3>3, <3>4, <3>5 DEF SentencesSoFar
  <2>6. Scanned'
    BY <1>1, <1>2, <1>3, <2>1, <2>4, <2>5 DEF Scanned
  <2> QED BY <1>1, <1>2, <1>3, <2>2, <2>3, <2>6, StillScanning
<1>4. CASE phase # "scanning"
  <2>1. mode' \in {"lines", "loopback"} /\ open' \in BOOLEAN /\ parser' = parser
    BY <1>1, <1>2 DEF TypeOK
  <2>2. pos' \in 0..Len(Lines) /\ current' \in Timestamps
    BY <1>1, <1>2 DEF TypeOK, Lines
  <2>3. UNCHANGED <<file, phase, found>>
    BY <1>1
  <2>4. Forward'
    BY <1>1, <1>2, SamePlay DEF Forward, found
  <2> QED BY <1>4, <2>1, <2>2, <2>3, <2>4, PlaybackStep
<1> QED BY <1>3, <1>4

\* Every step keeps the invariant.
LEMMA NextIInv ==
  ASSUME IInv, [Next]_vars
  PROVE  IInv'
<1>1. CASE OnLoadButton
  <2>1. PICK f \in Files : LoadFile(f)
    BY <1>1, ScanAssumption DEF OnLoadButton
  <2> QED BY <2>1, NotScanned, ScanBegins
<1>2. CASE ScanSentence
  BY <1>2, SentenceStep
<1>3. CASE ScanRow
  BY <1>3, RowGoesBack, RowInOrder, RowWithoutStamp
<1>4. CASE ScanEnds
  <2>1. file.csv \in BOOLEAN /\ valid \in BOOLEAN
    BY DEF IInv, TypeOK
  <2> QED BY <1>4, <2>1, EndOfRows, EndWithoutPrimary, EndWithPrimary
<1>5. CASE StartPlayback \/ StopPlayback
  BY <1>5, StartStep
<1>6. CASE Notify
  BY <1>6, NotifyStep
<1>7. CASE SeekToFraction
  BY <1>7, SeekStep
<1>8. CASE SetReplayMode
  BY <1>8, ModeStep
<1>9. CASE UNCHANGED vars
  BY <1>9, StutterStep
<1> QED BY <1>1, <1>2, <1>3, <1>4, <1>5, <1>6, <1>7, <1>8, <1>9 DEF Next

\* The inductive invariant of a scan and of the playback of what it found.
THEOREM ScanInvariant == Spec => []IInv
<1>1. Init => IInv
  BY InitIInv
<1>2. IInv /\ [Next]_vars => IInv'
  BY NextIInv
<1> QED BY <1>1, <1>2, PTL DEF Spec

\* The variables keep their types, whatever is loaded, scanned, played and sought.
THEOREM ScanTypeCorrect == Spec => []TypeOK
<1>1. IInv => TypeOK
  BY DEF IInv
<1> QED BY <1>1, ScanInvariant, PTL

\* What ScanFileTimestamps reports is what the file says, for files of any length:
\* an error exactly for rows out of order, else the earliest and the latest stamp,
\* and of sentences a source of the best score among those in order.
THEOREM FoundByScanAlways == Spec => []FoundByScan
<1>1. IInv => FoundByScan
  BY DEF IInv
<1> QED BY <1>1, ScanInvariant, PTL

\* Playback takes the stamps the scan saw from the sentences it accepted.
THEOREM PlaysAsScannedAlways == Spec => []PlaysAsScanned
<1>1. IInv => PlaysAsScanned
  BY DatedPlays, UndatedPlays DEF PlaysAsScanned
<1> QED BY <1>1, ScanInvariant, PTL

\* Playback and seeks never take the current stamp back in a regular file, nor
\* beyond the last one.
THEOREM ForwardOnlyAlways == Spec => ForwardOnly
<1>1. IInv /\ [Next]_vars =>
        [(/\ Regular /\ pos' = pos + 1
          /\ \E n \in IF file.csv THEN Rows ELSE StampedBy(primary) : n <= pos)
         => current <= current' /\ current' <= last]_vars
  <2> SUFFICES ASSUME IInv, [Next]_vars, Regular, pos' = pos + 1,
                      \E n \in Played : n <= pos
               PROVE  current <= current' /\ current' <= last
    BY DEF Played
  <2>1. phase = "loaded" /\ pos \in Nat
    <3>1. TypeOK /\ file \in Files
      BY DEF IInv
    <3> QED BY <3>1, FileTypes DEF Regular, TypeOK, Lines
  <2>2. pos' # 0 /\ pos' # pos
    BY <2>1
  <2>3. CASE Notify
    BY <2>3, NotifyForward
  <2>4. CASE SeekToFraction
    BY <2>4, SeekForward
  <2>5. CASE OnLoadButton \/ StartPlayback \/ StopPlayback
    BY <2>2, <2>5 DEF OnLoadButton, LoadFile, StartPlayback, StopPlayback
  <2>6. CASE ScanSentence \/ ScanRow \/ ScanEnds
    BY <2>1, <2>6 DEF ScanSentence, ScanRow, ScanEnds
  <2>7. CASE SetReplayMode \/ UNCHANGED vars
    BY <2>2, <2>7 DEF SetReplayMode, vars
  <2> QED BY <2>3, <2>4, <2>5, <2>6, <2>7 DEF Next
<1> QED BY <1>1, ScanInvariant, PTL DEF ForwardOnly, Spec

=============================================================================

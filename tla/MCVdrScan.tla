----------------------------- MODULE MCVdrScan -----------------------------
(* Instances of VdrScan for TLC. *)
EXTENDS VdrScan, TLC

MCKinds == {"GPRMC", "GNZDA", "GPGGA"}
MCDated == {"GPRMC", "GNZDA"}
MCDays == {1, 2}

Sentence(kind, prec, day, time) ==
  [form |-> TRUE, kind |-> kind, prec |-> prec, day |-> day, time |-> time]

\* Dated sentences of two sources, with dates that are missing or do not exist;
\* sentences without a date, one of them so precise that it is preferred;
\* one without a time, one without a checksum and one that is no sentence.
MCSentences ==
  {Sentence("GPRMC", 0, d, t) : d \in {1, 2}, t \in {0, 1}}
  \union {Sentence("GPRMC", 0, NoDay, 0), Sentence("GPRMC", 0, NoSuchDay, 1)}
  \union {Sentence("GNZDA", 0, 1, 1), Sentence("GNZDA", 1, 1, 0)}
  \union {Sentence("GPGGA", p, NoDay, t) : p \in {0, 6}, t \in {0, 1}}
  \union {Sentence(Other, 0, NoDay, NoTime),
          [Sentence("GPRMC", 0, 2, 1) EXCEPT !.form = FALSE],
          [Sentence(Other, 0, NoDay, NoTime) EXCEPT !.form = FALSE]}

Raw(lines) == [csv |-> FALSE, lines |-> lines]
Csv(stamps) ==
  [csv |-> TRUE, lines |-> [n \in DOMAIN stamps |-> [stamp |-> stamps[n]]]]

\* A day has two times; the stamps of the rows are any three.
MCDayLength == 2

\* Sentences for longer files, in which the date changes.
MCFewSentences ==
  {Sentence("GPRMC", 0, 1, 1), Sentence("GPRMC", 0, 2, 0), Sentence("GNZDA", 0, 2, 0)}
  \union {Sentence("GPGGA", 6, NoDay, t) : t \in {0, 1}}

\* Every raw file of at most three lines, some of four and every CSV file of at most four rows.
MCFiles ==
  {Raw(s) : s \in UNION {[1..n -> MCSentences] : n \in 0..3} \union [1..4 -> MCFewSentences]}
  \union {Csv(s) : s \in UNION {[1..n -> {2, 3, 4, Invalid, Unreadable}] : n \in 0..4}}

\* Files that leave a date, a filter, stamps or an error behind.
MCFormer ==
  {Raw(<<Sentence("GPRMC", 0, 2, 0), Sentence("GPGGA", 6, NoDay, 1)>>),
   Raw(<<Sentence("GPRMC", 0, 1, 0), Sentence("GPRMC", 0, 2, 1)>>),
   Csv(<<4, 2>>)}
=============================================================================

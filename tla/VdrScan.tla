------------------------------ MODULE VdrScan ------------------------------
(***************************************************************************)
(* Where the time stamps of a replay come from: TimestampParser            *)
(* (src/src/vdr_pi_time.cpp), the scan of a file when it is loaded and the *)
(* choice of a primary time source, and the use that playback makes of     *)
(* both (src/src/record_play_mgr.cpp).                                     *)
(*                                                                         *)
(* A file is a CSV file, whose lines are the rows below the header, or raw *)
(* NMEA.  A row is a record of its stamp, which is Unreadable, or Invalid  *)
(* when the row has a message and ends before the column of the stamp.  A  *)
(* sentence is a record:                                                   *)
(*   form   ParseNmeaComponents accepts it                                 *)
(*   kind   talker and sentence type                                       *)
(*   prec   digits of the seconds' fraction                                *)
(*   time   time of day, or NoTime where there is none or it is wrong      *)
(*   day    its date; NoDay where there is none or it is out of range;     *)
(*          NoSuchDay for one like February 31, which only the last        *)
(*          conversion refuses                                             *)
(* Blank lines and comments, which GetNextNonEmptyLine skips, are left out.*)
(*                                                                         *)
(* The scan is one call in the code; here it takes a step per line, with   *)
(* nothing in between.  When Notify waits is the matter of VdrPlayback;    *)
(* here each step of playback reads a line and may be the last of its call.*)
(***************************************************************************)
EXTENDS Integers, Sequences, FiniteSetsExt

CONSTANTS
  Files,      \* the files that can be loaded
  Former,     \* those loaded before another one or in the loopback mode: a bound
  Kinds,      \* talkers and types of the sentences that carry a time
  Dated,      \* those with a date: RMC and ZDA
  Days,       \* dates, as day numbers
  DayLength   \* times of day are below it

Invalid == -1      \* an invalid wxDateTime
Unreadable == -2   \* a row that does not parse
NoTime == -1
NoDay == -1
NoSuchDay == -2
None == <<>>       \* no primary time source
Other == "other"   \* the kind of a sentence without time

Sentences ==
  [form : BOOLEAN, kind : Kinds \union {Other}, prec : Nat,
   time : 0..DayLength-1 \union {NoTime}, day : Days \union {NoDay, NoSuchDay}]

ASSUME ScanAssumption ==
  /\ DayLength \in Nat \ {0}
  /\ Days \subseteq Nat \ {0} /\ IsFiniteSet(Days)
  /\ Dated \subseteq Kinds /\ Other \notin Kinds
  /\ Former \subseteq Files
  /\ \A f \in Files :
       f.csv \in BOOLEAN
       /\ IF f.csv THEN f.lines \in Seq([stamp : Nat \union {Invalid, Unreadable}])
                   ELSE f.lines \in Seq(Sentences)

VARIABLES
  file,      \* m_input_file
  mode,      \* m_protocols.replay_mode: "lines" stands for the other two
  phase,     \* "scanning", "loaded", or "stale": the file was not scanned
  open,      \* m_istream is opened
  pos,       \* lines read of file
  parser,    \* m_timestamp_parser: cached date, filter, the filter's source
  sources,   \* m_time_sources
  valid,     \* validSentences # 0
  stamped,   \* m_has_timestamps
  primary,   \* m_primary_time_source, or None
  first,     \* m_first_timestamp
  last,      \* m_last_timestamp
  current,   \* m_current_timestamp
  failed     \* ScanFileTimestamps has returned an error

found == <<sources, valid, stamped, primary, first, last, failed>>
vars == <<file, mode, phase, open, pos, parser, current, found>>

Stamps == {d * DayLength + t : d \in Days, t \in 0..DayLength-1}
Timestamps == Nat \union {Invalid}
SourceSet == Kinds \X Nat

ParserStates ==
  [day : Days \union {0, NoSuchDay}, only : BOOLEAN, src : SourceSet \union {None}]

TypeOK ==
  /\ file.csv \in BOOLEAN
  /\ mode \in {"lines", "loopback"}
  /\ phase \in {"scanning", "loaded", "stale"}
  /\ open \in BOOLEAN
  /\ pos \in 0..Len(file.lines)
  /\ parser \in ParserStates /\ (parser.only => parser.src # None)
  /\ \A s \in DOMAIN sources :
       s \in SourceSet /\ {sources[s].start, sources[s].current} \subseteq Stamps
  /\ {valid, stamped, failed} \subseteq BOOLEAN
  /\ primary \in DOMAIN sources \union {None}
  /\ {first, last, current} \subseteq Timestamps
  /\ first = Invalid <=> last = Invalid

-----------------------------------------------------------------------------
(* TimestampParser.                                                        *)

Fresh == [day |-> 0, only |-> FALSE, src |-> None]

\* A fault: the filter survives.
ResetDate(p) == [p EXCEPT !.day = 0]

\* Reset leaves the source of the filter behind.
Reset(p) == [p EXCEPT !.day = 0, !.only = FALSE]

SetPrimaryTimeSource(p, s) == [p EXCEPT !.only = TRUE, !.src = s]

Passes(p, l) == l.kind # Other /\ (p.only => l.kind = p.src[1])

\* ValidateAndSetDate caches a date before anything else of the sentence is
\* looked at, but its time.
Dates(p, l) == Passes(p, l) /\ l.kind \in Dated /\ l.time # NoTime /\ l.day # NoDay

DayCached(p, l) == IF Dates(p, l) THEN [p EXCEPT !.day = l.day] ELSE p

\* ApplyCachedDate serves the sentences that have no date.
DayOf(p, l) == IF l.kind \in Dated THEN l.day ELSE p.day

\* ParseTimestamp
StampOf(p, l) ==
  IF /\ Passes(p, l) /\ l.time # NoTime
     /\ p.only => l.prec = p.src[2]
     /\ DayOf(p, l) \in Days
  THEN DayOf(p, l) * DayLength + l.time ELSE Invalid

-----------------------------------------------------------------------------
(* ScanFileTimestamps.                                                     *)

Lines == file.lines
Source(l) == <<l.kind, l.prec>>

Score(s) == (IF s[1] \in Dated THEN 10 ELSE 0) + 2 * s[2]

\* A fault: a stamp is compared with the first of its source.
OrderedFirst(d, stamp) == d.chronological /\ stamp >= d.start

\* No stamp of the source was before an earlier one.
Ordered(d, stamp) == d.chronological /\ stamp >= d.current

\* The sources after a sentence of source s with that stamp.
Noted(s, stamp) ==
  [r \in DOMAIN sources \union {s} |->
     IF r # s THEN sources[r]
     ELSE IF s \notin DOMAIN sources
     THEN [start |-> stamp, current |-> stamp, chronological |-> TRUE]
     ELSE [sources[s] EXCEPT !.chronological = Ordered(sources[s], stamp), !.current = stamp]]

\* RecordPlayMgr::LoadFile, then the beginning of ScanFileTimestamps.  In the
\* loopback mode it ends at once, and all that was found out before is kept;
\* for an empty file it ends before the parser is reset.
LoadFile(f) ==
  /\ file' = f /\ open' = TRUE /\ pos' = 0
  /\ IF mode = "loopback"
     THEN phase' = "stale" /\ UNCHANGED <<parser, current, found>>
     ELSE /\ phase' = IF f.lines = <<>> /\ ~f.csv THEN "loaded" ELSE "scanning"
          /\ parser' = IF phase' = "loaded" THEN parser ELSE Reset(parser)
          /\ sources' = <<>> /\ valid' = FALSE /\ stamped' = FALSE
          /\ primary' = None /\ failed' = FALSE
          /\ first' = Invalid /\ last' = Invalid /\ current' = Invalid
  /\ UNCHANGED mode

OnLoadButton ==
  /\ phase # "scanning" /\ file \in Former
  /\ \E f \in IF mode = "loopback" THEN Former ELSE Files : LoadFile(f)

\* A sentence that is not accepted is not parsed.
ScanSentence ==
  /\ phase = "scanning" /\ ~file.csv /\ pos < Len(Lines)
  /\ LET l == Lines[pos + 1]
         stamp == StampOf(parser, l)
         seen == l.form /\ stamp # Invalid
     IN  /\ parser' = IF l.form THEN DayCached(parser, l) ELSE parser
         /\ sources' = IF seen THEN Noted(Source(l), stamp) ELSE sources
         /\ valid' = (valid \/ l.form)
         /\ stamped' = (stamped \/ seen)
  /\ pos' = pos + 1
  /\ UNCHANGED <<file, mode, phase, open, primary, first, last, current, failed>>

Backwards(stamp) == last # Invalid /\ stamp < last

\* A row that is out of order ends the scan with an error.
ScanRow ==
  /\ phase = "scanning" /\ file.csv /\ pos < Len(Lines)
  /\ LET stamp == Lines[pos + 1].stamp
         readable == stamp \notin {Invalid, Unreadable}
     IN  IF readable /\ Backwards(stamp)
         THEN /\ first' = Invalid /\ last' = Invalid /\ current' = Invalid
              /\ stamped' = FALSE /\ failed' = TRUE
              /\ phase' = "loaded" /\ pos' = 0
         ELSE /\ last' = IF readable THEN stamp ELSE last
              /\ first' = IF readable /\ first = Invalid THEN stamp ELSE first
              /\ current' = first'
              /\ stamped' = (stamped \/ readable)
              /\ pos' = pos + 1
              /\ UNCHANGED <<phase, failed>>
  /\ UNCHANGED <<file, mode, open, parser, sources, valid, primary>>

Candidates == {s \in DOMAIN sources : sources[s].chronological}

\* SelectPrimaryTimeSource.  std::sort leaves open which of several comes first.
Best == {s \in Candidates : \A r \in Candidates : Score(r) <= Score(s)}

\* A fault: the last stamp is forgotten.
PrimaryFoundOpen ==
  IF Best = {} THEN primary' = None /\ UNCHANGED <<parser, first, last, current>>
  ELSE \E s \in Best :
         /\ primary' = s
         /\ first' = sources[s].start /\ current' = first'
         /\ parser' = SetPrimaryTimeSource(parser, s)
         /\ UNCHANGED last

\* A fault: the parser is not told.
PrimaryFoundUnfiltered ==
  IF Best = {} THEN primary' = None /\ UNCHANGED <<parser, first, last, current>>
  ELSE \E s \in Best :
         /\ primary' = s
         /\ first' = sources[s].start /\ current' = first' /\ last' = sources[s].current
         /\ UNCHANGED parser

PrimaryFound ==
  IF Best = {} THEN primary' = None /\ UNCHANGED <<parser, first, last, current>>
  ELSE \E s \in Best :
         /\ primary' = s
         /\ first' = sources[s].start /\ current' = first' /\ last' = sources[s].current
         /\ parser' = SetPrimaryTimeSource(parser, s)

\* A raw file without any sentence is an error, and no source is chosen.
ScanEnds ==
  /\ phase = "scanning" /\ pos = Len(Lines)
  /\ phase' = "loaded" /\ pos' = 0
  /\ failed' = (~file.csv /\ ~valid)
  /\ IF file.csv \/ ~valid THEN UNCHANGED <<primary, parser, first, last, current>>
                           ELSE PrimaryFound
  /\ UNCHANGED <<file, mode, open, sources, valid, stamped>>

-----------------------------------------------------------------------------
(* Playback.                                                               *)

\* HasValidTimestamps
HasValidTimestamps == stamped /\ Invalid \notin {first, last, current}

\* GetProgressFraction, as the stamps at that fraction of the file: where there
\* is no current stamp it is the fraction of the lines.
GetProgressFraction(c) ==
  IF ~stamped \/ c = Invalid THEN first..last
  ELSE IF first = last THEN {first} ELSE {c}

\* The current stamp after SetProgress of that, which rounds to seconds.
SetProgress(c) ==
  IF Invalid \in {first, last} THEN {c} ELSE GetProgressFraction(c)

\* AdjustPlaybackBaseTime does not touch what is modelled here.
StartPlayback ==
  /\ phase # "scanning" /\ mode = "lines"
  /\ open' = TRUE /\ pos' = 0
  /\ current' \in SetProgress(current)
  /\ UNCHANGED <<file, mode, phase, parser, found>>

\* The stamp that Notify reads with line n, or the current one if it has none.
\* A row without stamp makes the current one invalid.
Read(n) ==
  IF file.csv THEN IF Lines[n].stamp = Unreadable THEN current ELSE Lines[n].stamp
  ELSE IF StampOf(parser, Lines[n]) = Invalid THEN current ELSE StampOf(parser, Lines[n])

\* One pass of the loop of Notify.  Playback does not ask whether a sentence is
\* well-formed, and does not reset the parser.
Notify ==
  /\ phase # "scanning" /\ mode = "lines" /\ open
  /\ pos < Len(Lines)
  /\ pos' = pos + 1
  /\ current' \in {Read(pos + 1)} \union SetProgress(Read(pos + 1))
  /\ parser' = IF file.csv THEN parser ELSE DayCached(parser, Lines[pos + 1])
  /\ UNCHANGED <<file, mode, phase, open, found>>

\* StopPlayback, from the load button: SetProgress(0), and the file is closed.
StopPlayback ==
  /\ phase # "scanning" /\ mode = "lines"
  /\ open' = FALSE /\ pos' = 0
  /\ current' = IF Invalid \in {first, last} THEN current ELSE first
  /\ UNCHANGED <<file, mode, phase, parser, found>>

\* The parser when a seek in a raw file comes to line n: it starts as the lines
\* before have left it, and with the second line.  Of the dates it passes the
\* last one stays.
ParserAt(n) ==
  LET dating == {m \in 2..(n - 1) : Dates(parser, Lines[m])}
  IN  IF dating = {} THEN parser ELSE DayCached(parser, Lines[Max(dating)])

\* The stamps that a seek looks at, by the number of their lines.
Examined ==
  IF file.csv THEN [n \in DOMAIN Lines |-> Lines[n].stamp]
  ELSE [n \in 2..Len(Lines) |-> StampOf(ParserAt(n), Lines[n])]

\* The line with the stamp that was sought has been read.
SeekTo(target) ==
  LET after == {n \in DOMAIN Examined : Examined[n] >= target}
  IN  /\ pos' = IF after = {} THEN Len(Lines) ELSE Min(after)
      /\ current' = IF after = {} THEN current ELSE Examined[pos']
      /\ parser' = IF file.csv THEN parser ELSE ParserAt(pos' + 1)

\* Among the lines between the first and the last stamp, or anywhere in a file
\* without stamps.  Seeking is modelled in a file that has been scanned.
SeekToFraction ==
  /\ phase = "loaded" /\ open
  /\ IF HasValidTimestamps THEN \E target \in first..last : SeekTo(target)
     ELSE /\ pos' \in (IF file.csv THEN 0 ELSE 1)..Len(Lines)
          /\ UNCHANGED <<parser, current>>
  /\ UNCHANGED <<file, mode, phase, open, found>>

SetReplayMode ==
  /\ phase # "scanning"
  /\ mode' = IF mode = "lines" THEN "loopback" ELSE "lines"
  /\ UNCHANGED <<file, phase, open, pos, parser, current, found>>

\* The file of the last session is known from the configuration, but the panel
\* that would load it was built before.
Init ==
  /\ file \in Former /\ mode \in {"lines", "loopback"}
  /\ phase = "stale" /\ open = FALSE /\ pos = 0
  /\ parser = Fresh
  /\ sources = <<>> /\ valid = FALSE /\ stamped = FALSE /\ primary = None
  /\ first = Invalid /\ last = Invalid /\ current = Invalid
  /\ failed = FALSE

Next ==
  \/ OnLoadButton
  \/ ScanSentence
  \/ ScanRow
  \/ ScanEnds
  \/ StartPlayback
  \/ Notify
  \/ StopPlayback
  \/ SeekToFraction
  \/ SetReplayMode

Spec == Init /\ [][Next]_vars

-----------------------------------------------------------------------------
(* What a scan is to find, defined from the file alone.                    *)

Timed(l) == l.form /\ l.kind # Other /\ l.time # NoTime

\* The sentences that give a date.
Dating == {n \in DOMAIN Lines : Timed(Lines[n]) /\ Lines[n].kind \in Dated /\ Lines[n].day # NoDay}

\* The date of a sentence: its own, or that of the last one that gave a date.
DateAt(n) ==
  LET before == {m \in Dating : m < n}
  IN  IF Lines[n].kind \in Dated THEN Lines[n].day
      ELSE IF before = {} THEN 0 ELSE Lines[Max(before)].day

StampAt(n) ==
  IF Timed(Lines[n]) /\ DateAt(n) \in Days
  THEN DateAt(n) * DayLength + Lines[n].time ELSE Invalid

StampedBy(s) == {n \in DOMAIN Lines : StampAt(n) # Invalid /\ Source(Lines[n]) = s}

StampedSources == {Source(Lines[n]) : n \in {m \in DOMAIN Lines : StampAt(m) # Invalid}}

Sorted(s) == \A m, n \in StampedBy(s) : m < n => StampAt(m) <= StampAt(n)

Rows == {n \in DOMAIN Lines : Lines[n].stamp \notin {Invalid, Unreadable}}

-----------------------------------------------------------------------------
(* Safety.                                                                 *)

\* The scan of a CSV file fails exactly if its rows are out of order, and else
\* finds the earliest and the latest stamp.
FoundInRows ==
  /\ failed <=> \E m, n \in Rows : m < n /\ Lines[m].stamp > Lines[n].stamp
  /\ stamped <=> ~failed /\ Rows # {}
  /\ stamped => /\ first = Min({Lines[n].stamp : n \in Rows})
                /\ last = Max({Lines[n].stamp : n \in Rows})

\* The scan of raw sentences finds a source of the best score among those whose
\* stamps are in order throughout the file, if there is one, with its earliest
\* and latest stamp.
FoundInSentences ==
  LET sorted == {s \in StampedSources : Sorted(s)}
  IN  /\ stamped <=> StampedSources # {}
      /\ primary = None <=> sorted = {}
      /\ primary # None =>
           /\ primary \in sorted
           /\ \A s \in sorted : Score(s) <= Score(primary)
           /\ first = Min({StampAt(n) : n \in StampedBy(primary)})
           /\ last = Max({StampAt(n) : n \in StampedBy(primary)})

\* What a scan has found is what the file says.  Neither the file before, whose
\* date, filter and stamps the parser and the manager had, nor a sentence that
\* is refused has any part in it.
FoundByScan ==
  phase = "loaded" => IF file.csv THEN FoundInRows ELSE FoundInSentences

\* Playback reads from the sentences that the scan has accepted the stamps of
\* the primary source, and the stamps that the scan saw.  A source without dates
\* is played with the last date of the file: its stamps may come out a day late,
\* but where the dates of the file do not go back none is lost and none is early.
PlaysAsScanned ==
  phase = "loaded" /\ ~file.csv /\ primary # None =>
    IF primary[1] \in Dated
    THEN \A n \in DOMAIN Lines :
           Lines[n].form =>
             StampOf(parser, Lines[n]) = IF n \in StampedBy(primary) THEN StampAt(n) ELSE Invalid
    ELSE (\A m, n \in Dating : Lines[n].day \in Days /\ (m < n => Lines[m].day <= Lines[n].day))
         => \A n \in StampedBy(primary) : StampOf(parser, Lines[n]) >= StampAt(n)

\* A file with nothing in it that only playback reads: rows without stamp, and
\* sentences that the scan refuses; nor a primary source without dates.
Regular ==
  /\ phase = "loaded" /\ ~failed
  /\ IF file.csv THEN \A n \in DOMAIN Lines : Lines[n].stamp # Invalid
     ELSE primary # None /\ primary[1] \in Dated /\ \A n \in DOMAIN Lines : Lines[n].form

\* Once playback has read a stamp, the current stamp never goes back until the
\* next start, which reads from the first line but keeps the stamp it had, and
\* never beyond the last one, so that the progress is between 0 and 1.
ForwardOnly ==
  [][(/\ Regular /\ pos' = pos + 1
      /\ \E n \in IF file.csv THEN Rows ELSE StampedBy(primary) : n <= pos)
     => current <= current' /\ current' <= last]_vars

=============================================================================

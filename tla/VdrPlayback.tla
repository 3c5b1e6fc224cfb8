---------------------------- MODULE VdrPlayback ----------------------------
(***************************************************************************)
(* The playback half of RecordPlayMgr (src/src/record_play_mgr.cpp) with   *)
(* the panel that drives it (src/src/vdr_pi_control.cpp), for the replay   *)
(* modes that read the file line by line: kInternalApi and kNetwork.       *)
(*                                                                         *)
(* A file is a sequence of lines.  A line is either a time stamp of the    *)
(* file's time source or NoStamp, a sentence that carries none; lines that *)
(* the reader skips (blank lines, comments, rows of a CSV file that do not *)
(* parse) are not modelled.  Stamps and the clock are in ticks, of which a *)
(* second has several: a recorder writes milliseconds, SetProgress cuts the*)
(* current stamp to whole seconds after the first one.                     *)
(*                                                                         *)
(* The wall clock enters through m_playback_base_time only, so it is       *)
(* modelled by the difference of the two: clock is the time since the base *)
(* time.  It is read while a file with valid stamps is playing, and stops  *)
(* growing at Horizon.  Everything runs on the GUI thread, so each handler *)
(* is one action; the one-shot timer may fire late.                        *)
(***************************************************************************)
EXTENDS Integers, Sequences, FiniteSets

CONSTANTS
  Files,          \* the files that can be loaded
  Lines,          \* Lines[f] is the sequence of lines of f
  Modes,          \* the replay modes the preferences allow
  Speeds,         \* positions of the speed slider
  Batch,          \* kBaseMessagesPerBatch
  BatchInterval,  \* kBaseIntervalMs, in ticks
  Second,         \* a second, in ticks
  MaxBuffer,      \* kMaxBufferSize
  Horizon         \* bound of clock, not below any stamp

NoStamp == -1
NoFile == "none"   \* m_input_file is empty
Idle == -1         \* m_timer is not running
Slowest == 1       \* the speed slider's first position

ASSUME PlaybackAssumption ==
  /\ Horizon \in Nat
  /\ NoFile \notin Files
  /\ Lines \in [Files -> Seq(0..Horizon \union {NoStamp})]
  /\ Modes \subseteq {"internal", "network"} /\ Modes # {}
  /\ Speeds \subseteq Nat \ {0} /\ Slowest \in Speeds
  /\ Batch \in Nat \ {0} /\ BatchInterval \in Nat \ {0} /\ Second \in Nat \ {0}
  /\ MaxBuffer \in Nat /\ MaxBuffer >= Batch

VARIABLES
  file,      \* m_input_file
  scanned,   \* ScanFileTimestamps has looked at file
  open,      \* m_istream is open on file
  pos,       \* lines of file that were read, m_istream's current line
  playing,   \* m_playing
  atEnd,     \* m_at_file_end
  current,   \* m_current_timestamp, where file has valid stamps
  clock,     \* time since m_playback_base_time
  wait,      \* time until the timer may fire, or Idle
  buffer,    \* m_sentence_buffer
  mode,      \* m_protocols.replay_mode
  speed,     \* the speed slider
  shown,     \* the panel is shown
  pushed,    \* history: what the last step passed to PushNMEABuffer
  read       \* history: the number of lines the last step read

reading == <<file, scanned, open, pos, playing, atEnd, current, clock, wait, buffer>>
vars == <<reading, mode, speed, shown, pushed, read>>

\* The n-th line of a file, as a sentence.
Sentences == UNION {{<<f, n>> : n \in 1..Len(Lines[f])} : f \in Files}

\* Queues of at most k sentences.
Buffers(k) == {queue \in Seq(Sentences) : Len(queue) <= k}

TypeOK ==
  /\ file \in Files \union {NoFile}
  /\ scanned \in BOOLEAN
  /\ open \in BOOLEAN /\ (open => file # NoFile)
  /\ pos \in Nat /\ (file # NoFile => pos <= Len(Lines[file]))
  /\ playing \in BOOLEAN /\ (playing => file # NoFile)
  /\ atEnd \in BOOLEAN
  /\ current \in 0..Horizon
  /\ clock \in 0..Horizon
  /\ wait \in Nat \union {Idle}
  /\ buffer \in Buffers(MaxBuffer)
  /\ mode \in Modes
  /\ speed \in Speeds
  /\ shown \in BOOLEAN
  /\ pushed \in Buffers(MaxBuffer + 1)
  /\ read \in Nat

-----------------------------------------------------------------------------
(* What ScanFileTimestamps finds, and the schedule.                        *)

Stamped(f) == {n \in 1..Len(Lines[f]) : Lines[f][n] # NoStamp}

\* There are stamps, and none is before an earlier one.
Chronological(f) ==
  /\ Stamped(f) # {}
  /\ \A m, n \in Stamped(f) : m < n => Lines[f][m] <= Lines[f][n]

\* HasValidTimestamps
Timed == scanned /\ file # NoFile /\ Chronological(file)

FirstStamp(f) == Lines[f][CHOOSE n \in Stamped(f) : \A m \in Stamped(f) : n <= m]

\* The time after the base time at which a stamp of f is due at speed s.
Scaled(f, stamp, s) == (stamp - FirstStamp(f)) \div s

GetSpeedMultiplier == speed

\* GetNextPlaybackTime for line n.
Target(n) == Scaled(file, Lines[file][n], GetSpeedMultiplier)

\* AdjustPlaybackBaseTime: the current stamp is due now.
Adjusted(s) == IF Timed THEN Scaled(file, current, s) ELSE clock

-----------------------------------------------------------------------------
(* Notify: read lines until the schedule is caught up with or the file ends.*)

\* Line n is not due at k: the reader is no longer behind schedule.
Ahead(n, k) == Timed /\ n \in Stamped(file) /\ Target(n) > k

\* A fault: the batch is one sentence too long.
FilledLate(n, p) ==
  /\ ~Timed /\ n \notin Stamped(file)
  /\ Len(buffer) + (IF mode = "internal" THEN n - p ELSE 0) > Batch

\* A file without valid stamps: with line n the batch begun at line p is full.
\* Only kInternalApi buffers sentences.
Filled(n, p) ==
  /\ ~Timed /\ n \notin Stamped(file)
  /\ Len(buffer) + (IF mode = "internal" THEN n - p ELSE 0) >= Batch

\* A fault: nothing is dropped from a full buffer.
NewestAll(k, queue) == queue

\* The last k of a queue of sentences: the oldest are dropped.
Newest(k, queue) ==
  IF Len(queue) <= k THEN queue
  ELSE SubSeq(queue, Len(queue) - k + 1, Len(queue))

\* The buffer with the sentences of lines p + 1 to n behind it.
Queue(p, n) ==
  buffer \o (IF mode = "internal" THEN [i \in 1..(n - p) |-> <<file, p + i>>]
                                  ELSE <<>>)

ReadTo(p, n) == pos' = n /\ read' = n - p

\* m_current_timestamp as the lines p + 1 to n leave it.
LastStamp(p, n) ==
  LET stamped == {i \in Stamped(file) : p < i /\ i <= n}
  IN  IF stamped = {} \/ ~Timed THEN current
      ELSE Lines[file][CHOOSE i \in stamped : \A j \in stamped : j <= i]

\* SetProgress: the current stamp is set again, to a whole number of seconds
\* after the first one.
SetProgress(stamp) ==
  IF Timed THEN stamp - ((stamp - FirstStamp(file)) % Second) ELSE stamp

\* A fault: the sentences wait with the reader.
PlayUpToUnflushed(n, p, k) ==
  /\ ReadTo(p, n) /\ current' = SetProgress(LastStamp(p, n))
  /\ buffer' = Newest(MaxBuffer, Queue(p, n))
  /\ pushed' = <<>>
  /\ playing' = TRUE /\ atEnd' = FALSE
  /\ wait' = IF Ahead(n, k) THEN Target(n) - k ELSE BatchInterval \div GetSpeedMultiplier

\* Reading stops at line n: everything buffered is pushed and the timer starts.
PlayUpTo(n, p, k) ==
  /\ ReadTo(p, n) /\ current' = SetProgress(LastStamp(p, n))
  /\ buffer' = <<>>
  /\ pushed' = Newest(MaxBuffer + 1, Queue(p, n))
  /\ playing' = TRUE /\ atEnd' = FALSE
  /\ wait' = IF Ahead(n, k) THEN Target(n) - k ELSE BatchInterval \div GetSpeedMultiplier

\* No line stops the reader: the file ends, what is buffered stays there and
\* the progress is not set.
PlayOut(p) ==
  /\ ReadTo(p, Len(Lines[file])) /\ current' = LastStamp(p, Len(Lines[file]))
  /\ buffer' = Newest(MaxBuffer, Queue(p, Len(Lines[file])))
  /\ pushed' = <<>>
  /\ playing' = FALSE /\ atEnd' = TRUE
  /\ wait' = Idle

\* A fault: every call reads from the first line.
NotifyFromStart(p, k) ==
  LET stops == {n \in 1..Len(Lines[file]) : Ahead(n, k) \/ Filled(n, 0)}
  IN  IF stops = {} THEN PlayOut(0)
      ELSE PlayUpTo(CHOOSE n \in stops : \A m \in stops : n <= m, 0, k)

\* From line p on, at time k since the base time.
Notify(p, k) ==
  LET stops == {n \in p+1..Len(Lines[file]) : Ahead(n, k) \/ Filled(n, p)}
  IN  IF stops = {} THEN PlayOut(p)
      ELSE PlayUpTo(CHOOSE n \in stops : \A m \in stops : n <= m, p, k)

TimerFires ==
  /\ wait = 0
  /\ Notify(pos, clock)
  /\ UNCHANGED <<file, scanned, open, clock, mode, speed, shown>>

-----------------------------------------------------------------------------
(* The panel.  Its buttons can be reached while it is shown.               *)

NothingRead == pushed' = <<>> /\ read' = 0

\* The load button, enabled unless playing, with a file that can be opened.
\* ScanFileTimestamps leaves the file at its start.
LoadFile(f) ==
  /\ shown /\ ~playing
  /\ file' = f /\ scanned' = TRUE /\ open' = TRUE /\ pos' = 0
  /\ atEnd' = FALSE
  /\ current' = IF Chronological(f) THEN FirstStamp(f) ELSE 0
  /\ NothingRead
  /\ UNCHANGED <<playing, clock, wait, buffer, mode, speed, shown>>

\* The file cannot be opened.
LoadFails ==
  /\ shown /\ ~playing
  /\ file' = NoFile /\ scanned' = FALSE /\ open' = FALSE /\ pos' = 0
  /\ atEnd' = FALSE
  /\ NothingRead
  /\ UNCHANGED <<playing, current, clock, wait, buffer, mode, speed, shown>>

\* The play button when nothing plays, also at the end of the file: then
\* StopPlayback is called first, which has nothing to stop.  The base time is
\* adjusted to the current stamp, but the reader goes back to the first line.
\* (SetProgress is called in between, for a stamp that Notify replaces.)
StartPlayback ==
  /\ shown /\ ~playing /\ file # NoFile
  /\ clock' = Adjusted(GetSpeedMultiplier)
  /\ open' = TRUE
  /\ Notify(0, clock')
  /\ UNCHANGED <<file, scanned, mode, speed, shown>>

\* A file that was closed cannot be opened again.
StartFails ==
  /\ shown /\ ~playing /\ file # NoFile /\ ~open
  /\ clock' = Adjusted(GetSpeedMultiplier)
  /\ atEnd' = FALSE
  /\ NothingRead
  /\ UNCHANGED <<file, scanned, open, pos, playing, current, wait, buffer, mode, speed, shown>>

\* A fault: the timer is left running.
PausePlaybackOnly ==
  /\ shown /\ playing
  /\ playing' = FALSE
  /\ NothingRead
  /\ UNCHANGED <<file, scanned, open, pos, atEnd, current, clock, wait, buffer, mode, speed, shown>>

\* The play button during playback.
PausePlayback ==
  /\ shown /\ playing
  /\ playing' = FALSE
  /\ wait' = Idle
  /\ NothingRead
  /\ UNCHANGED <<file, scanned, open, pos, atEnd, current, clock, buffer, mode, speed, shown>>

\* A fault: the base time is kept when the speed changes.
OnSpeedSliderUnadjusted(s) ==
  /\ shown
  /\ speed' = s
  /\ NothingRead
  /\ UNCHANGED <<reading, mode, shown>>

\* A running timer is not restarted.
OnSpeedSliderUpdated(s) ==
  /\ shown
  /\ speed' = s
  /\ clock' = IF playing THEN Adjusted(s) ELSE clock
  /\ NothingRead
  /\ UNCHANGED <<file, scanned, open, pos, playing, atEnd, current, wait, buffer, mode, shown>>

\* The play tool of the toolbar toggles the panel.  Hiding it during playback
\* closes the file, and leaves m_playing as it is.
OnToolbarPlay ==
  /\ shown' = ~shown
  /\ LET halts == shown /\ wait # Idle
     IN  /\ wait' = IF halts THEN Idle ELSE wait
         /\ open' = (open /\ ~halts)
  /\ NothingRead
  /\ UNCHANGED <<file, scanned, pos, playing, atEnd, current, clock, buffer, mode, speed>>

\* The close button of the panel's window hides it, too.
ClosePanel ==
  /\ shown
  /\ shown' = FALSE
  /\ NothingRead
  /\ UNCHANGED <<reading, mode, speed>>

\* The host's preferences dialog can be opened at any time.
SetReplayMode(m) ==
  /\ mode' = m
  /\ NothingRead
  /\ UNCHANGED <<reading, speed, shown>>

-----------------------------------------------------------------------------

Tick ==
  /\ playing
  /\ wait > 0 \/ (Timed /\ clock < Horizon)
  /\ wait' = IF wait > 0 THEN wait - 1 ELSE wait
  /\ clock' = IF Timed /\ clock < Horizon THEN clock + 1 ELSE clock
  /\ NothingRead
  /\ UNCHANGED <<file, scanned, open, pos, playing, atEnd, current, buffer, mode, speed, shown>>

\* The name of the last file played is read from the configuration, after the
\* panel was built, so nothing scans that file.  m_at_file_end is initialised
\* by LoadFile only.
Init ==
  /\ file \in Files \union {NoFile} /\ scanned = FALSE
  /\ open = FALSE /\ pos = 0
  /\ playing = FALSE /\ atEnd \in BOOLEAN
  /\ current = 0 /\ clock = 0 /\ wait = Idle
  /\ buffer = <<>>
  /\ mode \in Modes
  /\ speed = Slowest
  /\ shown = TRUE
  /\ pushed = <<>> /\ read = 0

Next ==
  \/ TimerFires
  \/ \E f \in Files : LoadFile(f)
  \/ LoadFails
  \/ StartPlayback
  \/ StartFails
  \/ PausePlayback
  \/ \E s \in Speeds : OnSpeedSliderUpdated(s)
  \/ OnToolbarPlay
  \/ ClosePanel
  \/ \E m \in Modes : SetReplayMode(m)
  \/ Tick

Spec == Init /\ [][Next]_vars

\* Time passes, and an expired timer is served by the event loop.
Fairness == WF_vars(Tick) /\ WF_vars(TimerFires)

FairSpec == Spec /\ Fairness

-----------------------------------------------------------------------------
(* Safety and liveness.                                                    *)

\* The timer runs exactly while a file is being played: pausing, hiding and
\* the end of the file leave no timer behind, and playback of an open file
\* never waits for a timer that nobody started.
TimerRunsWhilePlaying == (playing /\ open) <=> wait # Idle

\* While the reader waits, every sentence it has read has been pushed.
NothingWithheld == wait # Idle => buffer = <<>>

\* The time at which line n would be due if its stamp were less than a second
\* earlier.
Earliest(n) == Scaled(file, Lines[file][n] - (Second - 1), GetSpeedMultiplier)

\* Playback is never ahead of its schedule by more than the sentence it waits
\* for and what SetProgress cuts from a stamp, less than a second of the file:
\* whatever was paused, restarted or done to the speed before, and however
\* often, what was cut does not add up.
NeverFarAhead ==
  playing /\ Timed =>
    \A n \in Stamped(file) : n < pos => Earliest(n) <= clock

\* A file without any stamp that is pushed to the host is played at the base
\* rate: no step of the reader takes more than a batch, whatever an earlier
\* file, a pause or a change of mode has left in the buffer.
BaseRate ==
  file # NoFile /\ mode = "internal" /\ Stamped(file) = {} => read <= Batch

Unattended == Tick \/ TimerFires

\* A playback that is left alone comes to its end.
UnattendedPlaybackEnds == <>[][Unattended]_vars => <>[](wait = Idle)

-----------------------------------------------------------------------------
(* What the documentation, comments and tests say of playback.             *)

\* "Pause/resume functionality": a start that is not a restart reads on from
\* where the reader was.  Fails: every start goes to the first line.
ResumeContinues ==
  [][~playing /\ ~atEnd /\ read' > 0 => pos' = pos + read']_vars

=============================================================================

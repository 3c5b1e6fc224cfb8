------------------------------ MODULE DmReplay ------------------------------
(***************************************************************************)
(* Replay through the loopback driver: DataMonitorReplayMgr                *)
(* (src/src/dm_replay_mgr.cpp), the timer of RecordPlayMgr that drives it  *)
(* (src/src/record_play_mgr.cpp) and the panel's buttons, for the replay   *)
(* mode kLoopback.                                                         *)
(*                                                                         *)
(* A replay manager reads one log file.  RecordPlayMgr replaces it when a  *)
(* file is loaded and when playback is started afresh; the one-shot timer  *)
(* is not the manager's and survives that.  A row of a log is its time     *)
(* stamp, or Undated, or Unreadable, or TooLong.  Stamps and the clock are *)
(* in ticks.  The clock enters through the time since start_time only,     *)
(* which stops growing at Horizon.  Everything runs on the GUI thread.     *)
(***************************************************************************)
EXTENDS Integers, Sequences

CONSTANTS
  Files,         \* the log files
  Headed,        \* those that begin with the header of Data Monitor
  Rows,          \* Rows[f] is the sequence of rows of f
  Created,       \* Created[f]: the time that the comments at the head of f give,
                 \* for the files that give one
  DefaultDelay,  \* kDefaultDelay, in ticks
  Horizon        \* bound of the time since start_time, not below any stamp

Undated == -2      \* received_at is not a number
Unreadable == -1   \* the CSV reader throws, having passed the row
TooLong == -3      \* longer than a block of the reader, which throws and stays at it
NoStamp == 0       \* kEpoch: there is no stamp yet
NotStarted == -1   \* start_time is kEpoch
NoFile == "none"   \* m_input_file is empty
Idle == -1         \* m_timer is not running
NoTime == -1       \* the panel shows no date and time
NoDelay == -1      \* Notify has nothing more to send

ASSUME ReplayAssumption ==
  /\ Horizon \in Nat /\ DefaultDelay \in Nat
  /\ NoFile \notin Files
  /\ Headed \subseteq Files
  /\ Rows \in [Files -> Seq(1..Horizon \union {Undated, Unreadable, TooLong})]
  /\ DOMAIN Created \subseteq Files
  /\ \A f \in DOMAIN Created : Created[f] \in 0..Horizon

VARIABLES
  file,      \* m_input_file
  mgr,       \* m_dm_replay_mgr
  wait,      \* time until m_timer may fire, or Idle
  shown,     \* the panel is shown
  canLoad,   \* the load button is enabled
  canPlay,   \* the play button is enabled
  clock,     \* the date and time that the panel shows
  asked,     \* history: playback of the file was started by the user
  halted     \* history: the timer was stopped under a replay in progress

vars == <<file, mgr, wait, shown, canLoad, canPlay, clock, asked, halted>>

States == {"notInited", "idle", "playing", "paused", "eof", "error", "noDriver"}

Managers ==
  [ state : States,                           \* m_state
    file : Files \union {NoFile},             \* the log it reads
    row : Nat,                                \* rows it has read
    first : 0..Horizon,                       \* m_log.first_stamp
    curr : 0..Horizon,                        \* m_log.curr_stamp
    age : 0..Horizon \union {NotStarted} ]    \* time since m_log.start_time

IsPlaying(m) == m.state = "playing"

\* Notify reads on.
Active(m) == m.state \in {"playing", "idle"}

Length(m) == Len(Rows[m.file])

TypeOK ==
  /\ file \in Files \union {NoFile}
  /\ mgr \in Managers
  /\ mgr.file # NoFile => mgr.row <= Length(mgr)
  /\ wait \in Nat \union {Idle}
  /\ shown \in BOOLEAN
  /\ canLoad \in BOOLEAN /\ canPlay \in BOOLEAN
  /\ clock \in 0..Horizon \union {NoTime}
  /\ asked \in BOOLEAN /\ halted \in BOOLEAN

-----------------------------------------------------------------------------
(* DataMonitorReplayMgr, on a manager m.                                   *)

\* The manager constructed with no path.
Dormant ==
  [ state |-> "notInited", file |-> NoFile, row |-> 0, first |-> NoStamp,
    curr |-> NoStamp, age |-> NotStarted ]

\* The stamp that Log::Log takes from the line "Created at:" (ParseTimeStamp).
CreatedAt(f) == IF f \in DOMAIN Created THEN Created[f] ELSE NoStamp

\* Whether the host is found to have a loopback driver.
GetLoopbackDriver == BOOLEAN

\* The manager constructed for the log f; driver tells if a loopback driver
\* is found.
Manager(f, driver) ==
  [ state |-> IF f \notin Headed THEN "error"
              ELSE IF driver THEN "idle" ELSE "noDriver",
    file |-> f, row |-> 0, first |-> NoStamp, curr |-> CreatedAt(f), age |-> NotStarted ]

\* The row that is read next.
NextRow(m) == Rows[m.file][m.row + 1]

\* The time since start_time at which the last row that was read is due.
Due(m) == Rows[m.file][m.row] - m.first

\* A fault: a delay that has passed is not taken for zero.
ComputeDelayLate(m) ==
  IF Rows[m.file][m.row] = Undated THEN DefaultDelay ELSE Due(m) - m.age

\* ComputeDelay for the last row that was read.
ComputeDelay(m) ==
  CASE Rows[m.file][m.row] = Undated -> DefaultDelay
    [] Rows[m.file][m.row] # Undated /\ Due(m) > m.age -> Due(m) - m.age
    [] OTHER -> 0

\* The manager after sending a row.
Sent(m) ==
  [m EXCEPT !.state = "playing", !.row = @ + 1,
            !.age = IF @ = NotStarted THEN 0 ELSE @,
            !.first = IF @ = NoStamp /\ NextRow(m) # Undated THEN NextRow(m)
                      ELSE @,
            !.curr = IF NextRow(m) # Undated THEN NextRow(m) ELSE @]

\* Notify reads on, but the row is longer than the reader's block: next_line
\* throws before it has passed the row, and does so again in every later call.
Jammed(m) == Active(m) /\ m.row < Length(m) /\ NextRow(m) = TooLong

\* The row is passed, and is none.
Skips(m) == Active(m) /\ m.row < Length(m) /\ NextRow(m) = Unreadable

\* The manager after Notify.
Notified(m) ==
  CASE ~Active(m) \/ Jammed(m) -> m
    [] Active(m) /\ m.row = Length(m) -> [m EXCEPT !.state = "eof"]
    [] Skips(m) -> [m EXCEPT !.row = @ + 1]
    [] OTHER -> Sent(m)

\* A fault: a manager that has nothing to send asks to be called again.
DelayEndless(m) ==
  IF ~Active(m) \/ m.row = Length(m) \/ Skips(m) \/ Jammed(m) THEN 0
  ELSE ComputeDelay(Sent(m))

\* What Notify returns.
Delay(m) ==
  CASE ~Active(m) \/ m.row = Length(m) -> NoDelay
    [] Skips(m) \/ Jammed(m) -> 0
    [] OTHER -> ComputeDelay(Sent(m))

\* Start, which notifies once and disregards the delay.
Started(m) ==
  Notified([m EXCEPT !.state = IF @ \in {"paused", "idle"} THEN "playing" ELSE @])

\* Pause
Paused(m) == [m EXCEPT !.state = IF @ = "playing" THEN "paused" ELSE @]

-----------------------------------------------------------------------------
(* RecordPlayMgr and its timer.                                            *)

\* GetCurrentTimestamp, which in this mode is that of the manager m.
GetCurrentTimestamp(m) == m.curr

\* The panel's buttons, and its clock, show the state reached.
UpdateControls ==
  /\ canLoad' = ~IsPlaying(mgr')
  /\ canPlay' = (file' # NoFile)
  /\ clock' = IF file' # NoFile THEN GetCurrentTimestamp(mgr') ELSE NoTime

\* A fault: the panel is not told of the end of the log.
TimerFiresUntold ==
  /\ wait = 0
  /\ mgr' = Notified(mgr)
  /\ wait' = IF Delay(mgr) # NoDelay THEN Delay(mgr) ELSE Idle
  /\ UNCHANGED <<file, shown, canLoad, canPlay, clock, asked, halted>>

\* RecordPlayMgr's Notify.  At the end of the log the panel is updated.
TimerFires ==
  /\ wait = 0
  /\ mgr' = Notified(mgr)
  /\ wait' = IF Delay(mgr) # NoDelay THEN Delay(mgr) ELSE Idle
  /\ UNCHANGED <<file, shown, asked, halted>>
  /\ IF mgr'.state = "eof" /\ mgr.state # "eof" THEN UpdateControls
     ELSE UNCHANGED <<canLoad, canPlay, clock>>

\* The load button.  RecordPlayMgr's StopPlayback, called first if the replay
\* is in progress, returns at once: m_playing is of the other replay modes.
LoadFile(f, driver) ==
  /\ shown /\ canLoad
  /\ file' = f
  /\ mgr' = Manager(f, driver)
  /\ asked' = FALSE /\ halted' = FALSE
  /\ UNCHANGED <<wait, shown>>
  /\ UpdateControls

ClearInputFile == file' = NoFile

\* The text file cannot be opened; the replay manager was created by then.
LoadFails(f, driver) ==
  /\ shown /\ canLoad
  /\ ClearInputFile
  /\ mgr' = Manager(f, driver)
  /\ asked' = FALSE /\ halted' = FALSE
  /\ UNCHANGED <<wait, shown>>
  /\ UpdateControls

\* A fault: a timer that runs is not started again.
StartPlaybackPending(driver) ==
  /\ shown /\ canPlay /\ ~IsPlaying(mgr) /\ file # NoFile
  /\ LET m == IF mgr.state = "paused" THEN mgr ELSE Manager(file, driver)
     IN  /\ mgr' = Notified(Started(m))
         /\ wait' = IF Delay(Started(m)) # NoDelay /\ wait = Idle
                    THEN Delay(Started(m)) ELSE wait
  /\ asked' = TRUE /\ halted' = FALSE
  /\ UNCHANGED <<file, shown>>
  /\ UpdateControls

\* The play button when nothing plays: Start, then RecordPlayMgr's Notify.
\* Unless a replay is resumed the log is opened anew.
StartPlayback(driver) ==
  /\ shown /\ canPlay /\ ~IsPlaying(mgr) /\ file # NoFile
  /\ LET m == IF mgr.state = "paused" THEN mgr ELSE Manager(file, driver)
     IN  /\ mgr' = Notified(Started(m))
         /\ wait' = IF Delay(Started(m)) # NoDelay THEN Delay(Started(m)) ELSE wait
  /\ asked' = TRUE /\ halted' = FALSE
  /\ UNCHANGED <<file, shown>>
  /\ UpdateControls

\* The file is no longer there.
StartFails ==
  /\ shown /\ canPlay /\ ~IsPlaying(mgr) /\ file # NoFile
  /\ UNCHANGED <<file, mgr, wait, shown, asked, halted>>
  /\ UpdateControls

\* The play button during a replay.  The timer keeps running.
PausePlayback ==
  /\ shown /\ canPlay /\ IsPlaying(mgr)
  /\ mgr' = Paused(mgr)
  /\ UNCHANGED <<file, wait, shown, asked, halted>>
  /\ UpdateControls

\* The play tool of the toolbar toggles the panel; hiding it stops the timer.
OnToolbarPlay ==
  /\ shown' = ~shown
  /\ wait' = IF shown THEN Idle ELSE wait
  /\ halted' = (halted \/ (shown /\ wait # Idle))
  /\ UNCHANGED <<file, mgr, canLoad, canPlay, clock, asked>>

\* The close button of the panel's window.
ClosePanel ==
  /\ shown
  /\ shown' = FALSE
  /\ UNCHANGED <<file, mgr, wait, canLoad, canPlay, clock, asked, halted>>

\* OK in the preferences dialog, with the replay mode left as it is.
ShowPreferencesDialog ==
  /\ UNCHANGED <<file, mgr, wait, shown, asked, halted>>
  /\ UpdateControls

-----------------------------------------------------------------------------

Tick ==
  /\ wait > 0 \/ (mgr.age # NotStarted /\ mgr.age < Horizon)
  /\ wait' = IF wait > 0 THEN wait - 1 ELSE wait
  /\ mgr' = [mgr EXCEPT !.age = IF @ # NotStarted /\ @ < Horizon THEN @ + 1 ELSE @]
  /\ UNCHANGED <<file, shown, canLoad, canPlay, clock, asked, halted>>

\* The panel was made, and its buttons set, before the configuration with the
\* name of the last file was read.
Init ==
  /\ file \in Files \union {NoFile}
  /\ mgr = Dormant
  /\ wait = Idle
  /\ shown = TRUE
  /\ canLoad = TRUE /\ canPlay = FALSE /\ clock = NoTime
  /\ asked = FALSE /\ halted = FALSE

Next ==
  \/ TimerFires
  \/ \E f \in Files, driver \in GetLoopbackDriver : LoadFile(f, driver) \/ LoadFails(f, driver)
  \/ \E driver \in GetLoopbackDriver : StartPlayback(driver)
  \/ StartFails
  \/ PausePlayback
  \/ OnToolbarPlay
  \/ ClosePanel
  \/ ShowPreferencesDialog
  \/ Tick

Spec == Init /\ [][Next]_vars

\* Time passes, and an expired timer is served by the event loop.
Fairness == WF_vars(Tick) /\ WF_vars(TimerFires)

FairSpec == Spec /\ Fairness

-----------------------------------------------------------------------------
(* Safety and liveness.                                                    *)

\* A replay in progress has a timer that will continue it, unless the panel
\* was hidden under it: one timer serves all managers, and neither a pause,
\* a new file, a row that cannot be read nor the end of a log may leave a
\* replay that is in progress without it.
ReplayHasTimer == IsPlaying(mgr) /\ ~halted => wait # Idle

\* The timer that runs during a replay is that of the last row sent: it fires
\* when the row is due, never that of a row before a pause or of another log.
\* At a row that is too long it fires at once.
OnSchedule ==
  IsPlaying(mgr) /\ wait # Idle /\ mgr.row > 0 /\ ~Jammed(mgr) =>
    (Rows[mgr.file][mgr.row] > 0
       => wait = IF Due(mgr) > mgr.age THEN Due(mgr) - mgr.age ELSE 0)

\* The load button is enabled exactly if no replay that the user has started
\* is in progress: what reads a log is never replaced under the user, and the
\* panel notices the end of the log.  While such a replay stands still the
\* panel shows the stamp of the last dated row that was sent, although it is
\* not told of the rows one by one.
ButtonsTell ==
  asked =>
    /\ canLoad <=> ~IsPlaying(mgr)
    /\ ~IsPlaying(mgr) => clock = GetCurrentTimestamp(mgr)

Unattended == Tick \/ TimerFires

\* A replay that is left alone comes to its end, also over rows that cannot
\* be read and that ask to be called again at once.  The one thing that keeps
\* it from the end is a row that is too long: the replay calls for it for ever.
UnattendedReplayEnds ==
  <>[][Unattended]_vars =>
    <>[](wait = Idle /\ (IsPlaying(mgr) => halted)) \/ <>[](wait = 0 /\ Jammed(mgr))

=============================================================================

---------------------------- MODULE VdrRecorder ----------------------------
(***************************************************************************)
(* The recording half of RecordPlayMgr (src/src/record_play_mgr.cpp).      *)
(*                                                                         *)
(* Everything runs on the GUI thread: NMEA 0183 and NMEA 2000 callbacks,   *)
(* the toolbar, the preferences dialog and the plugin's Init and DeInit    *)
(* each run to completion, so each is one action.  A handler that calls    *)
(* several procedures applies their operators one after the other to the   *)
(* record of recording state.                                              *)
(*                                                                         *)
(* The wall clock is modelled by ages: what the code computes is always    *)
(* the time elapsed since some earlier moment, and it only compares that   *)
(* with a configured interval, so an age stops growing at AgeCap.  One     *)
(* Tick is the resolution of the file names, a second in the code.         *)
(***************************************************************************)
EXTENDS Integers

CONSTANTS
  Speeds,      \* speeds over ground an instrument reports, tenths of a knot
  Prefs,       \* what the user may confirm in the preferences dialog
  Hysteresis,  \* kHysteresis, tenths of a knot
  AgeCap       \* bound of the ages, above every configured interval

Formats == {"csv", "raw"}   \* VdrDataFormat, and the extension it selects
NoFile == "closed"          \* m_ostream is not open
NoAge == -1                 \* an invalid wxDateTime
NoSpeed == -1               \* a sentence that reports no speed

Preferences ==
  [ format : Formats,           \* m_data_format
    rotate : BOOLEAN,           \* m_log_rotate
    rotateAfter : 1..AgeCap,    \* m_log_rotate_interval
    autoStart : BOOLEAN,        \* m_auto_start_recording
    useThreshold : BOOLEAN,     \* m_use_speed_threshold
    threshold : Nat,            \* m_speed_threshold
    stopDelay : 1..AgeCap,      \* m_stop_delay
    nmea0183 : BOOLEAN,         \* m_protocols.nmea0183
    nmea2000 : BOOLEAN,         \* m_protocols.nmea2000
    loopback : BOOLEAN ]        \* m_protocols.replay_mode = kLoopback

ASSUME RecorderAssumption ==
  /\ Speeds \subseteq Nat
  /\ AgeCap \in Nat
  /\ Hysteresis \in Nat
  /\ Prefs \subseteq Preferences

VARIABLES
  loaded,      \* the plugin is between Init and DeInit
  cfg,         \* the settings in force, also the saved configuration
  vdr,         \* the recording state of RecordPlayMgr and of the disk
  playback,    \* m_playing and the loopback manager's IsPlaying()
  timer,       \* m_timer->IsRunning()
  standDown,   \* history: stopped by hand, no restart nor slow report since
  out          \* history: what the last step did with the sentence it got

vars == <<loaded, cfg, vdr, playback, timer, standDown, out>>

Ages == 0..AgeCap

RecorderStates ==
  [ recording : BOOLEAN,                  \* m_recording
    paused : BOOLEAN,                     \* m_recording_paused
    manual : BOOLEAN,                     \* m_recording_manually_disabled
    file : Formats \union {NoFile},       \* the file m_ostream is open on
    fileAge : Ages,                       \* time since that file was created
    startAge : Ages,                      \* time since m_recording_start
    belowAge : Ages \union {NoAge},       \* time since m_below_threshold_since
    fresh : SUBSET Formats,               \* files named after this very second
                                          \* that hold a sentence
    erased : BOOLEAN ]                    \* history: this very second one of
                                          \* them was emptied

Outcomes == {"none", "ignored", "stored", "lost"}

TypeOK ==
  /\ loaded \in BOOLEAN
  /\ cfg \in Prefs
  /\ vdr \in RecorderStates
  /\ playback \in [network : BOOLEAN, loopback : BOOLEAN]
  /\ timer \in BOOLEAN
  /\ standDown \in BOOLEAN
  /\ out \in Outcomes

\* A RecordPlayMgr just constructed, over a disk that holds files d.
NewManager(d) ==
  [ recording |-> FALSE, paused |-> FALSE, manual |-> FALSE, file |-> NoFile,
    fileAge |-> 0, startAge |-> 0, belowAge |-> NoAge, fresh |-> d,
    erased |-> FALSE ]

NoPlayback == [network |-> FALSE, loopback |-> FALSE]

-----------------------------------------------------------------------------
(* The procedures of RecordPlayMgr, on a recording state r.                *)

IsPlaying == IF cfg.loopback THEN playback.loopback ELSE playback.network

Capturing(r) == r.recording /\ ~r.paused

\* A fault: the recording is declared begun before its file is open.
OpenFileTooSure(r, f, opens) ==
  [r EXCEPT !.recording = TRUE, !.file = IF opens THEN f ELSE NoFile,
            !.fileAge = 0, !.startAge = 0]

\* GenerateFilename and opening for writing: an existing file of that name is
\* emptied.  opens is FALSE when the directory or the file cannot be created.
OpenFile(r, f, opens) ==
  IF opens
  THEN [r EXCEPT !.recording = TRUE, !.file = f, !.fileAge = 0,
                 !.startAge = 0, !.fresh = @ \ {f},
                 !.erased = @ \/ f \in r.fresh]
  ELSE r

\* A fault: a replay in progress is not asked about.
StartRecordingAnyway(r, f, opens) ==
  CASE Capturing(r) -> r
    [] ~Capturing(r) /\ r.paused ->
         [r EXCEPT !.recording = TRUE, !.paused = FALSE]
    [] OTHER -> OpenFile(r, f, opens)

StartRecording(r, f, opens) ==
  CASE Capturing(r) \/ IsPlaying -> r
    [] ~Capturing(r) /\ ~IsPlaying /\ r.paused ->
         [r EXCEPT !.recording = TRUE, !.paused = FALSE]
    [] OTHER -> OpenFile(r, f, opens)

StopRecording(r) ==
  IF r.recording
  THEN [r EXCEPT !.recording = FALSE, !.file = NoFile, !.fileAge = 0]
  ELSE r

PauseRecording(r) == IF r.recording THEN [r EXCEPT !.paused = TRUE] ELSE r

ResumeRecording(r) == [r EXCEPT !.paused = FALSE]

\* Two faults: the file is rotated too late, or too early.
CheckLogRotationLate(r, opens) ==
  IF r.recording /\ cfg.rotate /\ r.startAge > cfg.rotateAfter
  THEN StartRecording(StopRecording(r), cfg.format, opens)
  ELSE r

CheckLogRotationEarly(r, opens) ==
  IF r.recording /\ cfg.rotate /\ r.startAge >= cfg.rotateAfter - 1
  THEN StartRecording(StopRecording(r), cfg.format, opens)
  ELSE r

CheckLogRotation(r, opens) ==
  IF r.recording /\ cfg.rotate /\ r.startAge >= cfg.rotateAfter
  THEN StartRecording(StopRecording(r), cfg.format, opens)
  ELSE r

\* A fault: the open file is kept when the format changes.
SetDataFormatInPlace(r, f, opens) == r

SetDataFormat(r, f, opens) ==
  IF f # cfg.format /\ r.recording
  THEN StartRecording(StopRecording(r), f, opens)
  ELSE r

\* The branch of CheckAutoRecording for a speed at or above the threshold.
VesselFast(r, opens) ==
  LET timed == [r EXCEPT !.belowAge = NoAge]
  IN  IF r.recording
      THEN ResumeRecording(timed)
      ELSE StartRecording(timed, cfg.format, opens)

\* A fault: every slow report restarts the delay.
VesselSlowRestarts(r) ==
  IF r.belowAge # NoAge /\ r.belowAge >= cfg.stopDelay
  THEN [PauseRecording(r) EXCEPT !.belowAge = NoAge]
  ELSE [r EXCEPT !.belowAge = 0]

\* The branch for a speed below the hysteresis band, while recording.
VesselSlow(r) ==
  CASE r.belowAge = NoAge -> [r EXCEPT !.belowAge = 0]
    [] r.belowAge # NoAge /\ r.belowAge >= cfg.stopDelay ->
         [PauseRecording(r) EXCEPT !.belowAge = NoAge]
    [] OTHER -> r

AutoRecordingOn == cfg.autoStart /\ cfg.useThreshold /\ ~IsPlaying

\* A fault: any report of a speed ends the stand-down.
CheckAutoRecordingForgets(r, speed, opens) ==
  LET armed == [r EXCEPT !.manual = FALSE]
  IN  CASE speed = NoSpeed \/ ~AutoRecordingOn -> r
        [] speed # NoSpeed /\ AutoRecordingOn /\ speed >= cfg.threshold ->
             VesselFast(armed, opens)
        [] speed # NoSpeed /\ AutoRecordingOn
             /\ speed < cfg.threshold - Hysteresis /\ r.recording ->
             VesselSlow(armed)
        [] OTHER -> armed

CheckAutoRecording(r, speed, opens) ==
  LET armed == [r EXCEPT !.manual = @ /\ speed >= cfg.threshold]
  IN  CASE speed = NoSpeed \/ ~AutoRecordingOn -> r
        [] speed # NoSpeed /\ AutoRecordingOn /\ ~armed.manual
             /\ speed >= cfg.threshold -> VesselFast(armed, opens)
        [] speed # NoSpeed /\ AutoRecordingOn /\ ~armed.manual
             /\ speed < cfg.threshold - Hysteresis /\ r.recording ->
             VesselSlow(armed)
        [] OTHER -> armed

\* Writing a formatted sentence to m_ostream, whether or not it is open.
Write(r) ==
  IF r.file # NoFile /\ r.fileAge = 0
  THEN [r EXCEPT !.fresh = @ \union {r.file}]
  ELSE r

WriteOutcome(r) == IF r.file = NoFile THEN "lost" ELSE "stored"

-----------------------------------------------------------------------------
(* Sentences from the instruments.                                         *)

\* Once a report below the threshold is heard the automation may start again.
Heard(speed) ==
  standDown' = (standDown /\ (speed = NoSpeed \/ speed >= cfg.threshold))

\* A sentence of a protocol that is not recorded: the handler returns at once.
Disregard ==
  /\ out' = "ignored"
  /\ UNCHANGED <<loaded, cfg, vdr, playback, timer, standDown>>

\* The common course of both handlers: speed first, then, if the sentence is
\* to be recorded, rotation and the write.
Record(speed, opens, evenPaused) ==
  LET checked == CheckAutoRecording(vdr, speed, opens)
      rotated == CheckLogRotation(checked, opens)
  IN  /\ IF checked.recording /\ (evenPaused \/ ~checked.paused)
         THEN /\ vdr' = Write(rotated)
              /\ out' = WriteOutcome(rotated)
         ELSE /\ vdr' = checked
              /\ out' = "ignored"
      /\ Heard(speed)
      /\ UNCHANGED <<loaded, cfg, playback, timer>>

\* NMEA 0183 and AIS; an RMC sentence reports a speed.
SetNMEASentence(speed, opens) ==
  /\ loaded
  /\ IF cfg.nmea0183 THEN Record(speed, opens, FALSE) ELSE Disregard

\* NMEA 2000; PGN 129026 reports a speed.  Only m_recording is consulted.
OnN2KEvent(speed, opens) ==
  /\ loaded
  /\ IF cfg.nmea2000 THEN Record(speed, opens, TRUE) ELSE Disregard

-----------------------------------------------------------------------------
(* The user.                                                               *)

ToolbarStop ==
  /\ loaded /\ ~timer /\ vdr.recording
  /\ vdr' = [StopRecording(vdr) EXCEPT !.manual = TRUE]
  /\ standDown' = TRUE
  /\ out' = "none"
  /\ UNCHANGED <<loaded, cfg, playback, timer>>

ToolbarStart(opens) ==
  /\ loaded /\ ~timer /\ ~vdr.recording
  /\ LET started == StartRecording(vdr, cfg.format, opens)
     IN  /\ vdr' = [started EXCEPT !.manual = @ /\ ~started.recording]
         /\ standDown' = (standDown /\ ~started.recording)
  /\ out' = "none"
  /\ UNCHANGED <<loaded, cfg, playback, timer>>

\* OK in the preferences dialog: the format is changed first, under the
\* other settings as they were.
ShowPreferencesDialog(p, opens) ==
  /\ loaded
  /\ vdr' = SetDataFormat(vdr, p.format, opens)
  /\ cfg' = p
  /\ out' = "none"
  /\ UNCHANGED <<loaded, playback, timer, standDown>>

-----------------------------------------------------------------------------
(* The plugin's lifecycle, the clock, and the playback half.               *)

\* Init ends by clearing m_recording, whatever the automatic start did.
LoadPlugin(opens) ==
  /\ ~loaded
  /\ loaded' = TRUE
  /\ LET r == NewManager(vdr.fresh)
         started == IF cfg.autoStart /\ ~cfg.useThreshold
                    THEN StartRecording(r, cfg.format, opens) ELSE r
     IN  vdr' = [started EXCEPT !.recording = FALSE]
  /\ standDown' = FALSE
  /\ out' = "none"
  /\ UNCHANGED <<cfg, playback, timer>>

DeInit ==
  /\ loaded
  /\ loaded' = FALSE
  /\ vdr' = NewManager(vdr.fresh)
  /\ playback' = NoPlayback
  /\ timer' = FALSE
  /\ out' = "none"
  /\ UNCHANGED <<cfg, standDown>>

\* A fault: the elapsed time is computed the wrong way round.
OlderSwapped(age) == age - 1

Older(age) == IF age < AgeCap THEN age + 1 ELSE age

Tick ==
  /\ vdr' = [vdr EXCEPT
       !.fileAge = IF vdr.file = NoFile THEN @ ELSE Older(@),
       !.startAge = Older(@),
       !.belowAge = IF @ = NoAge THEN @ ELSE Older(@),
       !.fresh = {}, !.erased = FALSE]
  /\ out' = "none"
  /\ UNCHANGED <<loaded, cfg, playback, timer, standDown>>

\* The playback half changes its flags as it likes.  StartPlayback does not
\* ask whether a recording is in progress, and m_timer can be idle while
\* IsPlaying() holds, or run while it does not.
PlaybackMoves ==
  /\ loaded
  /\ \/ \E b \in BOOLEAN : playback' = [playback EXCEPT !.network = b]
     \/ \E b \in BOOLEAN : playback' = [playback EXCEPT !.loopback = b]
  /\ timer' \in BOOLEAN
  /\ out' = "none"
  /\ UNCHANGED <<loaded, cfg, vdr, standDown>>

-----------------------------------------------------------------------------

Init ==
  /\ loaded = FALSE
  /\ cfg \in Prefs
  /\ vdr = NewManager({})
  /\ playback = NoPlayback
  /\ timer = FALSE
  /\ standDown = FALSE
  /\ out = "none"

Next ==
  \/ \E s \in Speeds \union {NoSpeed}, opens \in BOOLEAN :
       SetNMEASentence(s, opens) \/ OnN2KEvent(s, opens)
  \/ ToolbarStop
  \/ \E opens \in BOOLEAN : ToolbarStart(opens)
  \/ \E p \in Prefs, opens \in BOOLEAN : ShowPreferencesDialog(p, opens)
  \/ \E opens \in BOOLEAN : LoadPlugin(opens)
  \/ DeInit
  \/ Tick
  \/ PlaybackMoves

Spec == Init /\ [][Next]_vars

\* The clock advances; that reports arrive is a premise of the properties.
Fairness == WF_vars(Tick)

FairSpec == Spec /\ Fairness

-----------------------------------------------------------------------------
(* Safety.                                                                 *)

\* After the user stops a recording with the toolbar button, nothing starts
\* one again before the user does or a speed below the threshold is heard:
\* m_recording_manually_disabled survives reports, format changes, replays
\* and any change of the automation's settings.
ManualStopHonoured == standDown => ~vdr.recording

\* With rotation on, no sentence is written to a file that is older than the
\* rotation interval, however the recording was paused, resumed, restarted
\* or reformatted since the file was created: m_recording_start, which
\* CheckLogRotation looks at, is the birth of the file being written.
RotationBound == out = "stored" /\ cfg.rotate => vdr.fileAge < cfg.rotateAfter

\* A sentence formatted as data_format is only ever written to a file whose
\* extension, hence whose reader, is that of the format, although the format
\* can change while a file is open.
StoredInItsFormat == out = "stored" => vdr.file = cfg.format

\* Rotation empties no file that holds a sentence: files are named after the
\* second, so one rotated within the second of its creation would be
\* truncated by its successor.  While a recording is in progress a sentence
\* never destroys another.
RotationErasesNothing ==
  [][out' # "none" /\ vdr.recording /\ vdr'.erased => vdr.erased]_vars

\* A recording state in which the parts agree when files of format f are
\* written: the open file of a recording has the format and was created at
\* m_recording_start, a file that Init left open without recording cannot be
\* taken for that of a paused recording, and the names of this second's files
\* can only collide with that of a recording just begun.
Sound(r, f) ==
  /\ r.recording /\ r.file # NoFile => r.file = f /\ r.fileAge = r.startAge
  /\ ~r.recording /\ r.file # NoFile => ~r.paused
  /\ r.fresh # {} => r.startAge = 0

\* What makes the properties above inductive.
Consistent ==
  /\ Sound(vdr, cfg.format)
  /\ ~loaded => ~vdr.recording /\ ~vdr.paused /\ vdr.file = NoFile
  /\ loaded /\ standDown => vdr.manual
  /\ vdr.manual => ~vdr.recording
  /\ out = "stored" => /\ vdr.recording /\ vdr.file # NoFile
                       /\ cfg.rotate => vdr.startAge < cfg.rotateAfter

\* While a replay is in progress nothing begins to capture: no report, button
\* or change of format makes the recorder record what is being replayed.
NothingStartsDuringReplay ==
  [][IsPlaying /\ Capturing(vdr)' => Capturing(vdr)]_vars

\* The recorder implements the promises of VdrRecording.
SessionMode ==
  IF ~vdr.recording THEN "off" ELSE IF vdr.paused THEN "paused" ELSE "capturing"

Promise == INSTANCE VdrRecording WITH mode <- SessionMode, playing <- IsPlaying

KeepsPromises == Promise!Spec

-----------------------------------------------------------------------------
(* Liveness, under FairSpec.                                               *)

\* Nothing but time, RMC reports of speeds in S, and other sentences.
Cruising(S) ==
  \/ Tick
  \/ \E s \in S \union {NoSpeed}, opens \in BOOLEAN : SetNMEASentence(s, opens)

\* A report of a speed in S, at a moment when a file could be created.
Reported(S) == \E s \in S : SetNMEASentence(s, TRUE)

SlowSpeeds == {s \in Speeds : s < cfg.threshold - Hysteresis}
FastSpeeds == {s \in Speeds : s >= cfg.threshold}

Watching == loaded /\ cfg.nmea0183 /\ AutoRecordingOn

\* When the vessel stays slow, a recording under the automation is paused (or
\* has ended) in the end, and stays so.
SlowVesselIsPaused ==
  <>[][Cruising(SlowSpeeds)]_vars /\ []<><<Reported(SlowSpeeds)>>_vars
    /\ <>[]Watching => <>[]~Capturing(vdr)

\* A recording without a file, and no rotation to give it one.
LeftWithoutFile == vdr.recording /\ vdr.file = NoFile /\ ~cfg.rotate

\* When the vessel stays fast, and the user did not stop the recording by
\* hand, sentences are stored in a file again and again, even if files cannot
\* always be created: a failed start or rotation is made up for.  Also a
\* recording that was begun without a file gets one by the next rotation; only
\* if nothing is rotated it stays without.
FastVesselIsRecorded ==
  <>[][Cruising(FastSpeeds)]_vars /\ []<><<Reported(FastSpeeds)>>_vars
    /\ <>[](Watching /\ ~vdr.manual)
    => []<>(out = "stored") \/ <>[]LeftWithoutFile

-----------------------------------------------------------------------------
(* What the documentation and comments say of the recorder.                *)

\* "Stop recording VDR data and close the VDR file", "Resume recording using
\* the same VDR file": while recording there is a file to write to.  Holds
\* while no speed threshold is used, and fails otherwise: StopRecording
\* leaves m_recording_paused set, and StartRecording then opens nothing.
RecordingHasFile == vdr.recording => vdr.file # NoFile

=============================================================================

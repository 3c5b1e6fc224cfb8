----------------------------- MODULE VdrSession -----------------------------
(***************************************************************************)
(* A session of the plugin: what VdrPi (src/src/vdr_pi.cpp) loads and      *)
(* unloads, the settings and their configuration (vdr_pi_prefs.cpp and     *)
(* LoadConfig, SaveConfig of record_play_mgr.cpp), and how recording,      *)
(* playback, the toolbar and the panel's buttons, which know of each other *)
(* only through a few flags, get along.                                    *)
(*                                                                         *)
(* VdrRecorder, VdrPlayback and DmReplay model recording and playback in   *)
(* detail, each with the other side fixed.  Here both move, and of each    *)
(* there is only what the other one, the panel or the configuration sees:  *)
(* files have no lines, and time is the choice of what happens next.       *)
(*                                                                         *)
(* Everything runs on the GUI thread.  The file dialog of the load button  *)
(* is modal: while it is open the user does nothing else, but sentences    *)
(* arrive and the timer fires.  OK in the preferences dialog is one step,  *)
(* as nothing else changes the settings it was opened with.                *)
(*                                                                         *)
(* The plugin writes to the host's configuration object, which the host    *)
(* stores when it likes to; a file may vanish from the disk and come back. *)
(***************************************************************************)
CONSTANTS
  Files,   \* the files that can be loaded
  Prefs    \* what the user may confirm in the preferences dialog

NoFile == "none"   \* m_input_file is empty
Loopback == "loopback"
Modes == {"internal", "network", Loopback}   \* ReplayMode

\* auto is m_auto_start_recording with m_use_speed_threshold: the recording
\* starts never, on load, or by speed.
Preferences ==
  [ format : {"csv", "raw"}, auto : {"off", "load", "speed"},
    nmea2000 : BOOLEAN, mode : Modes ]

ASSUME SessionAssumption == NoFile \notin Files /\ Prefs \subseteq Preferences

VARIABLES
  loaded,     \* between Init and DeInit
  prefs,      \* the settings in force
  file,       \* m_input_file
  onDisk,     \* the file of that name; "back": it was gone since playback began
  config,     \* the host's configuration object
  disk,       \* the settings that the host has stored
  unstored,   \* history: settings were confirmed since the host stored them
  lost,       \* history: what the end of the last session may have lost
  rec,        \* m_recording, m_recording_paused, m_recording_manually_disabled
  pb,         \* the state of playback
  listening,  \* m_n2k_listeners is not empty
  shown,      \* the panel is shown
  buttons,    \* the buttons of the panel that are enabled, and its slider
  playButton, \* what its play button offers
  status,     \* its playback status
  label,      \* the file that it names
  toolbar,    \* the tools of the toolbar that are on
  choosing,   \* the file dialog is open
  clashed     \* history: see Exclusive

Tools == {"record", "play"}   \* m_tb_item_id_record, m_tb_item_id_play

host == <<config, disk, unstored, lost>>
panel == <<buttons, playButton, status, label>>
vars == <<loaded, prefs, file, onDisk, host, rec, pb, listening, shown, panel,
          toolbar, choosing, clashed>>

AllButtons == {"load", "play", "settings", "progress"}
Managers == {"none", "idle", "playing", "paused", "eof"}

Recorders == [on : BOOLEAN, paused : BOOLEAN, manual : BOOLEAN]

\* m_playing; m_istream is open; m_at_file_end; m_timer is running; the loopback
\* manager, "none" if it has no log, no driver or a bad log.
Playbacks ==
  [playing : BOOLEAN, opened : BOOLEAN, atEnd : BOOLEAN, timer : BOOLEAN, dm : Managers]

Configurations == [prefs : Prefs, file : Files \union {NoFile}]

TypeOK ==
  /\ loaded \in BOOLEAN
  /\ prefs \in Prefs
  /\ file \in Files \union {NoFile}
  /\ onDisk \in {"there", "gone", "back"}
  /\ config \in Configurations /\ disk \in Prefs
  /\ unstored \in BOOLEAN /\ lost \in {"nothing", "file", "settings"}
  /\ rec \in Recorders
  /\ pb \in Playbacks
  /\ listening \in BOOLEAN
  /\ shown \in BOOLEAN
  /\ buttons \subseteq AllButtons
  /\ playButton \in {"play", "pause", "stop"}
  /\ status \in {"stopped", "playing", "paused"}
  /\ label \in Files \union {NoFile}
  /\ toolbar \subseteq Tools
  /\ choosing \in BOOLEAN
  /\ clashed \in BOOLEAN

Silent == [on |-> FALSE, paused |-> FALSE, manual |-> FALSE]
Dormant == [playing |-> FALSE, opened |-> FALSE, atEnd |-> FALSE,
            timer |-> FALSE, dm |-> "none"]
-----------------------------------------------------------------------------
(* What the parts ask of each other.                                       *)

\* IsPlaying, for the replay mode in force.
PlayingIn(p, mode) == IF mode = Loopback THEN p.dm = "playing" ELSE p.playing

IsPlaying == PlayingIn(pb, prefs.mode)

\* IsAtFileEnd likewise.
AtEndIn(p, mode) == IF mode = Loopback THEN p.dm = "eof" ELSE p.atEnd

AtEnd(p) == AtEndIn(p, prefs.mode)

\* GetInputFile is not empty.
HasFile == file # NoFile /\ onDisk # "gone"

\* Something is being played, in whichever mode it was started.
Plays(p) == p.playing \/ p.dm = "playing"

\* SetToolbarToolStatus, for the states r and p.
ToolStatus(r, p, mode) ==
  {tool \in Tools :
     IF tool = "record" THEN r.on ELSE PlayingIn(p, mode)}

\* What the panel's labels are told.
UpdatePlaybackStatus(told) == status' = told

UpdateFileLabel(name) == label' = name

\* A fault: the play button is disabled like the others.
UpdateControlsAlike(told) ==
  LET plays == PlayingIn(pb', prefs'.mode)
      atEnd == AtEndIn(pb', prefs'.mode)
  IN  /\ buttons' = {b \in AllButtons : ~rec'.on /\ ~plays}
      /\ toolbar' = ToolStatus(rec', pb', prefs'.mode)
      /\ playButton' = IF atEnd THEN "stop" ELSE IF plays THEN "pause" ELSE "play"
      /\ UpdatePlaybackStatus(IF atEnd /\ ~plays THEN "stopped" ELSE told)

\* UpdateControls, in the state a handler leaves; told: the status it has set.
UpdateControls(told) ==
  LET plays == PlayingIn(pb', prefs'.mode)
      atEnd == AtEndIn(pb', prefs'.mode)
  IN  /\ buttons' = {b \in AllButtons : ~rec'.on
                       /\ (b \in {"load", "settings"} => ~plays)
                       /\ (b \in {"play", "progress"} => HasFile')}
      /\ toolbar' = ToolStatus(rec', pb', prefs'.mode)
      /\ playButton' = IF atEnd THEN "stop" ELSE IF plays THEN "pause" ELSE "play"
      /\ UpdatePlaybackStatus(IF atEnd /\ ~plays THEN "stopped" ELSE told)

-----------------------------------------------------------------------------
(* Recording, on the state r of the recorder.  opens: a file can be created.*)

\* A fault: playback is not asked about.
StartRecordingAnyway(r, opens) ==
  CASE r.on /\ ~r.paused -> r
    [] r.paused          -> [r EXCEPT !.on = TRUE, !.paused = FALSE]
    [] OTHER             -> [r EXCEPT !.on = opens]

StartRecording(r, opens) ==
  CASE (r.on /\ ~r.paused) \/ IsPlaying -> r
    [] r.paused /\ ~IsPlaying -> [r EXCEPT !.on = TRUE, !.paused = FALSE]
    [] OTHER                  -> [r EXCEPT !.on = opens]

StopRecording(r) == [r EXCEPT !.on = FALSE]

\* The end of CheckLogRotation, when the interval is over.
Rotated(r, opens) == StartRecording(StopRecording(r), opens)

\* CheckAutoRecording for a speed at or above the threshold, ...
Fast(r, opens) ==
  CASE r.manual           -> r
    [] ~r.manual /\ r.on  -> [r EXCEPT !.paused = FALSE]
    [] OTHER              -> StartRecording(r, opens)

\* ... and below it; over: for as long as the stop delay.
Slow(r, over) ==
  [r EXCEPT !.manual = FALSE, !.paused = @ \/ (r.on /\ over)]

\* A fault: the toolbar is not told.
ReportedUntold(r, opens, over) ==
  {<<r, toolbar>>}
  \union IF prefs.auto = "speed" /\ ~IsPlaying
         THEN {<<s, toolbar>> : s \in {Fast(r, opens), Slow(r, over)}}
         ELSE {}

\* Whatever speed a sentence reports, if it reports one: the recorder and the
\* toolbar after CheckAutoRecording.
Reported(r, opens, over) ==
  {<<r, toolbar>>}
  \union IF prefs.auto = "speed" /\ ~IsPlaying
         THEN {<<s, ToolStatus(s, pb, prefs.mode)>> :
                 s \in {Slow(r, over)} \union (IF r.manual THEN {} ELSE {Fast(r, opens)})}
         ELSE {}

\* A sentence of NMEA 0183, which a pause keeps out, or of NMEA 2000, which it
\* does not; due: the recorded file is to be rotated.  The toolbar does not
\* hear of a rotation that fails.
Sentence(n2k, opens, over, due) ==
  /\ loaded
  /\ n2k => listening /\ prefs.nmea2000
  /\ \E checked \in Reported(rec, opens, over) :
       LET r == checked[1]
       IN  /\ rec' = IF due /\ r.on /\ (n2k \/ ~r.paused) THEN Rotated(r, opens) ELSE r
           /\ toolbar' = checked[2]
  /\ UNCHANGED <<loaded, prefs, file, onDisk, host, pb, listening, shown, panel,
                 choosing, clashed>>

-----------------------------------------------------------------------------
(* Playback, on its state p.                                               *)

\* StopPlayback: m_playing is of the replay modes other than kLoopback.
Stopped(p) ==
  IF p.playing
  THEN [p EXCEPT !.playing = FALSE, !.timer = FALSE, !.opened = FALSE]
  ELSE p

\* The file that the panel names after StopPlayback.
Unnamed(p) == IF p.playing THEN NoFile ELSE label

\* PausePlayback, in the modes other than kLoopback and in all.
PausedInternal(p) ==
  IF p.playing THEN [p EXCEPT !.playing = FALSE, !.timer = FALSE] ELSE p

Paused(p) ==
  IF prefs.mode = Loopback
  THEN [p EXCEPT !.dm = IF @ = "playing" THEN "paused" ELSE @]
  ELSE PausedInternal(p)

\* The states Notify may leave.  The one-shot timer is not running after it
\* has fired, unless Notify starts it again; before, it may be.
Notified(p) ==
  CASE prefs.mode = Loopback /\ p.dm \in {"idle", "playing"} ->
         {[p EXCEPT !.dm = "playing", !.timer = TRUE], [p EXCEPT !.dm = "eof"]}
    [] prefs.mode # Loopback /\ p.opened ->
         {[p EXCEPT !.timer = TRUE], [Paused(p) EXCEPT !.atEnd = TRUE]}
    [] OTHER -> {p}

TimerFires ==
  /\ loaded /\ pb.timer
  /\ pb' \in Notified([pb EXCEPT !.timer = FALSE])
  /\ UNCHANGED <<loaded, prefs, file, onDisk, host, rec, listening, shown, choosing,
                 clashed>>
  /\ IF AtEnd(pb') THEN UpdateControls(status) /\ UNCHANGED label
     ELSE UNCHANGED <<panel, toolbar>>

\* StartPlayback of RecordPlayMgr.  In loopback mode the log is opened anew
\* unless a replay is resumed; otherwise the file unless it is open.
Started(p, succeeds) ==
  IF prefs.mode = Loopback
  THEN LET m == IF p.dm = "paused" THEN "playing"
                ELSE IF succeeds THEN "playing" ELSE "none"
       IN  Notified([p EXCEPT !.dm = m])
           \union (IF m = "playing" THEN {[p EXCEPT !.dm = "eof"]} ELSE {})
  ELSE IF p.opened \/ succeeds
       THEN Notified([p EXCEPT !.atEnd = FALSE, !.opened = TRUE, !.playing = TRUE])
       ELSE {[p EXCEPT !.atEnd = FALSE]}

-----------------------------------------------------------------------------
(* The panel and its buttons.                                              *)

PanelUsed == loaded /\ shown /\ ~choosing

\* The play button: pauses, or starts, after StopPlayback at the end of a file.
OnPlayPauseButton(succeeds) ==
  /\ PanelUsed /\ "play" \in buttons /\ (IsPlaying \/ HasFile)
  /\ IF IsPlaying THEN pb' = Paused(pb)
     ELSE pb' \in Started(IF AtEnd(pb) THEN Stopped(pb) ELSE pb, succeeds)
  /\ clashed' = (clashed \/ (rec.on /\ ~IsPlaying))
  /\ onDisk' = IF IsPlaying THEN onDisk ELSE "there"
  /\ UNCHANGED <<loaded, prefs, file, host, rec, listening, shown, choosing>>
  /\ UpdateControls(CASE IsPlaying -> "paused"
                      [] ~IsPlaying /\ PlayingIn(pb', prefs.mode) -> "playing"
                      [] OTHER -> IF AtEnd(pb) THEN "stopped" ELSE status)
  /\ UpdateFileLabel(
       CASE ~IsPlaying /\ prefs.mode # Loopback /\ pb'.opened -> file
         [] ~IsPlaying /\ prefs.mode = Loopback /\ AtEnd(pb) -> Unnamed(pb)
         [] OTHER -> label)

\* The load button stops playback and opens the file dialog.  The panel is
\* updated if there was one to stop.
OnLoadButton ==
  /\ PanelUsed /\ "load" \in buttons
  /\ choosing' = TRUE
  /\ pb' = IF IsPlaying THEN Stopped(pb) ELSE pb
  /\ UNCHANGED <<loaded, prefs, file, onDisk, host, rec, listening, shown, clashed>>
  /\ UpdateFileLabel(IF IsPlaying THEN Unnamed(pb) ELSE label)
  /\ IF pb' # pb THEN UpdateControls("stopped")
     ELSE /\ UpdatePlaybackStatus(IF IsPlaying THEN "stopped" ELSE status)
          /\ UNCHANGED <<buttons, playButton, toolbar>>

Cancel ==
  /\ choosing
  /\ choosing' = FALSE
  /\ UNCHANGED <<loaded, prefs, file, onDisk, host, rec, pb, listening, shown,
                 panel, toolbar, clashed>>

\* VdrControl::LoadFile; if the file cannot be opened its name is cleared.
\* dm is the state of the replay manager made for a log.
LoadFile(f, opens, dm) ==
  /\ choosing
  /\ choosing' = FALSE
  /\ file' = (IF opens THEN f ELSE NoFile) /\ onDisk' = "there"
  /\ UpdateFileLabel(file')
  /\ pb' = [(IF IsPlaying THEN Stopped(pb) ELSE pb) EXCEPT
              !.atEnd = FALSE, !.opened = opens,
              !.dm = IF prefs.mode = Loopback THEN dm ELSE @]
  /\ clashed' = (clashed \/ (pb.timer /\ ~IsPlaying))
  /\ UNCHANGED <<loaded, prefs, host, rec, listening, shown>>
  /\ UpdateControls("stopped")

ClosePanel ==
  /\ PanelUsed
  /\ shown' = FALSE
  /\ UNCHANGED <<loaded, prefs, file, onDisk, host, rec, pb, listening, panel,
                 toolbar, choosing, clashed>>

-----------------------------------------------------------------------------
(* The toolbar.                                                            *)

\* The play tool toggles the panel, ...
OnToolbarPlay ==
  /\ loaded /\ ~choosing /\ ~rec.on
  /\ shown' = ~shown
  /\ pb' = IF shown /\ pb.timer THEN [pb EXCEPT !.timer = FALSE, !.opened = FALSE]
           ELSE pb
  /\ toolbar' = ToolStatus(rec, pb', prefs.mode)
  /\ UNCHANGED <<loaded, prefs, file, onDisk, host, rec, listening, panel, choosing,
                 clashed>>

\* ... but is refused and switched off during a recording.
OnToolbarPlayRefused ==
  /\ loaded /\ ~choosing /\ rec.on
  /\ toolbar' = toolbar \ {"play"}
  /\ UNCHANGED <<loaded, prefs, file, onDisk, host, rec, pb, listening, shown, panel,
                 choosing, clashed>>

\* The record tool, refused while the timer is running.
OnToolbarRecord(opens) ==
  /\ loaded /\ ~choosing
  /\ rec' = IF pb.timer THEN rec
            ELSE IF rec.on THEN [StopRecording(rec) EXCEPT !.manual = TRUE]
            ELSE LET r == StartRecording(rec, opens)
                 IN  [r EXCEPT !.manual = @ /\ ~r.on]
  /\ toolbar' = ToolStatus(rec', pb, prefs.mode)
  /\ UNCHANGED <<loaded, prefs, file, onDisk, host, pb, listening, shown, panel,
                 choosing, clashed>>

-----------------------------------------------------------------------------
(* The settings.                                                           *)

\* LoadConfig and SaveConfig, which writes to the object and has nothing stored.
SaveConfig(p, f) == config' = [prefs |-> p, file |-> f]

LoadConfig == prefs' = config.prefs /\ file' = config.file

\* A fault: the listeners follow the settings only when they are switched on.
ListenersOnlyAdded(p) == listening \/ p.nmea2000

\* The listeners after the settings have become p.
Listeners(p) ==
  IF p.nmea2000 # prefs.nmea2000 THEN p.nmea2000 ELSE listening

\* A fault: the configuration is saved before the protocols are set.
ConfirmSavingEarly(p, opens) ==
  /\ rec' = IF p.format # prefs.format /\ rec.on
            THEN StartRecording(StopRecording(rec), opens) ELSE rec
  /\ prefs' = p
  /\ SaveConfig([p EXCEPT !.nmea2000 = prefs.nmea2000, !.mode = prefs.mode], file)
  /\ unstored' = TRUE
  /\ listening' = Listeners(p)
  /\ clashed' = (clashed \/ (Plays(pb) /\ p.mode # prefs.mode))
  /\ UNCHANGED <<loaded, file, onDisk, disk, lost, pb, shown, choosing, label>>
  /\ UpdateControls(status)

\* OK in the preferences dialog.  A new format begins a new file, before the
\* other settings change.
Confirm(p, opens) ==
  /\ rec' = IF p.format # prefs.format /\ rec.on
            THEN StartRecording(StopRecording(rec), opens) ELSE rec
  /\ prefs' = p
  /\ SaveConfig(p, file)
  /\ unstored' = TRUE
  /\ listening' = Listeners(p)
  /\ clashed' = (clashed \/ (Plays(pb) /\ p.mode # prefs.mode))
  /\ UNCHANGED <<loaded, file, onDisk, disk, lost, pb, shown, choosing, label>>
  /\ UpdateControls(status)

\* From the host's list of plugins, or from the panel.
ShowPreferencesDialog(p, opens) ==
  /\ loaded /\ ~choosing
  /\ Confirm(p, opens)

ShowPreferencesDialogNative(p, opens) ==
  /\ PanelUsed /\ "settings" \in buttons
  /\ Confirm(p, opens)

-----------------------------------------------------------------------------
(* The plugin.                                                             *)

\* Init of VdrPi: the panel is made and shown, and its buttons are set, before
\* LoadConfig has read the name of a file.  A recording begun here is not known
\* of: m_recording is reset at the end.  m_at_file_end is not initialised.
LoadPlugin ==
  /\ ~loaded
  /\ loaded' = TRUE
  /\ LoadConfig
  /\ listening' = prefs'.nmea2000
  /\ rec' = Silent /\ pb' \in {Dormant, [Dormant EXCEPT !.atEnd = TRUE]}
  /\ shown' = TRUE /\ buttons' = {"load", "settings"} /\ toolbar' = {}
  /\ playButton' = (IF pb'.atEnd THEN "stop" ELSE "play") /\ status' = "stopped" /\ label' = NoFile
  /\ clashed' = FALSE /\ lost' = "nothing"
  /\ UNCHANGED <<onDisk, config, disk, unstored, choosing>>

\* Settings and file stay as what was in force at the end.
Ended ==
  /\ loaded' = FALSE
  /\ listening' = FALSE
  /\ rec' = Silent /\ pb' = Dormant
  /\ shown' = FALSE /\ buttons' = {} /\ toolbar' = {} /\ choosing' = FALSE
  /\ playButton' = "play" /\ status' = "stopped" /\ label' = NoFile
  /\ clashed' = FALSE
  /\ UNCHANGED <<prefs, file, onDisk, disk>>

DeInit ==
  /\ loaded /\ ~choosing
  /\ SaveConfig(prefs, file)
  /\ Ended
  /\ UNCHANGED <<unstored, lost>>

\* The host stores its configuration, at a time of its own or when it ends.
Flush ==
  /\ disk' = config.prefs
  /\ unstored' = FALSE
  /\ UNCHANGED <<loaded, prefs, file, onDisk, config, lost, rec, pb, listening,
                 shown, panel, toolbar, choosing, clashed>>

\* The host or the machine dies, and comes back with the settings that were
\* stored and the name f of a file that was.
Crash(f) ==
  /\ SaveConfig(disk, f)
  /\ unstored' = FALSE
  /\ lost' = IF unstored THEN "settings" ELSE IF lost = "nothing" THEN "file" ELSE lost
  /\ Ended

\* Somebody removes or renames the file, or puts it back.
FileVanishes ==
  /\ onDisk # "gone" /\ onDisk' = "gone"
  /\ UNCHANGED <<loaded, prefs, file, host, rec, pb, listening, shown, panel,
                 toolbar, choosing, clashed>>

FileReturns ==
  /\ onDisk = "gone" /\ onDisk' = "back"
  /\ UNCHANGED <<loaded, prefs, file, host, rec, pb, listening, shown, panel,
                 toolbar, choosing, clashed>>

Init ==
  /\ config \in Configurations /\ disk = config.prefs
  /\ unstored = FALSE /\ lost = "nothing"
  /\ prefs = config.prefs /\ file = config.file /\ onDisk = "there"
  /\ loaded = FALSE /\ listening = FALSE
  /\ rec = Silent /\ pb = Dormant
  /\ shown = FALSE /\ buttons = {} /\ toolbar = {} /\ choosing = FALSE
  /\ playButton = "play" /\ status = "stopped" /\ label = NoFile
  /\ clashed = FALSE

Next ==
  \/ \E n2k, opens, over, due \in BOOLEAN : Sentence(n2k, opens, over, due)
  \/ TimerFires
  \/ \E succeeds \in BOOLEAN : OnPlayPauseButton(succeeds)
  \/ OnLoadButton
  \/ Cancel
  \/ \E f \in Files, opens \in BOOLEAN, dm \in {"idle", "none"} :
       LoadFile(f, opens, dm)
  \/ ClosePanel
  \/ OnToolbarPlay
  \/ OnToolbarPlayRefused
  \/ \E opens \in BOOLEAN : OnToolbarRecord(opens)
  \/ \E p \in Prefs, opens \in BOOLEAN :
       ShowPreferencesDialog(p, opens) \/ ShowPreferencesDialogNative(p, opens)
  \/ LoadPlugin
  \/ DeInit
  \/ Flush
  \/ \E f \in Files \union {NoFile} : Crash(f)
  \/ FileVanishes
  \/ FileReturns

Spec == Init /\ [][Next]_vars

-----------------------------------------------------------------------------
(* Safety.                                                                 *)

\* What the user has confirmed is in force and in the configuration at once,
\* whatever is recorded, played or changed later: the NMEA 2000 bus is listened
\* to exactly if the settings ask for it, although the listeners are updated on
\* changes only.  The next session starts with the settings that were in force
\* at the end of the last one and, after an orderly unloading, with the file.
\* A crash loses no settings but those confirmed since the host stored its
\* configuration, which the plugin does not ask it to do.
SettingsHold ==
  /\ listening <=> loaded /\ prefs.nmea2000
  /\ loaded \/ lost # "settings" => config.prefs = prefs
  /\ ~loaded /\ lost = "nothing" => config.file = file

\* A recording and a playback exclude each other, although each asks about the
\* other by another flag and each may begin by itself.  There are three ways
\* around (history clashed): the play button, which was not updated when the
\* recording began; a change of the replay mode during a playback; and a file
\* loaded while the timer of a paused replay is running.
Exclusive == ~clashed => ~(rec.on /\ Plays(pb))

\* A playback can be paused as long as its panel is shown: whatever was done
\* since it began, the play button is enabled and pauses it.  The same ways
\* around are excepted, and a file that vanishes from the disk while it is
\* played: the button is then disabled when the panel is next updated.
CanBePaused ==
  loaded /\ ~clashed /\ onDisk = "there" /\ Plays(pb) =>
    "play" \in buttons /\ ~Plays(Paused(pb))

\* The toolbar never hides what goes on: the record tool is on during every
\* recording, however it was begun, and the play tool exactly during playback,
\* which may end by itself.  (After a rotation that failed the record tool stays
\* on although nothing is recorded.)
ToolbarTells ==
  /\ rec.on => "record" \in toolbar
  /\ ~clashed => ("play" \in toolbar <=> IsPlaying)

\* Nor does the panel: the play button offers a pause, and the status says that
\* the file is played, exactly as long as it is, although playback ends by
\* itself, fails to start and begins anew behind the panel's back; and no file
\* is named but the one that the play button would play, which is named while it
\* is played line by line.
PanelTells ==
  /\ label \in {file, NoFile}
  /\ ~clashed =>
       /\ playButton = "pause" <=> IsPlaying
       /\ status = "playing" <=> IsPlaying
       /\ pb.playing => label = file

\* What is going on is what toolbar and panel show.
ShownAsItIs == ToolbarTells /\ PanelTells

-----------------------------------------------------------------------------
(* What the comments say.                                                  *)

\* "Don't allow playback while recording": a recording in progress is not
\* joined by a playback that the user starts.  Fails: only the toolbar asks;
\* the panel's play button is not disabled when a recording starts.
NoPlaybackWhileRecording == rec.on => ~IsPlaying

=============================================================================

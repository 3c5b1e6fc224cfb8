--------------------------- MODULE VdrSessionProofs ---------------------------
(***************************************************************************)
(* Theorems about VdrSession, for every set of files and preferences.      *)
(***************************************************************************)
EXTENDS VdrSession, TLAPS

Statuses == {"stopped", "playing", "paused"}

\* No line is played at the end of its file.
Fit(p) == p.playing => ~p.atEnd

\* Only what belongs to the replay mode in force plays, and the timer can fire
\* for an idle manager, which would play, only while lines are played.
Quiet(p) ==
  /\ IF prefs.mode = Loopback THEN ~p.playing ELSE p.dm # "playing"
  /\ p.timer /\ p.dm = "idle" => prefs.mode # Loopback /\ p.playing

\* Nothing is recorded and played together.
Apart == ~(rec.on /\ Plays(pb))

\* What the panel offers while something is played.
Offers ==
  Plays(pb) => /\ onDisk = "there" => "play" \in buttons
               /\ "load" \notin buttons /\ ~choosing /\ file # NoFile

\* What toolbar and panel show of it.
Shows ==
  /\ "play" \in toolbar <=> IsPlaying
  /\ playButton = "pause" <=> IsPlaying
  /\ status = "playing" <=> IsPlaying
  /\ pb.playing => label = file

\* What holds also when recording and playback have clashed.
Always ==
  /\ ~unstored => disk = config.prefs
  /\ choosing => loaded
  /\ Fit(pb)
  /\ label \in {file, NoFile}
  /\ rec.on => "record" \in toolbar

Calm == Quiet(pb) /\ Apart /\ Offers /\ Shows

\* The inductive invariant.
Inv == TypeOK /\ SettingsHold /\ Always /\ (~clashed => Calm)

-----------------------------------------------------------------------------
(* The operators, on any state of recorder and playback.                   *)

\* Preferences are records of their fields.
LEMMA PrefsType ==
  ASSUME NEW p \in Prefs
  PROVE  p \in Preferences /\ p.mode \in Modes /\ p.nmea2000 \in BOOLEAN
BY SessionAssumption DEF Preferences

\* A recording begins only when nothing is played in the mode in force.
LEMMA Recording ==
  ASSUME NEW r \in Recorders, NEW opens \in BOOLEAN
  PROVE  /\ StartRecording(r, opens) \in Recorders
         /\ StartRecording(r, opens).on = TRUE => r.on = TRUE \/ ~IsPlaying
         /\ StopRecording(r) \in Recorders
         /\ StopRecording(r).on = FALSE
BY DEF StartRecording, StopRecording, Recorders

\* A rotation leaves a recorder.
LEMMA Rotation ==
  ASSUME NEW r \in Recorders, NEW opens \in BOOLEAN
  PROVE  Rotated(r, opens) \in Recorders
BY Recording DEF Rotated

\* The automation tells the toolbar of the recording it begins or ends.
LEMMA Automation ==
  ASSUME NEW r \in Recorders, NEW opens \in BOOLEAN, NEW over \in BOOLEAN,
         NEW c \in Reported(r, opens, over), toolbar \subseteq Tools,
         r.on => "record" \in toolbar
  PROVE  /\ c[1] \in Recorders /\ c[2] \subseteq Tools
         /\ c[1].on = TRUE => r.on = TRUE \/ ~IsPlaying
         /\ c[1].on = TRUE => "record" \in c[2]
         /\ ("play" \in toolbar <=> IsPlaying) => ("play" \in c[2] <=> IsPlaying)
<1>1. CASE c = <<r, toolbar>>
  BY <1>1
<1>2. CASE c # <<r, toolbar>>
  <2>1. /\ ~IsPlaying
        /\ \E s \in {Slow(r, over), Fast(r, opens)} : c = <<s, ToolStatus(s, pb, prefs.mode)>>
    BY <1>2 DEF Reported
  <2>2. PICK s \in {Slow(r, over), Fast(r, opens)} : c = <<s, ToolStatus(s, pb, prefs.mode)>>
    BY <2>1
  <2>3. Slow(r, over) \in Recorders
    BY DEF Slow, Recorders
  <2>4. Fast(r, opens) \in Recorders
    <3>1. [r EXCEPT !.paused = FALSE] \in Recorders
      BY DEF Recorders
    <3> QED BY <3>1, Recording DEF Fast
  <2>5. ToolStatus(s, pb, prefs.mode) \subseteq Tools
    BY DEF ToolStatus
  <2>6. "record" \in ToolStatus(s, pb, prefs.mode) <=> s.on
    BY DEF ToolStatus, Tools
  <2>7. "play" \in ToolStatus(s, pb, prefs.mode) <=> IsPlaying
    BY DEF ToolStatus, Tools, IsPlaying
  <2> QED BY <2>1, <2>2, <2>3, <2>4, <2>5, <2>6, <2>7
<1> QED BY <1>1, <1>2

\* Stopping and pausing.
LEMMA Stopping ==
  ASSUME NEW p \in Playbacks
  PROVE  /\ Stopped(p) \in Playbacks /\ Paused(p) \in Playbacks
         /\ Fit(Stopped(p)) /\ (Fit(p) => Fit(Paused(p)))
         /\ Stopped(p).playing = FALSE /\ Stopped(p).dm = p.dm
         /\ Stopped(p).timer = TRUE => p.timer = TRUE /\ p.playing = FALSE
         /\ p.playing = FALSE => Stopped(p) = p
         /\ Quiet(p) => Quiet(Stopped(p)) /\ Quiet(Paused(p)) /\ ~Plays(Paused(p))
BY DEF Stopped, Paused, PausedInternal, Playbacks, Managers, Fit, Quiet, Plays

\* Notify begins a playback only for an idle manager.
LEMMA Notifying ==
  ASSUME NEW p \in Playbacks, NEW q \in Notified(p), Fit(p)
  PROVE  /\ q \in Playbacks /\ Fit(q) /\ q.opened = p.opened
         /\ q.playing = TRUE => p.playing = TRUE
         /\ PlayingIn(p, prefs.mode) => PlayingIn(q, prefs.mode) \/ AtEnd(q)
         /\ prefs.mode # Loopback => q.dm = p.dm
         /\ q.dm = "playing" => p.dm = "playing" \/ (prefs.mode = Loopback /\ p.dm = "idle")
         /\ Quiet(p) /\ (prefs.mode # Loopback /\ p.dm = "idle" => p.playing) => Quiet(q)
<1>1. CASE prefs.mode = Loopback
  BY <1>1 DEF Notified, Playbacks, Managers, Fit, Quiet, PlayingIn, AtEnd, AtEndIn
<1>2. CASE prefs.mode # Loopback
  <2>1. CASE q = p
    BY <1>2, <2>1
  <2>2. CASE p.opened /\ q = [p EXCEPT !.timer = TRUE]
    BY <1>2, <2>2 DEF Playbacks, Fit, Quiet, PlayingIn
  <2>3. CASE p.opened /\ q = [Paused(p) EXCEPT !.atEnd = TRUE]
    BY <1>2, <2>3 DEF Playbacks, Fit, Quiet, Paused, PausedInternal, AtEnd, AtEndIn
  <2> QED BY <1>2, <2>1, <2>2, <2>3 DEF Notified
<1> QED BY <1>1, <1>2

\* StartPlayback of RecordPlayMgr.
LEMMA Starting ==
  ASSUME NEW p \in Playbacks, NEW succeeds \in BOOLEAN,
         NEW q \in Started(p, succeeds), Fit(p)
  PROVE  /\ q \in Playbacks /\ Fit(q)
         /\ Quiet(p) => Quiet(q)
         /\ prefs.mode = Loopback /\ q.playing = TRUE => p.playing = TRUE
         /\ prefs.mode # Loopback /\ q.playing = TRUE => q.opened = TRUE \/ p.playing = TRUE
<1>1. CASE prefs.mode = Loopback
  <2> DEFINE m == IF p.dm = "paused" THEN "playing"
                  ELSE IF succeeds THEN "playing" ELSE "none"
             s == [p EXCEPT !.dm = m]
  <2>1. s \in Playbacks /\ Fit(s) /\ (Quiet(p) => Quiet(s)) /\ s.playing = p.playing
    BY <1>1 DEF Playbacks, Managers, Fit, Quiet
  <2>2. CASE q = [p EXCEPT !.dm = "eof"]
    BY <1>1, <2>2 DEF Playbacks, Managers, Fit, Quiet
  <2>3. CASE q \in Notified(s)
    <3> HIDE DEF s
    <3> QED BY <1>1, <2>1, <2>3, Notifying
  <2> QED BY <1>1, <2>2, <2>3 DEF Started
<1>2. CASE prefs.mode # Loopback
  <2> DEFINE s == [p EXCEPT !.atEnd = FALSE, !.opened = TRUE, !.playing = TRUE]
  <2>1. /\ s \in Playbacks /\ Fit(s) /\ (Quiet(p) => Quiet(s))
        /\ s.opened = TRUE /\ s.playing = TRUE
    BY <1>2 DEF Playbacks, Fit, Quiet
  <2>2. CASE q = [p EXCEPT !.atEnd = FALSE]
    BY <1>2, <2>2 DEF Playbacks, Fit, Quiet
  <2>3. CASE q \in Notified(s)
    <3> HIDE DEF s
    <3> QED BY <1>2, <2>1, <2>3, Notifying
  <2> QED BY <1>2, <2>2, <2>3 DEF Started
<1> QED BY <1>1, <1>2

\* What UpdateControls shows.
LEMMA Controls ==
  ASSUME NEW told \in Statuses, UpdateControls(told)
  PROVE  /\ buttons' \subseteq AllButtons /\ toolbar' \subseteq Tools
         /\ playButton' \in {"play", "pause", "stop"} /\ status' \in Statuses
         /\ "record" \in toolbar' <=> rec'.on
         /\ "play" \in toolbar' <=> PlayingIn(pb', prefs'.mode)
         /\ "play" \in buttons' <=> ~rec'.on /\ file' # NoFile /\ onDisk' # "gone"
         /\ "load" \in buttons' <=> ~rec'.on /\ ~PlayingIn(pb', prefs'.mode)
         /\ playButton' = "pause" <=>
              PlayingIn(pb', prefs'.mode) /\ ~AtEndIn(pb', prefs'.mode)
         /\ status' = "playing" <=>
              told = "playing" /\ ~(AtEndIn(pb', prefs'.mode) /\ ~PlayingIn(pb', prefs'.mode))
<1>1. /\ buttons' \subseteq AllButtons
      /\ "play" \in buttons' <=> ~rec'.on /\ file' # NoFile /\ onDisk' # "gone"
      /\ "load" \in buttons' <=> ~rec'.on /\ ~PlayingIn(pb', prefs'.mode)
  BY DEF UpdateControls, AllButtons, HasFile
<1>2. /\ toolbar' \subseteq Tools
      /\ "record" \in toolbar' <=> rec'.on
      /\ "play" \in toolbar' <=> PlayingIn(pb', prefs'.mode)
  BY DEF UpdateControls, ToolStatus, Tools
<1>3. /\ playButton' \in {"play", "pause", "stop"}
      /\ playButton' = "pause" <=>
           PlayingIn(pb', prefs'.mode) /\ ~AtEndIn(pb', prefs'.mode)
  BY DEF UpdateControls
<1>4. /\ status' \in Statuses
      /\ status' = "playing" <=>
           told = "playing" /\ ~(AtEndIn(pb', prefs'.mode) /\ ~PlayingIn(pb', prefs'.mode))
  BY DEF UpdateControls, UpdatePlaybackStatus, Statuses
<1> QED BY <1>1, <1>2, <1>3, <1>4

-----------------------------------------------------------------------------
(* The steps.                                                              *)

\* The parts of the type invariant.
LEMMA TypeParts ==
  ASSUME TypeOK
  PROVE  /\ loaded \in BOOLEAN /\ prefs \in Prefs /\ file \in Files \union {NoFile}
         /\ onDisk \in {"there", "gone", "back"} /\ disk \in Prefs
         /\ unstored \in BOOLEAN /\ lost \in {"nothing", "file", "settings"}
         /\ config \in Configurations /\ rec \in Recorders /\ pb \in Playbacks
         /\ listening \in BOOLEAN /\ shown \in BOOLEAN /\ buttons \subseteq AllButtons
         /\ playButton \in {"play", "pause", "stop"} /\ status \in Statuses
         /\ label \in Files \union {NoFile} /\ toolbar \subseteq Tools
         /\ choosing \in BOOLEAN /\ clashed \in BOOLEAN
BY DEF TypeOK, Statuses

\* Sentences touch the recorder and the tools only.
LEMMA SentenceStep ==
  ASSUME Inv, NEW n2k \in BOOLEAN, NEW opens \in BOOLEAN, NEW over \in BOOLEAN,
         NEW due \in BOOLEAN, Sentence(n2k, opens, over, due)
  PROVE  Inv'
<1>1. TypeOK /\ SettingsHold /\ Always /\ (~clashed => Calm)
  BY DEF Inv
<1>2. /\ UNCHANGED <<loaded, prefs, file, onDisk, config, disk, unstored, lost, pb, listening, shown>>
      /\ UNCHANGED <<buttons, playButton, status, label, choosing, clashed>>
  BY DEF Sentence, panel, host
<1>3. PICK c \in Reported(rec, opens, over) :
        /\ rec' = IF due /\ c[1].on /\ (n2k \/ ~c[1].paused) THEN Rotated(c[1], opens) ELSE c[1]
        /\ toolbar' = c[2]
  BY DEF Sentence
<1>4. rec \in Recorders /\ toolbar \subseteq Tools /\ (rec.on => "record" \in toolbar)
  BY <1>1, TypeParts DEF Always
<1>5. /\ c[1] \in Recorders /\ c[2] \subseteq Tools
      /\ c[1].on = TRUE => rec.on = TRUE \/ ~IsPlaying
      /\ c[1].on = TRUE => "record" \in c[2]
      /\ ("play" \in toolbar <=> IsPlaying) => ("play" \in c[2] <=> IsPlaying)
  BY <1>4, Automation
<1>6. rec' \in Recorders /\ (rec'.on = TRUE => c[1].on = TRUE)
  BY <1>3, <1>5, Rotation DEF Recorders
<1>7. TypeOK'
  BY <1>1, <1>2, <1>3, <1>5, <1>6 DEF TypeOK
<1>8. SettingsHold' /\ Always'
  BY <1>1, <1>2, <1>3, <1>5, <1>6 DEF SettingsHold, Always, Fit, Recorders
<1>9. ASSUME ~clashed'
      PROVE  Calm'
  <2>1. Quiet(pb) /\ Apart /\ Offers /\ Shows
    BY <1>1, <1>2, <1>9 DEF Calm
  <2>2. Plays(pb) => IsPlaying
    BY <2>1 DEF Quiet, Plays, IsPlaying, PlayingIn
  <2>3. Apart'
    BY <1>2, <1>4, <1>5, <1>6, <2>1, <2>2 DEF Apart, Plays, Recorders
  <2>4. IsPlaying' = IsPlaying
    BY <1>2 DEF IsPlaying, PlayingIn
  <2>5. Shows'
    BY <1>2, <1>3, <1>5, <2>1, <2>4 DEF Shows
  <2>6. Quiet(pb)' /\ Offers'
    BY <1>2, <2>1 DEF Quiet, Offers, Plays
  <2> QED BY <2>3, <2>5, <2>6 DEF Calm
<1> QED BY <1>7, <1>8, <1>9 DEF Inv

\* A step that updates the panel, by what it leaves of recorder and playback.
LEMMA UpdatedStep ==
  ASSUME NEW told \in Statuses, UpdateControls(told),
         loaded' \in BOOLEAN, prefs' \in Prefs, config' \in Configurations,
         listening' \in BOOLEAN, shown' \in BOOLEAN, choosing' \in BOOLEAN,
         clashed' \in BOOLEAN, rec' \in Recorders, pb' \in Playbacks,
         file' \in Files \union {NoFile}, label' \in {file', NoFile},
         onDisk' \in {"there", "gone", "back"}, disk' \in Prefs, unstored' \in BOOLEAN,
         lost' \in {"nothing", "file", "settings"}, ~unstored' => disk' = config'.prefs,
         SettingsHold', choosing' => loaded', Fit(pb'),
         ~clashed' => /\ Quiet(pb)' /\ ~(rec'.on /\ Plays(pb'))
                      /\ Plays(pb') => ~choosing' /\ file' # NoFile
                      /\ pb'.playing => label' = file'
                      /\ \/ AtEndIn(pb', prefs'.mode)
                         \/ told = "playing" <=> PlayingIn(pb', prefs'.mode)
  PROVE  Inv'
<1> DEFINE plays == PlayingIn(pb', prefs'.mode)
           atEnd == AtEndIn(pb', prefs'.mode)
<1>1. /\ buttons' \subseteq AllButtons /\ toolbar' \subseteq Tools
      /\ playButton' \in {"play", "pause", "stop"} /\ status' \in Statuses
      /\ "record" \in toolbar' <=> rec'.on
      /\ "play" \in toolbar' <=> plays
      /\ "play" \in buttons' <=> ~rec'.on /\ file' # NoFile /\ onDisk' # "gone"
      /\ "load" \in buttons' <=> ~rec'.on /\ ~plays
      /\ playButton' = "pause" <=> plays /\ ~atEnd
      /\ status' = "playing" <=> told = "playing" /\ ~(atEnd /\ ~plays)
  BY Controls
<1>2. plays => ~atEnd
  BY DEF PlayingIn, AtEndIn, Fit
<1>3. IsPlaying' <=> plays
  BY DEF IsPlaying, PlayingIn
<1>4. TypeOK'
  BY <1>1 DEF TypeOK, Statuses
<1>5. Always'
  BY <1>1 DEF Always, Fit
<1>6. ASSUME ~clashed'
      PROVE  Calm'
  <2>1. Quiet(pb)' /\ Apart'
    BY <1>6 DEF Apart, Plays
  <2>2. Plays(pb') => plays
    BY <1>6 DEF Quiet, Plays, PlayingIn
  <2>3. Offers'
    BY <1>1, <1>6, <2>2 DEF Offers, Plays
  <2>4. Shows'
    BY <1>1, <1>2, <1>3, <1>6 DEF Shows
  <2> QED BY <2>1, <2>3, <2>4 DEF Calm
<1> QED BY <1>4, <1>5, <1>6 DEF Inv

\* A step that leaves the panel's buttons and the recorder as they are.
LEMMA TimerFiresStep ==
  ASSUME Inv, TimerFires
  PROVE  Inv'
<1> DEFINE p == [pb EXCEPT !.timer = FALSE]
<1>1. TypeOK /\ SettingsHold /\ Always /\ (~clashed => Calm)
  BY DEF Inv
<1>2. /\ pb' \in Notified(p) /\ loaded /\ pb.timer
      /\ UNCHANGED <<loaded, prefs, file, onDisk, config, disk, unstored, lost, rec, listening, shown, choosing, clashed>>
  BY DEF TimerFires, host
<1>3. pb \in Playbacks /\ p \in Playbacks /\ Fit(pb) /\ Fit(p)
  BY <1>1, TypeParts DEF Playbacks, Fit, Always
<1>4. p.playing = pb.playing /\ p.dm = pb.dm /\ p.timer = FALSE
  BY <1>3 DEF Playbacks
<1> HIDE DEF p
<1>5. /\ pb' \in Playbacks /\ Fit(pb')
      /\ pb'.playing = TRUE => p.playing = TRUE
      /\ PlayingIn(p, prefs.mode) => PlayingIn(pb', prefs.mode) \/ AtEnd(pb')
      /\ prefs.mode # Loopback => pb'.dm = p.dm
      /\ pb'.dm = "playing" => p.dm = "playing" \/ (prefs.mode = Loopback /\ p.dm = "idle")
      /\ Quiet(p) /\ (prefs.mode # Loopback /\ p.dm = "idle" => p.playing) => Quiet(pb')
  BY <1>2, <1>3, Notifying
<1>6. ~clashed => /\ Quiet(pb') /\ Quiet(pb)'
                  /\ Plays(pb') => Plays(pb)
  <2> SUFFICES ASSUME ~clashed PROVE Quiet(pb') /\ Quiet(pb)' /\ (Plays(pb') => Plays(pb))
    OBVIOUS
  <2>1. Quiet(pb)
    BY <1>1 DEF Calm
  <2>2. pb.dm = "idle" => prefs.mode # Loopback /\ pb.playing
    BY <1>2, <2>1 DEF Quiet
  <2>3. Quiet(p) /\ (prefs.mode # Loopback /\ p.dm = "idle" => p.playing)
    BY <1>4, <2>1, <2>2 DEF Quiet
  <2>4. Quiet(pb') /\ Quiet(pb)'
    BY <1>2, <1>5, <2>3 DEF Quiet
  <2>5. Plays(pb') => Plays(pb)
    BY <1>3, <1>4, <1>5, <2>2 DEF Plays, Playbacks
  <2> QED BY <2>4, <2>5
<1>7. CASE AtEnd(pb')
  <2>1. UpdateControls(status) /\ label' = label
    BY <1>7 DEF TimerFires
  <2>2. AtEndIn(pb', prefs'.mode)
    BY <1>2, <1>7 DEF AtEnd
  <2>3. /\ SettingsHold' /\ (choosing' => loaded') /\ label' \in {file', NoFile}
        /\ ~unstored' => disk' = config'.prefs
    BY <1>1, <1>2, <2>1 DEF SettingsHold, Always
  <2>4. ~clashed' => /\ Quiet(pb)' /\ ~(rec'.on /\ Plays(pb'))
                     /\ Plays(pb') => ~choosing' /\ file' # NoFile
                     /\ pb'.playing => label' = file'
    BY <1>1, <1>2, <1>3, <1>4, <1>5, <1>6, <2>1 DEF Calm, Apart, Offers, Shows, Playbacks
  <2> QED BY <1>1, <1>2, <1>5, <2>1, <2>2, <2>3, <2>4, TypeParts, UpdatedStep
<1>8. CASE ~AtEnd(pb')
  <2>1. UNCHANGED <<buttons, playButton, status, label, toolbar>>
    BY <1>8 DEF TimerFires, panel
  <2>2. TypeOK' /\ SettingsHold' /\ Always'
    BY <1>1, <1>2, <1>5, <2>1 DEF TypeOK, SettingsHold, Always, Fit
  <2>3. ASSUME ~clashed'
        PROVE  Calm'
    <3>1. Quiet(pb) /\ Apart /\ Offers /\ Shows
      BY <1>1, <1>2, <2>3 DEF Calm
    <3>2. Quiet(pb)' /\ (Plays(pb') => Plays(pb))
      BY <1>2, <1>6, <2>3
    <3>3. Apart' /\ Offers'
      BY <1>2, <2>1, <3>1, <3>2 DEF Apart, Offers, Plays
    <3>4. IsPlaying' <=> IsPlaying
      <4>1. PlayingIn(p, prefs.mode) <=> IsPlaying
        BY <1>4 DEF IsPlaying, PlayingIn
      <4>2. PlayingIn(pb', prefs.mode) => Plays(pb)
        BY <3>2 DEF PlayingIn, Plays
      <4>3. Plays(pb) => IsPlaying
        BY <3>1 DEF Plays, IsPlaying, PlayingIn, Quiet
      <4> QED BY <1>2, <1>5, <1>8, <4>1, <4>2, <4>3 DEF IsPlaying, PlayingIn
    <3>5. Shows'
      BY <1>2, <1>3, <1>4, <1>5, <2>1, <3>1, <3>4 DEF Shows, Playbacks
    <3> QED BY <3>2, <3>3, <3>5 DEF Calm
  <2> QED BY <2>2, <2>3 DEF Inv
<1> QED BY <1>7, <1>8

\* The play button pauses or starts.
LEMMA PlayButtonStep ==
  ASSUME Inv, NEW succeeds \in BOOLEAN, OnPlayPauseButton(succeeds)
  PROVE  Inv'
<1> DEFINE p == IF AtEnd(pb) THEN Stopped(pb) ELSE pb
           told == CASE IsPlaying -> "paused"
                     [] ~IsPlaying /\ PlayingIn(pb', prefs.mode) -> "playing"
                     [] OTHER -> IF AtEnd(pb) THEN "stopped" ELSE status
           name == CASE ~IsPlaying /\ prefs.mode # Loopback /\ pb'.opened -> file
                     [] ~IsPlaying /\ prefs.mode = Loopback /\ AtEnd(pb) -> Unnamed(pb)
                     [] OTHER -> label
<1>1. TypeOK /\ SettingsHold /\ Always /\ (~clashed => Calm)
  BY DEF Inv
<1>2. /\ loaded /\ ~choosing /\ (IsPlaying \/ file # NoFile)
      /\ IF IsPlaying THEN pb' = Paused(pb) ELSE pb' \in Started(p, succeeds)
      /\ clashed' = (clashed \/ (rec.on /\ ~IsPlaying))
      /\ UNCHANGED <<loaded, prefs, file, config, disk, unstored, lost, rec, listening, shown, choosing>>
      /\ onDisk' = IF IsPlaying THEN onDisk ELSE "there"
      /\ UpdateControls(told) /\ label' = name
  BY DEF OnPlayPauseButton, PanelUsed, UpdateFileLabel, HasFile, host
<1>3. /\ pb \in Playbacks /\ Fit(pb) /\ rec \in Recorders
      /\ label \in {file, NoFile} /\ status \in Statuses /\ clashed \in BOOLEAN
  BY <1>1, TypeParts DEF Always
<1>4. p \in Playbacks /\ Fit(p) /\ (p.playing = TRUE => pb.playing = TRUE)
      /\ (Quiet(pb) => Quiet(p))
  BY <1>3, Stopping DEF Playbacks
<1>5. pb' \in Playbacks /\ Fit(pb')
  BY <1>2, <1>3, <1>4, Stopping, Starting
<1>6. told \in Statuses
  BY <1>3 DEF Statuses
<1>7. label' \in {file', NoFile}
  BY <1>2, <1>3 DEF Unnamed
<1>8. /\ SettingsHold' /\ clashed' \in BOOLEAN /\ (choosing' => loaded')
      /\ onDisk' \in {"there", "gone", "back"} /\ (~unstored' => disk' = config'.prefs)
  BY <1>1, <1>2, <1>3, TypeParts DEF SettingsHold, Always, Recorders
<1>9. ASSUME ~clashed'
      PROVE  /\ Quiet(pb)' /\ ~(rec'.on /\ Plays(pb'))
             /\ Plays(pb') => ~choosing' /\ file' # NoFile
             /\ pb'.playing => label' = file'
             /\ \/ AtEndIn(pb', prefs'.mode)
                \/ told = "playing" <=> PlayingIn(pb', prefs'.mode)
  <2>1. Quiet(pb) /\ Apart /\ Offers /\ Shows
    BY <1>1, <1>2, <1>9 DEF Calm
  <2>2. CASE IsPlaying
    <3>1. Quiet(pb') /\ ~Plays(pb')
      BY <1>2, <1>3, <2>1, <2>2, Stopping
    <3>2. told = "paused" /\ ~PlayingIn(pb', prefs'.mode)
      BY <1>2, <2>2, <3>1 DEF PlayingIn, Plays
    <3>3. Quiet(pb)'
      BY <1>2, <3>1 DEF Quiet
    <3> QED BY <3>1, <3>2, <3>3 DEF Plays
  <2>3. CASE ~IsPlaying
    <3>1. ~rec.on
      BY <1>2, <1>9, <2>3
    <3>2. Quiet(pb') /\ (prefs.mode = Loopback /\ pb'.playing = TRUE => p.playing = TRUE)
          /\ (prefs.mode # Loopback /\ pb'.playing = TRUE => pb'.opened = TRUE \/ p.playing = TRUE)
      BY <1>2, <1>4, <2>1, <2>3, Starting
    <3>3. Quiet(pb)'
      BY <1>2, <3>2 DEF Quiet
    <3>4. pb.playing = FALSE
      BY <1>3, <2>1, <2>3 DEF Quiet, IsPlaying, PlayingIn, Playbacks
    <3>5. pb'.playing => prefs.mode # Loopback /\ pb'.opened
      BY <1>4, <3>2, <3>4, <1>5 DEF Playbacks
    <3>6. pb'.playing => label' = file'
      BY <1>2, <2>3, <3>5
    <3>7. status # "playing"
      BY <2>1, <2>3 DEF Shows
    <3>8. told = "playing" <=> PlayingIn(pb', prefs.mode)
      BY <2>3, <3>7
    <3> QED BY <1>2, <2>3, <3>1, <3>3, <3>6, <3>8
  <2> QED BY <2>2, <2>3
<1> HIDE DEF told, name
<1> QED BY <1>1, <1>2, <1>3, <1>5, <1>6, <1>7, <1>8, <1>9, TypeParts, UpdatedStep

\* Nothing is played when the file dialog is asked for, unless there was a clash.
LEMMA LoadButtonStep ==
  ASSUME Inv, OnLoadButton
  PROVE  Inv'
<1>1. TypeOK /\ SettingsHold /\ Always /\ (~clashed => Calm)
  BY DEF Inv
<1>2. /\ loaded /\ "load" \in buttons /\ choosing' = TRUE
      /\ pb' = IF IsPlaying THEN Stopped(pb) ELSE pb
      /\ UNCHANGED <<loaded, prefs, file, onDisk, config, disk, unstored, lost, rec, listening, shown, clashed>>
      /\ label' = IF IsPlaying THEN Unnamed(pb) ELSE label
  BY DEF OnLoadButton, PanelUsed, UpdateFileLabel, host
<1>3. /\ pb \in Playbacks /\ Fit(pb) /\ rec \in Recorders
      /\ label \in {file, NoFile} /\ status \in Statuses
  BY <1>1, TypeParts DEF Always
<1>4. pb' \in Playbacks /\ Fit(pb') /\ label' \in {file', NoFile}
  BY <1>2, <1>3, Stopping DEF Unnamed
<1>5. SettingsHold' /\ (choosing' => loaded') /\ (~unstored' => disk' = config'.prefs)
  BY <1>1, <1>2 DEF SettingsHold, Always
<1>6. ~clashed => ~Plays(pb) /\ ~IsPlaying
  BY <1>1, <1>2 DEF Calm, Offers, Plays, IsPlaying, PlayingIn
<1>7. CASE pb' # pb
  <2>1. UpdateControls("stopped") /\ "stopped" \in Statuses
    BY <1>7 DEF OnLoadButton, Statuses
  <2>2. clashed'
    BY <1>2, <1>6, <1>7, <1>1, TypeParts
  <2> QED BY <1>1, <1>2, <1>3, <1>4, <1>5, <2>1, <2>2, TypeParts, UpdatedStep
<1>8. CASE pb' = pb
  <2>1. /\ UNCHANGED <<buttons, playButton, toolbar>>
        /\ status' = IF IsPlaying THEN "stopped" ELSE status
    BY <1>8 DEF OnLoadButton, UpdatePlaybackStatus
  <2>2. TypeOK'
    BY <1>1, <1>2, <1>3, <1>4, <2>1 DEF TypeOK, Statuses
  <2>3. Always'
    BY <1>1, <1>2, <1>4, <2>1 DEF Always, Fit
  <2>4. ASSUME ~clashed'
        PROVE  Calm'
    BY <1>1, <1>2, <1>6, <1>8, <2>1, <2>4
       DEF Calm, Quiet, Apart, Offers, Shows, Plays, IsPlaying, PlayingIn
  <2> QED BY <1>5, <2>2, <2>3, <2>4 DEF Inv
<1> QED BY <1>7, <1>8

\* A file that is loaded is not played.
LEMMA LoadFileStep ==
  ASSUME Inv, NEW f \in Files, NEW opens \in BOOLEAN, NEW dm \in {"idle", "none"},
         LoadFile(f, opens, dm)
  PROVE  Inv'
<1> DEFINE p == IF IsPlaying THEN Stopped(pb) ELSE pb
           m == IF prefs.mode = Loopback THEN dm ELSE p.dm
<1>1. TypeOK /\ SettingsHold /\ Always /\ (~clashed => Calm)
  BY DEF Inv
<1>2. /\ choosing /\ choosing' = FALSE
      /\ file' = (IF opens THEN f ELSE NoFile) /\ label' = file' /\ onDisk' = "there"
      /\ pb' = [p EXCEPT !.atEnd = FALSE, !.opened = opens,
                         !.dm = IF prefs.mode = Loopback THEN dm ELSE @]
      /\ clashed' = (clashed \/ (pb.timer /\ ~IsPlaying))
      /\ UNCHANGED <<loaded, prefs, config, disk, unstored, lost, rec, listening, shown>>
      /\ UpdateControls("stopped")
  BY DEF LoadFile, UpdateFileLabel, host
<1>3. pb \in Playbacks /\ Fit(pb) /\ p \in Playbacks /\ rec \in Recorders
  BY <1>1, TypeParts, Stopping DEF Always
<1>4. m \in Managers
  BY <1>3 DEF Managers, Playbacks
<1> HIDE DEF p
<1>5. /\ pb' \in Playbacks /\ Fit(pb') /\ pb'.dm = m
      /\ pb'.timer = p.timer /\ pb'.playing = p.playing
  BY <1>2, <1>3, <1>4 DEF Playbacks, Fit
<1>6. /\ SettingsHold' /\ clashed' \in BOOLEAN /\ (choosing' => loaded')
      /\ ~unstored' => disk' = config'.prefs
  <2>1. loaded
    BY <1>1, <1>2 DEF Always
  <2> QED BY <1>1, <1>2, <2>1, TypeParts, <1>3 DEF SettingsHold, Always, Playbacks
<1>7. ASSUME ~clashed'
      PROVE  Quiet(pb)' /\ ~Plays(pb') /\ ~PlayingIn(pb', prefs'.mode)
  <2>1. Quiet(pb) /\ ~Plays(pb)
    BY <1>1, <1>2, <1>7 DEF Calm, Offers
  <2>2. ~IsPlaying /\ ~pb.timer /\ p = pb
    BY <1>2, <1>7, <2>1 DEF p, Plays, IsPlaying, PlayingIn
  <2> QED BY <1>2, <1>3, <1>5, <2>1, <2>2 DEF Quiet, Plays, PlayingIn, Playbacks
<1>8. "stopped" \in Statuses /\ file' \in Files \union {NoFile} /\ label' \in {file', NoFile}
  BY <1>2 DEF Statuses
<1> QED BY <1>1, <1>2, <1>3, <1>5, <1>6, <1>7, <1>8, TypeParts, UpdatedStep DEF Plays

\* The dialog is closed without a file, the panel by its own button.
LEMMA QuietStep ==
  ASSUME Inv, Cancel \/ ClosePanel
  PROVE  Inv'
<1>1. TypeOK /\ SettingsHold /\ Always /\ (~clashed => Calm)
  BY DEF Inv
<1>2. /\ UNCHANGED <<loaded, prefs, file, onDisk, config, disk, unstored, lost, rec, pb, listening, toolbar, clashed>>
      /\ UNCHANGED <<buttons, playButton, status, label>>
      /\ shown' \in BOOLEAN /\ choosing' \in BOOLEAN /\ (choosing' => choosing)
  <2>1. CASE Cancel
    BY <1>1, <2>1, TypeParts DEF Cancel, panel, host
  <2>2. CASE ClosePanel
    BY <1>1, <2>2, TypeParts DEF ClosePanel, panel, host
  <2> QED BY <2>1, <2>2
<1>3. TypeOK' /\ SettingsHold' /\ Always'
  BY <1>1, <1>2 DEF TypeOK, SettingsHold, Always, Fit
<1>4. Calm => Calm'
  BY <1>2 DEF Calm, Quiet, Apart, Offers, Shows, Plays, IsPlaying, PlayingIn
<1> QED BY <1>1, <1>2, <1>3, <1>4 DEF Inv

\* The play tool shows what is played, which hiding the panel does not change.
LEMMA PlayToolStep ==
  ASSUME Inv, OnToolbarPlay \/ OnToolbarPlayRefused
  PROVE  Inv'
<1>1. TypeOK /\ SettingsHold /\ Always /\ (~clashed => Calm)
  BY DEF Inv
<1>2. /\ UNCHANGED <<loaded, prefs, file, onDisk, config, disk, unstored, lost, rec, listening, choosing, clashed>>
      /\ UNCHANGED <<buttons, playButton, status, label>>
  BY DEF OnToolbarPlay, OnToolbarPlayRefused, panel, host
<1>3. pb \in Playbacks /\ rec \in Recorders /\ Fit(pb) /\ toolbar \subseteq Tools
  BY <1>1, TypeParts DEF Always
<1>4. /\ pb' \in Playbacks /\ pb'.playing = pb.playing /\ pb'.dm = pb.dm
      /\ pb'.atEnd = pb.atEnd /\ (pb'.timer = TRUE => pb.timer = TRUE /\ pb' = pb)
      /\ shown' \in BOOLEAN
  <2>1. CASE OnToolbarPlayRefused
    BY <1>1, <1>3, <2>1, TypeParts DEF OnToolbarPlayRefused
  <2>2. CASE OnToolbarPlay
    <3>1. pb' = IF shown /\ pb.timer THEN [pb EXCEPT !.timer = FALSE, !.opened = FALSE] ELSE pb
      BY <2>2 DEF OnToolbarPlay
    <3>2. shown' \in BOOLEAN
      BY <2>2 DEF OnToolbarPlay
    <3> QED BY <1>3, <3>1, <3>2 DEF Playbacks
  <2> QED BY <2>1, <2>2
<1>5. (IsPlaying' <=> IsPlaying) /\ (Plays(pb') <=> Plays(pb))
  BY <1>2, <1>4 DEF IsPlaying, PlayingIn, Plays
<1>6. /\ toolbar' \subseteq Tools
      /\ rec.on => "record" \in toolbar'
      /\ ~clashed => ("play" \in toolbar' <=> IsPlaying')
  <2>1. CASE OnToolbarPlay
    <3>1. toolbar' = ToolStatus(rec, pb', prefs.mode)
      BY <2>1 DEF OnToolbarPlay
    <3> QED BY <1>2, <3>1 DEF ToolStatus, Tools, IsPlaying
  <2>2. CASE OnToolbarPlayRefused
    <3>1. toolbar' = toolbar \ {"play"} /\ rec.on
      BY <2>2 DEF OnToolbarPlayRefused
    <3>2. ~clashed => ~IsPlaying
      BY <1>1, <3>1 DEF Calm, Apart, Plays, IsPlaying, PlayingIn
    <3> QED BY <1>1, <1>3, <1>5, <3>1, <3>2 DEF Always
  <2> QED BY <2>1, <2>2
<1>7. TypeOK' /\ SettingsHold' /\ Always'
  BY <1>1, <1>2, <1>4, <1>6 DEF TypeOK, SettingsHold, Always, Fit
<1>8. ASSUME ~clashed'
      PROVE  Calm'
  <2>1. Quiet(pb) /\ Apart /\ Offers /\ Shows
    BY <1>1, <1>2, <1>8 DEF Calm
  <2>2. Quiet(pb)' /\ Apart' /\ Offers'
    BY <1>2, <1>4, <1>5, <2>1 DEF Quiet, Apart, Offers, Plays
  <2>3. Shows'
    BY <1>2, <1>4, <1>5, <1>6, <1>8, <2>1 DEF Shows
  <2> QED BY <2>2, <2>3 DEF Calm
<1> QED BY <1>7, <1>8 DEF Inv

\* The record tool starts nothing while something is played.
LEMMA RecordToolStep ==
  ASSUME Inv, NEW opens \in BOOLEAN, OnToolbarRecord(opens)
  PROVE  Inv'
<1> DEFINE s == [StopRecording(rec) EXCEPT !.manual = TRUE]
           r == StartRecording(rec, opens)
           t == [r EXCEPT !.manual = @ /\ ~r.on]
<1>1. TypeOK /\ SettingsHold /\ Always /\ (~clashed => Calm)
  BY DEF Inv
<1>2. /\ UNCHANGED <<loaded, prefs, file, onDisk, config, disk, unstored, lost, pb, listening, shown, choosing, clashed>>
      /\ UNCHANGED <<buttons, playButton, status, label>>
      /\ rec' = IF pb.timer THEN rec ELSE IF rec.on THEN s ELSE t
      /\ toolbar' = ToolStatus(rec', pb, prefs.mode)
  BY DEF OnToolbarRecord, panel, host
<1>3. rec \in Recorders
  BY <1>1, TypeParts
<1>4. s \in Recorders /\ s.on = FALSE
  BY <1>3, Recording DEF Recorders
<1>5. t \in Recorders /\ (t.on = TRUE => rec.on = TRUE \/ ~IsPlaying)
  <2>1. r \in Recorders /\ (r.on = TRUE => rec.on = TRUE \/ ~IsPlaying)
    BY <1>3, Recording
  <2> HIDE DEF r
  <2>2. t \in Recorders /\ t.on = r.on
    BY <2>1 DEF Recorders
  <2> QED BY <2>1, <2>2
<1> HIDE DEF s, t
<1>6. rec' \in Recorders /\ (rec'.on => rec.on \/ ~IsPlaying)
  BY <1>2, <1>3, <1>4, <1>5 DEF Recorders
<1>7. /\ toolbar' \subseteq Tools
      /\ rec'.on => "record" \in toolbar'
      /\ "play" \in toolbar' <=> IsPlaying
  BY <1>2 DEF ToolStatus, Tools, IsPlaying
<1>8. TypeOK' /\ SettingsHold' /\ Always'
  BY <1>1, <1>2, <1>6, <1>7 DEF TypeOK, SettingsHold, Always, Fit
<1>9. ASSUME ~clashed'
      PROVE  Calm'
  <2>1. Quiet(pb) /\ Apart /\ Offers /\ Shows
    BY <1>1, <1>2, <1>9 DEF Calm
  <2>2. (Plays(pb) => IsPlaying) /\ (IsPlaying' <=> IsPlaying)
    BY <1>2, <2>1 DEF Quiet, Plays, IsPlaying, PlayingIn
  <2>3. Quiet(pb)' /\ Apart' /\ Offers'
    BY <1>2, <1>6, <2>1, <2>2 DEF Quiet, Apart, Offers, Plays
  <2>4. Shows'
    BY <1>2, <1>7, <2>1, <2>2 DEF Shows
  <2> QED BY <2>3, <2>4 DEF Calm
<1> QED BY <1>8, <1>9 DEF Inv

\* The settings change; a change of the mode during a playback is a clash.
LEMMA ConfirmStep ==
  ASSUME Inv, NEW p \in Prefs, NEW opens \in BOOLEAN, Confirm(p, opens),
         loaded, ~choosing
  PROVE  Inv'
<1> DEFINE s == StartRecording(StopRecording(rec), opens)
<1>1. TypeOK /\ SettingsHold /\ Always /\ (~clashed => Calm)
  BY DEF Inv
<1>2. /\ UNCHANGED <<loaded, file, onDisk, disk, lost, pb, shown, choosing, label>>
      /\ unstored' = TRUE
      /\ rec' = (IF p.format # prefs.format /\ rec.on THEN s ELSE rec)
      /\ prefs' = p /\ config' = [prefs |-> p, file |-> file]
      /\ listening' = Listeners(p)
      /\ clashed' = (clashed \/ (Plays(pb) /\ p.mode # prefs.mode))
      /\ UpdateControls(status)
  BY DEF Confirm, SaveConfig
<1>3. /\ pb \in Playbacks /\ Fit(pb) /\ rec \in Recorders /\ status \in Statuses
      /\ label \in {file, NoFile} /\ clashed \in BOOLEAN /\ file \in Files \union {NoFile}
  BY <1>1, TypeParts DEF Always
<1>4. s \in Recorders
  BY <1>3, Recording
<1> HIDE DEF s
<1>5. rec' \in Recorders /\ (rec'.on => rec.on)
  BY <1>2, <1>3, <1>4
<1>6. config' \in Configurations /\ clashed' \in BOOLEAN /\ Fit(pb')
  BY <1>2, <1>3, <1>5 DEF Configurations, Fit, Plays, Playbacks
<1>7. listening' \in BOOLEAN /\ SettingsHold'
  <2>1. listening' = p.nmea2000
    BY <1>1, <1>2, PrefsType, TypeParts DEF SettingsHold, Listeners
  <2> QED BY <1>2, <2>1, PrefsType DEF SettingsHold
<1>8. ASSUME ~clashed'
      PROVE  /\ Quiet(pb)' /\ ~(rec'.on /\ Plays(pb'))
             /\ Plays(pb') => ~choosing' /\ file' # NoFile
             /\ pb'.playing => label' = file'
             /\ status = "playing" <=> PlayingIn(pb', prefs'.mode)
  <2>1. Quiet(pb) /\ Apart /\ Offers /\ Shows /\ (Plays(pb) => prefs'.mode = prefs.mode)
    BY <1>1, <1>2, <1>8 DEF Calm
  <2>2. Quiet(pb)'
    BY <1>2, <2>1 DEF Quiet, Plays
  <2>3. IsPlaying <=> PlayingIn(pb', prefs'.mode)
    BY <1>2, <2>1, <2>2 DEF IsPlaying, PlayingIn, Plays, Quiet
  <2> QED BY <1>2, <1>5, <2>1, <2>2, <2>3 DEF Apart, Offers, Shows, Plays
<1> QED BY <1>1, <1>2, <1>3, <1>5, <1>6, <1>7, <1>8, TypeParts, UpdatedStep

\* A plugin that is loaded is silent, whatever the configuration says.
LEMMA LoadPluginStep ==
  ASSUME Inv, LoadPlugin
  PROVE  Inv'
<1>1. TypeOK /\ SettingsHold /\ Always
  BY DEF Inv
<1>2. /\ loaded' = TRUE /\ prefs' = config.prefs /\ file' = config.file
      /\ listening' = prefs'.nmea2000 /\ rec' = Silent /\ clashed' = FALSE
      /\ pb' \in {Dormant, [Dormant EXCEPT !.atEnd = TRUE]}
      /\ shown' = TRUE /\ buttons' = {"load", "settings"} /\ toolbar' = {}
      /\ playButton' = (IF pb'.atEnd THEN "stop" ELSE "play")
      /\ status' = "stopped" /\ label' = NoFile
      /\ UNCHANGED <<onDisk, config, disk, unstored, choosing>> /\ ~loaded
      /\ lost' = "nothing"
  BY DEF LoadPlugin, LoadConfig
<1>3. ~choosing
  BY <1>1, <1>2 DEF Always
<1>4. /\ rec' \in Recorders /\ rec'.on = FALSE
      /\ pb' \in Playbacks /\ Fit(pb') /\ ~Plays(pb')
      /\ pb'.playing = FALSE /\ pb'.dm = "none" /\ pb'.timer = FALSE
  <2>1. rec' \in Recorders /\ rec'.on = FALSE
    BY <1>2 DEF Silent, Recorders
  <2>2. CASE pb' = Dormant
    BY <2>1, <2>2 DEF Dormant, Playbacks, Managers, Fit, Plays
  <2>3. CASE pb' = [Dormant EXCEPT !.atEnd = TRUE]
    BY <2>1, <2>3 DEF Dormant, Playbacks, Managers, Fit, Plays
  <2> QED BY <1>2, <2>1, <2>2, <2>3
<1>5. config \in Configurations /\ prefs' \in Prefs /\ file' \in Files \union {NoFile}
      /\ choosing \in BOOLEAN
  BY <1>1, <1>2, TypeParts DEF Configurations
<1>6. listening' \in BOOLEAN
  BY <1>2, <1>5, PrefsType
<1>7. TypeOK'
  BY <1>1, <1>2, <1>4, <1>5, <1>6, TypeParts DEF TypeOK, AllButtons
<1>8. SettingsHold' /\ Always'
  BY <1>1, <1>2, <1>3, <1>4 DEF SettingsHold, Always
<1>9. Calm'
  <2>1. ~IsPlaying'
    BY <1>4 DEF IsPlaying, PlayingIn
  <2>2. Quiet(pb)'
    BY <1>4 DEF Quiet
  <2>3. Apart' /\ Offers'
    BY <1>4 DEF Apart, Offers, Plays
  <2>4. Shows'
    BY <1>2, <1>4, <2>1 DEF Shows
  <2> QED BY <2>2, <2>3, <2>4 DEF Calm
<1> QED BY <1>7, <1>8, <1>9 DEF Inv

\* The host stores its configuration; a file vanishes or comes back.
LEMMA OutsideStep ==
  ASSUME Inv, Flush \/ FileVanishes \/ FileReturns
  PROVE  Inv'
<1>1. TypeOK /\ SettingsHold /\ Always /\ (~clashed => Calm)
  BY DEF Inv
<1>2. /\ UNCHANGED <<loaded, prefs, file, config, lost, rec, pb, listening, shown>>
      /\ UNCHANGED <<buttons, playButton, status, label, toolbar, choosing, clashed>>
      /\ \/ disk' = config.prefs /\ onDisk' = onDisk /\ unstored' = FALSE
         \/ disk' = disk /\ onDisk' \in {"gone", "back"} /\ unstored' = unstored
  BY DEF Flush, FileVanishes, FileReturns, panel, host
<1>3. TypeOK'
  <2>1. config.prefs \in Prefs
    BY <1>1, TypeParts DEF Configurations
  <2>2. disk' \in Prefs /\ onDisk' \in {"there", "gone", "back"} /\ unstored' \in BOOLEAN
    BY <1>1, <1>2, <2>1, TypeParts
  <2> QED BY <1>1, <1>2, <2>2 DEF TypeOK
<1>4. SettingsHold' /\ Always'
  BY <1>1, <1>2 DEF SettingsHold, Always, Fit
<1>5. Calm => Calm'
  BY <1>2 DEF Calm, Quiet, Apart, Offers, Shows, Plays, IsPlaying, PlayingIn
<1> QED BY <1>1, <1>2, <1>3, <1>4, <1>5 DEF Inv

\* Where the plugin ends, in order or not, nothing goes on.
LEMMA EndedStep ==
  ASSUME TypeOK, Ended, config' \in Configurations, unstored' \in BOOLEAN,
         lost' \in {"nothing", "file", "settings"},
         ~unstored' => disk' = config'.prefs,
         lost' # "settings" => config'.prefs = prefs,
         lost' = "nothing" => config'.file = file
  PROVE  Inv'
<1>1. /\ loaded' = FALSE /\ listening' = FALSE /\ rec' = Silent /\ pb' = Dormant
      /\ shown' = FALSE /\ buttons' = {} /\ toolbar' = {} /\ choosing' = FALSE
      /\ playButton' = "play" /\ status' = "stopped" /\ label' = NoFile
      /\ clashed' = FALSE /\ UNCHANGED <<prefs, file, onDisk, disk>>
  BY DEF Ended
<1>2. /\ rec' \in Recorders /\ rec'.on = FALSE
      /\ pb' \in Playbacks /\ Fit(pb') /\ ~Plays(pb')
      /\ pb'.playing = FALSE /\ pb'.dm = "none" /\ pb'.timer = FALSE
  BY <1>1 DEF Silent, Recorders, Dormant, Playbacks, Managers, Fit, Plays
<1>3. TypeOK'
  BY <1>1, <1>2, TypeParts DEF TypeOK
<1>4. SettingsHold' /\ Always'
  BY <1>1, <1>2 DEF SettingsHold, Always
<1>5. Calm'
  <2>1. ~IsPlaying'
    BY <1>2 DEF IsPlaying, PlayingIn
  <2>2. Quiet(pb)'
    BY <1>2 DEF Quiet
  <2>3. Apart' /\ Offers'
    BY <1>2 DEF Apart, Offers, Plays
  <2>4. Shows'
    BY <1>1, <1>2, <2>1 DEF Shows
  <2> QED BY <2>2, <2>3, <2>4 DEF Calm
<1> QED BY <1>3, <1>4, <1>5 DEF Inv

LEMMA InitInv == Init => Inv
<1> SUFFICES ASSUME Init PROVE Inv
  OBVIOUS
<1>1. /\ disk = config.prefs /\ unstored = FALSE /\ lost = "nothing" /\ onDisk = "there"
      /\ config \in Configurations /\ prefs = config.prefs /\ file = config.file
      /\ loaded = FALSE /\ listening = FALSE /\ rec = Silent /\ pb = Dormant
      /\ shown = FALSE /\ buttons = {} /\ toolbar = {} /\ choosing = FALSE
      /\ playButton = "play" /\ status = "stopped" /\ label = NoFile
      /\ clashed = FALSE
  BY DEF Init
<1>2. /\ rec \in Recorders /\ rec.on = FALSE
      /\ pb \in Playbacks /\ Fit(pb) /\ ~Plays(pb)
      /\ pb.playing = FALSE /\ pb.dm = "none" /\ pb.timer = FALSE
  BY <1>1 DEF Silent, Recorders, Dormant, Playbacks, Managers, Fit, Plays
<1>3. TypeOK
  BY <1>1, <1>2 DEF TypeOK, Configurations
<1>4. SettingsHold /\ Always
  BY <1>1, <1>2 DEF SettingsHold, Always
<1>5. Calm
  BY <1>1, <1>2 DEF Calm, Quiet, Apart, Offers, Shows, Plays, IsPlaying, PlayingIn
<1> QED BY <1>3, <1>4, <1>5 DEF Inv

LEMMA NextInv == Inv /\ [Next]_vars => Inv'
<1> SUFFICES ASSUME Inv, [Next]_vars PROVE Inv'
  OBVIOUS
<1>1. CASE \E n2k, opens, over, due \in BOOLEAN : Sentence(n2k, opens, over, due)
  BY <1>1, SentenceStep
<1>2. CASE TimerFires
  BY <1>2, TimerFiresStep
<1>3. CASE \E succeeds \in BOOLEAN : OnPlayPauseButton(succeeds)
  BY <1>3, PlayButtonStep
<1>4. CASE OnLoadButton
  BY <1>4, LoadButtonStep
<1>5. CASE \E f \in Files, opens \in BOOLEAN, dm \in {"idle", "none"} : LoadFile(f, opens, dm)
  BY <1>5, LoadFileStep
<1>6. CASE Cancel \/ ClosePanel
  BY <1>6, QuietStep
<1>7. CASE OnToolbarPlay \/ OnToolbarPlayRefused
  BY <1>7, PlayToolStep
<1>8. CASE \E opens \in BOOLEAN : OnToolbarRecord(opens)
  BY <1>8, RecordToolStep
<1>9. CASE \E p \in Prefs, opens \in BOOLEAN :
             ShowPreferencesDialog(p, opens) \/ ShowPreferencesDialogNative(p, opens)
  <2>1. PICK p \in Prefs, opens \in BOOLEAN : Confirm(p, opens) /\ loaded /\ ~choosing
    BY <1>9 DEF ShowPreferencesDialog, ShowPreferencesDialogNative, PanelUsed
  <2> QED BY <2>1, ConfirmStep
<1>10. CASE LoadPlugin
  BY <1>10, LoadPluginStep
<1>11. CASE DeInit
  <2>1. /\ Ended /\ loaded /\ UNCHANGED <<unstored, lost>> /\ disk' = disk
        /\ config' = [prefs |-> prefs, file |-> file]
    BY <1>11 DEF DeInit, SaveConfig, Ended
  <2>2. TypeOK /\ SettingsHold /\ Always
    BY DEF Inv
  <2>3. config' \in Configurations /\ config'.prefs = prefs /\ config'.file = file
    BY <2>1, <2>2, TypeParts DEF Configurations
  <2>4. ~unstored' => disk' = config'.prefs
    BY <2>1, <2>2, <2>3 DEF SettingsHold, Always
  <2> QED BY <2>1, <2>2, <2>3, <2>4, TypeParts, EndedStep
<1>12. CASE \E f \in Files \union {NoFile} : Crash(f)
  <2>1. PICK f \in Files \union {NoFile} : Crash(f)
    BY <1>12
  <2>2. /\ Ended /\ unstored' = FALSE /\ disk' = disk
        /\ config' = [prefs |-> disk, file |-> f]
        /\ lost' = IF unstored THEN "settings" ELSE IF lost = "nothing" THEN "file" ELSE lost
    BY <2>1 DEF Crash, SaveConfig, Ended
  <2>3. TypeOK /\ SettingsHold /\ Always
    BY DEF Inv
  <2>4. config' \in Configurations /\ config'.prefs = disk
    BY <2>2, <2>3, TypeParts DEF Configurations
  <2>5. lost' # "settings" => config'.prefs = prefs
    BY <2>2, <2>3, <2>4 DEF SettingsHold, Always
  <2>6. lost' # "nothing" /\ lost' \in {"nothing", "file", "settings"}
    BY <2>2, <2>3, TypeParts
  <2> QED BY <2>2, <2>3, <2>4, <2>5, <2>6, EndedStep
<1>14. CASE Flush \/ FileVanishes \/ FileReturns
  BY <1>14, OutsideStep
<1>13. CASE UNCHANGED vars
  <2>1. /\ UNCHANGED <<loaded, prefs, file, onDisk, config, disk, unstored, lost>>
        /\ UNCHANGED <<rec, pb, listening, shown, toolbar>>
        /\ UNCHANGED <<buttons, playButton, status, label, choosing, clashed>>
    BY <1>13 DEF vars, panel, host
  <2>2. TypeOK' /\ SettingsHold' /\ Always'
    BY <2>1 DEF Inv, TypeOK, SettingsHold, Always, Fit
  <2>3. Calm => Calm'
    BY <2>1 DEF Calm, Quiet, Apart, Offers, Shows, Plays, IsPlaying, PlayingIn
  <2> QED BY <2>1, <2>2, <2>3 DEF Inv
<1> QED BY <1>1, <1>2, <1>3, <1>4, <1>5, <1>6, <1>7, <1>8, <1>9, <1>10, <1>11,
           <1>12, <1>13, <1>14 DEF Next

-----------------------------------------------------------------------------
(* The theorems.                                                           *)

\* The invariant of a session, for every set of files and preferences: as long
\* as recording and playback have not clashed, only what belongs to the replay
\* mode plays, and the panel offers to pause it.
THEOREM SessionInvariant == Spec => []Inv
<1> QED BY InitInv, NextInv, PTL DEF Spec

\* Type correctness of session, panel and toolbar.
THEOREM SessionTypeCorrect == Spec => []TypeOK
<1>1. Inv => TypeOK
  BY DEF Inv
<1> QED BY <1>1, SessionInvariant, PTL

\* Settings are in force, in the configuration and with the listeners of the
\* NMEA 2000 bus at once; unloading loses none, and a crash none that the host
\* had stored.
THEOREM SettingsHoldAlways == Spec => []SettingsHold
<1>1. Inv => SettingsHold
  BY DEF Inv
<1> QED BY <1>1, SessionInvariant, PTL

\* Recording and playback exclude each other, but for the three ways around.
THEOREM ExclusiveAlways == Spec => []Exclusive
<1>1. Inv => Exclusive
  BY DEF Inv, Exclusive, Calm, Apart
<1> QED BY <1>1, SessionInvariant, PTL

\* What is played can be paused by the play button, while its file is there.
THEOREM CanBePausedAlways == Spec => []CanBePaused
<1>1. Inv => CanBePaused
  <2> SUFFICES ASSUME Inv, ~clashed, onDisk = "there", Plays(pb)
               PROVE  "play" \in buttons /\ ~Plays(Paused(pb))
    BY DEF CanBePaused
  <2>1. Quiet(pb) /\ Offers /\ pb \in Playbacks
    BY TypeParts DEF Inv, Calm
  <2> QED BY <2>1, Stopping DEF Offers
<1> QED BY <1>1, SessionInvariant, PTL

\* Toolbar and panel show what goes on.
THEOREM ShownAlways == Spec => []ShownAsItIs
<1>1. Inv => ShownAsItIs
  <2> SUFFICES ASSUME Inv PROVE ShownAsItIs
    OBVIOUS
  <2>1. Always /\ (~clashed => Shows)
    BY DEF Inv, Calm
  <2> QED BY <2>1 DEF ShownAsItIs, ToolbarTells, PanelTells, Always, Shows
<1> QED BY <1>1, SessionInvariant, PTL

=============================================================================

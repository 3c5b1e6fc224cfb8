------------------------- MODULE VdrRecorderProofs -------------------------
(***************************************************************************)
(* The recorder's safety for every set of speeds and preferences.  The     *)
(* lemmas say what the procedures of RecordPlayMgr do to a recording state *)
(* that is Sound; the theorems follow handler by handler.                  *)
(***************************************************************************)
EXTENDS VdrRecorder, TLAPS

\* Every setting has its type, and every interval is within the ages.
LEMMA PrefsTyped ==
  ASSUME NEW p \in Prefs
  PROVE  /\ p \in Preferences
         /\ p.format \in Formats
         /\ p.rotateAfter \in 1..AgeCap
         /\ p.stopDelay \in 1..AgeCap
         /\ p.threshold \in Nat
<1>1. p \in Preferences
  BY RecorderAssumption
<1>2. QED
  BY <1>1 DEF Preferences

\* Opening a file either changes nothing or begins a recording in that file.
LEMMA OpenSound ==
  ASSUME NEW r \in RecorderStates, NEW f \in Formats, NEW opens \in BOOLEAN,
         Sound(r, f), ~r.paused,
         NEW q, q = OpenFile(r, f, opens)
  PROVE  /\ q \in RecorderStates
         /\ Sound(q, f)
         /\ q.manual = r.manual
         /\ ~q.paused
         /\ q = r \/ (q.recording /\ q.startAge = 0)
         /\ q.erased => r.erased \/ r.fresh # {}
<1>1. CASE ~opens
  BY <1>1 DEF OpenFile
<1>2. CASE opens
  <2>1. q = [r EXCEPT !.recording = TRUE, !.file = f, !.fileAge = 0,
                      !.startAge = 0, !.fresh = r.fresh \ {f},
                      !.erased = (r.erased \/ f \in r.fresh)]
    BY <1>2 DEF OpenFile
  <2>2. 0 \in Ages /\ f # NoFile
    BY RecorderAssumption DEF Ages, Formats, NoFile
  <2>3. q \in RecorderStates
    BY <2>1, <2>2 DEF RecorderStates
  <2>4. QED
    BY <2>1, <2>3 DEF RecorderStates, Sound
<1>3. QED
  BY <1>1, <1>2

\* StartRecording leaves a sound state for the format it is given, does not
\* touch the manual flag, and changes nothing during a replay.
LEMMA StartSound ==
  ASSUME NEW r \in RecorderStates, NEW f \in Formats, NEW opens \in BOOLEAN,
         Sound(r, f),
         NEW q, q = StartRecording(r, f, opens)
  PROVE  /\ q \in RecorderStates
         /\ Sound(q, f)
         /\ q.manual = r.manual
         /\ q = r \/ (~IsPlaying /\ Capturing(q))
         /\ ~r.paused => q = r \/ q.startAge = 0
         /\ q.erased => r.erased \/ r.fresh # {}
<1>1. CASE Capturing(r) \/ IsPlaying
  BY <1>1 DEF StartRecording
<1>2. CASE ~Capturing(r) /\ ~IsPlaying /\ r.paused
  <2>1. q = [r EXCEPT !.recording = TRUE, !.paused = FALSE]
    BY <1>2 DEF StartRecording
  <2>2. q \in RecorderStates
    BY <2>1 DEF RecorderStates
  <2>3. QED
    BY <1>2, <2>1, <2>2 DEF RecorderStates, Sound, Capturing
<1>3. CASE ~Capturing(r) /\ ~IsPlaying /\ ~r.paused
  <2>1. q = OpenFile(r, f, opens)
    BY <1>3 DEF StartRecording
  <2>2. QED
    BY <1>3, <2>1, OpenSound DEF Capturing
<1>4. QED
  BY <1>1, <1>2, <1>3

\* StopRecording ends the recording and leaves a state sound for any format.
LEMMA StopSound ==
  ASSUME NEW r \in RecorderStates, NEW f, NEW g \in Formats, Sound(r, f),
         NEW q, q = StopRecording(r), r.recording
  PROVE  /\ q \in RecorderStates
         /\ Sound(q, g)
         /\ q.manual = r.manual /\ q.paused = r.paused
         /\ ~q.recording /\ q.file = NoFile
         /\ q.erased = r.erased /\ q.fresh = r.fresh
<1>1. q = [r EXCEPT !.recording = FALSE, !.file = NoFile, !.fileAge = 0]
  BY DEF StopRecording
<1>2. 0 \in Ages
  BY RecorderAssumption DEF Ages
<1>3. q \in RecorderStates
  BY <1>1, <1>2 DEF RecorderStates
<1>4. QED
  BY <1>1, <1>3 DEF RecorderStates, Sound

\* After CheckLogRotation, a file still open under rotation is young enough.
\* Rotation may end a recording, and may resume a paused one; it starts none.
LEMMA RotationSound ==
  ASSUME cfg \in Prefs, NEW r \in RecorderStates, NEW opens \in BOOLEAN,
         Sound(r, cfg.format), r.recording,
         NEW q, q = CheckLogRotation(r, opens)
  PROVE  /\ q \in RecorderStates
         /\ Sound(q, cfg.format)
         /\ q.manual = r.manual
         /\ Capturing(q) => Capturing(r) \/ ~IsPlaying
         /\ q.recording /\ q.paused => r.paused
         /\ q.file # NoFile => q.recording
         /\ q.file # NoFile /\ cfg.rotate => q.startAge < cfg.rotateAfter
         /\ q.erased => r.erased
<1> DEFINE s == StopRecording(r)
<1>0. cfg.format \in Formats /\ cfg.rotateAfter \in 1..AgeCap /\ AgeCap \in Nat
  BY PrefsTyped, RecorderAssumption
<1>1. CASE cfg.rotate /\ r.startAge >= cfg.rotateAfter
  <2>1. q = StartRecording(s, cfg.format, opens)
    BY <1>1 DEF CheckLogRotation
  <2>2. /\ s \in RecorderStates /\ Sound(s, cfg.format)
        /\ s.manual = r.manual /\ s.paused = r.paused
        /\ ~s.recording /\ s.file = NoFile
        /\ s.erased = r.erased /\ s.fresh = r.fresh
    BY <1>0, StopSound
  <2>3. /\ q \in RecorderStates /\ Sound(q, cfg.format) /\ q.manual = s.manual
        /\ q = s \/ (~IsPlaying /\ Capturing(q))
        /\ ~s.paused => q = s \/ q.startAge = 0
        /\ q.erased => s.erased \/ s.fresh # {}
    BY <1>0, <2>1, <2>2, StartSound
  <2>4. s.paused /\ q.file # NoFile => FALSE
    <3>1. s.paused => q = s \/ q = [s EXCEPT !.recording = TRUE, !.paused = FALSE]
      BY <2>1 DEF StartRecording
    <3>2. QED
      BY <2>2, <3>1 DEF RecorderStates
  <2>5. r.fresh = {}
    BY <1>0, <1>1 DEF Sound
  <2>6. QED
    BY <1>0, <2>2, <2>3, <2>4, <2>5 DEF Capturing
<1>2. CASE ~(cfg.rotate /\ r.startAge >= cfg.rotateAfter)
  <2>1. q = r
    BY <1>2 DEF CheckLogRotation
  <2>2. cfg.rotate => r.startAge < cfg.rotateAfter
    BY <1>0, <1>2 DEF RecorderStates, Ages
  <2>3. QED
    BY <2>1, <2>2 DEF Capturing
<1>3. QED
  BY <1>1, <1>2

\* A change of format leaves a state sound for the new format.
LEMMA FormatSound ==
  ASSUME cfg \in Prefs, NEW r \in RecorderStates, NEW opens \in BOOLEAN,
         Sound(r, cfg.format), NEW f \in Formats,
         NEW q, q = SetDataFormat(r, f, opens)
  PROVE  /\ q \in RecorderStates
         /\ Sound(q, f)
         /\ q.manual = r.manual
         /\ Capturing(q) => Capturing(r) \/ ~IsPlaying
         /\ q.recording => r.recording
         /\ q.recording /\ q.paused => r.paused
<1> DEFINE s == StopRecording(r)
<1>1. CASE f # cfg.format /\ r.recording
  <2>1. q = StartRecording(s, f, opens)
    BY <1>1 DEF SetDataFormat
  <2>2. /\ s \in RecorderStates /\ Sound(s, f)
        /\ s.manual = r.manual /\ ~s.recording
    BY <1>1, StopSound
  <2>3. /\ q \in RecorderStates /\ Sound(q, f) /\ q.manual = s.manual
        /\ q = s \/ (~IsPlaying /\ Capturing(q))
    BY <2>1, <2>2, StartSound
  <2>4. QED
    BY <1>1, <2>2, <2>3 DEF Capturing
<1>2. CASE ~(f # cfg.format /\ r.recording)
  <2>1. q = r
    BY <1>2 DEF SetDataFormat
  <2>2. QED
    BY <1>2, <2>1 DEF Sound, Capturing
<1>3. QED
  BY <1>1, <1>2

\* A speed report starts or resumes only outside a replay and a stand-down,
\* pauses only what is captured, and ends a stand-down only if it is slow.
LEMMA AutoSound ==
  ASSUME cfg \in Prefs, NEW r \in RecorderStates, NEW opens \in BOOLEAN,
         NEW speed \in Speeds \union {NoSpeed},
         Sound(r, cfg.format), r.manual => ~r.recording,
         NEW q, q = CheckAutoRecording(r, speed, opens)
  PROVE  /\ q \in RecorderStates
         /\ Sound(q, cfg.format)
         /\ q.manual => ~q.recording
         /\ r.manual /\ (speed = NoSpeed \/ speed >= cfg.threshold) => q.manual
         /\ Capturing(q) => Capturing(r) \/ (~IsPlaying /\ ~q.manual)
         /\ q.recording /\ q.paused => r.recording
         /\ r.recording => q.recording /\ q.erased = r.erased
<1> DEFINE armed == [r EXCEPT !.manual = r.manual /\ speed >= cfg.threshold]
<1> DEFINE timed == [armed EXCEPT !.belowAge = NoAge]
<1>0. /\ cfg.format \in Formats /\ cfg.threshold \in Nat /\ cfg.stopDelay \in Nat
      /\ AgeCap \in Nat /\ Hysteresis \in Nat /\ speed \in Int
  BY PrefsTyped, RecorderAssumption DEF NoSpeed
<1>1. CASE speed = NoSpeed \/ ~AutoRecordingOn
  <2>1. q = r
    BY <1>1 DEF CheckAutoRecording
  <2>2. QED
    BY <2>1 DEF Capturing
<1>2. CASE speed # NoSpeed /\ AutoRecordingOn
  <2>1. /\ armed \in RecorderStates /\ Sound(armed, cfg.format)
        /\ armed.manual <=> r.manual /\ speed >= cfg.threshold
        /\ armed.recording = r.recording /\ armed.paused = r.paused
        /\ armed.erased = r.erased
    BY DEF RecorderStates, Sound
  <2>2. CASE ~armed.manual /\ speed >= cfg.threshold
    <3>1. q = VesselFast(armed, opens)
      BY <1>0, <1>2, <2>2 DEF CheckAutoRecording
    <3>2. /\ timed \in RecorderStates /\ Sound(timed, cfg.format)
          /\ timed.manual = armed.manual
          /\ timed.recording = r.recording /\ timed.paused = r.paused
          /\ timed.erased = r.erased
      BY <2>1 DEF RecorderStates, Sound
    <3>3. CASE r.recording
      <4>1. q = [timed EXCEPT !.paused = FALSE]
        BY <2>1, <3>1, <3>3 DEF VesselFast, ResumeRecording
      <4> HIDE DEF armed, timed
      <4>2. /\ q \in RecorderStates /\ Sound(q, cfg.format)
            /\ q.manual = armed.manual /\ q.recording /\ ~q.paused
            /\ q.erased = r.erased
        BY <3>2, <3>3, <4>1 DEF RecorderStates, Sound
      <4>3. QED
        BY <1>2, <2>1, <2>2, <3>3, <4>2 DEF Capturing, AutoRecordingOn
    <3>4. CASE ~r.recording
      <4>1. q = StartRecording(timed, cfg.format, opens)
        BY <2>1, <3>1, <3>4 DEF VesselFast
      <4> HIDE DEF timed
      <4>2. /\ q \in RecorderStates /\ Sound(q, cfg.format)
            /\ q.manual = timed.manual
            /\ q = timed \/ (~IsPlaying /\ Capturing(q))
        BY <1>0, <3>2, <4>1, StartSound
      <4>3. QED
        BY <1>2, <2>1, <2>2, <3>2, <3>4, <4>2 DEF Capturing, AutoRecordingOn
    <3>5. QED
      BY <3>3, <3>4
  <2>3. CASE ~armed.manual /\ speed < cfg.threshold - Hysteresis /\ r.recording
    <3>1. q = VesselSlow(armed)
      BY <1>0, <1>2, <2>3 DEF CheckAutoRecording
    <3>2. \/ q = [armed EXCEPT !.belowAge = 0]
          \/ q = [[armed EXCEPT !.paused = TRUE] EXCEPT !.belowAge = NoAge]
          \/ q = armed
      BY <2>1, <2>3, <3>1 DEF VesselSlow, PauseRecording
    <3>3. /\ q \in RecorderStates /\ Sound(q, cfg.format)
          /\ q.manual = armed.manual /\ q.recording
          /\ Capturing(q) => Capturing(r)
          /\ q.erased = r.erased
      <4>1. 0 \in Ages
        BY <1>0 DEF Ages
      <4> HIDE DEF armed, timed
      <4>2. q \in RecorderStates
        BY <2>1, <3>2, <4>1 DEF RecorderStates
      <4>3. /\ q.manual = armed.manual /\ q.recording /\ q.file = armed.file
            /\ q.fileAge = armed.fileAge /\ q.startAge = armed.startAge
            /\ q.paused \/ q.paused = armed.paused
            /\ q.erased = armed.erased /\ q.fresh = armed.fresh
        BY <2>1, <2>3, <3>2 DEF RecorderStates
      <4>4. QED
        BY <2>1, <2>3, <4>2, <4>3 DEF Sound, Capturing
    <3>4. QED
      BY <1>0, <2>1, <2>3, <3>3 DEF Capturing
  <2>4. CASE /\ ~(~armed.manual /\ speed >= cfg.threshold)
             /\ ~(~armed.manual /\ speed < cfg.threshold - Hysteresis /\ r.recording)
    <3>1. q = armed
      BY <1>0, <1>2, <2>4 DEF CheckAutoRecording
    <3> HIDE DEF armed, timed
    <3>2. QED
      BY <1>0, <1>2, <2>1, <3>1 DEF Capturing
  <2>5. QED
    BY <2>2, <2>3, <2>4
<1>3. QED
  BY <1>1, <1>2

-----------------------------------------------------------------------------
(* What every step does, handler by handler.                               *)

\* No step begins to capture during a replay, pauses what was off, tells the
\* automation to stand down without having ended a recording, or empties a
\* file because of a sentence.
StepPromise ==
  /\ Capturing(vdr') => Capturing(vdr) \/ ~IsPlaying
  /\ vdr'.recording /\ vdr'.paused => vdr.recording
  /\ standDown' => standDown \/ vdr.recording
  /\ out' # "none" /\ vdr.recording /\ vdr'.erased => vdr.erased

Preserved == TypeOK' /\ Consistent' /\ StepPromise

\* A sentence, of either protocol, that is recorded if the recorder is.
LEMMA RecordPreserves ==
  ASSUME TypeOK, Consistent, loaded,
         NEW speed \in Speeds \union {NoSpeed}, NEW opens \in BOOLEAN,
         NEW evenPaused \in BOOLEAN, Record(speed, opens, evenPaused)
  PROVE  Preserved
<1> DEFINE checked == CheckAutoRecording(vdr, speed, opens)
<1> DEFINE rotated == CheckLogRotation(checked, opens)
<1>1. /\ cfg \in Prefs /\ vdr \in RecorderStates /\ Sound(vdr, cfg.format)
      /\ vdr.manual => ~vdr.recording
      /\ cfg.threshold \in Nat
  BY PrefsTyped DEF TypeOK, Consistent
<1>2. /\ checked \in RecorderStates /\ Sound(checked, cfg.format)
      /\ checked.manual => ~checked.recording
      /\ vdr.manual /\ (speed = NoSpeed \/ speed >= cfg.threshold) => checked.manual
      /\ Capturing(checked) => Capturing(vdr) \/ (~IsPlaying /\ ~checked.manual)
      /\ checked.recording /\ checked.paused => vdr.recording
      /\ vdr.recording => checked.recording /\ checked.erased = vdr.erased
  BY <1>1, AutoSound
<1> HIDE DEF checked
<1>3. checked.recording => 
        /\ rotated \in RecorderStates /\ Sound(rotated, cfg.format)
        /\ rotated.manual = checked.manual
        /\ Capturing(rotated) => Capturing(checked) \/ ~IsPlaying
        /\ rotated.recording /\ rotated.paused => checked.paused
        /\ rotated.file # NoFile => rotated.recording
        /\ rotated.file # NoFile /\ cfg.rotate => rotated.startAge < cfg.rotateAfter
        /\ (rotated.erased => checked.erased)
  BY <1>1, <1>2, RotationSound
<1> HIDE DEF rotated
<1>4. /\ standDown' \in BOOLEAN
      /\ standDown' => standDown /\ (speed = NoSpeed \/ speed >= cfg.threshold)
      /\ UNCHANGED <<loaded, cfg, playback, timer>>
  BY DEF Record, Heard, TypeOK
<1>5. standDown' => checked.manual
  BY <1>2, <1>4 DEF Consistent
<1>6. CASE checked.recording /\ (evenPaused \/ ~checked.paused)
  <2>1. vdr' = Write(rotated) /\ out' = WriteOutcome(rotated)
    BY <1>6 DEF Record, checked, rotated
  <2>2. /\ vdr' \in RecorderStates
        /\ \A x \in {"recording", "paused", "manual", "file", "fileAge", "startAge"} :
             vdr'[x] = rotated[x]
        /\ vdr'.erased = rotated.erased
        /\ vdr'.fresh # {} => rotated.fresh # {} \/ (rotated.file # NoFile /\ rotated.fileAge = 0)
    BY <1>3, <1>6, <2>1 DEF Write, RecorderStates
  <2>3. /\ vdr'.recording = rotated.recording /\ vdr'.paused = rotated.paused
        /\ vdr'.manual = rotated.manual /\ vdr'.file = rotated.file
        /\ vdr'.fileAge = rotated.fileAge /\ vdr'.startAge = rotated.startAge
        /\ vdr'.erased = rotated.erased
        /\ vdr'.fresh # {} => vdr'.startAge = 0
    BY <1>3, <1>6, <2>2 DEF Sound
  <2>4. out' \in Outcomes /\ (out' = "stored" => rotated.file # NoFile)
    BY <2>1 DEF WriteOutcome, Outcomes
  <2>5. TypeOK'
    BY <1>4, <2>2, <2>4 DEF TypeOK
  <2>6. Consistent'
    BY <1>2, <1>3, <1>4, <1>5, <1>6, <2>3, <2>4 DEF Consistent, Sound
  <2>7. StepPromise
    BY <1>2, <1>3, <1>4, <1>6, <2>3 DEF StepPromise, Capturing
  <2>8. QED
    BY <2>5, <2>6, <2>7 DEF Preserved
<1>7. CASE ~(checked.recording /\ (evenPaused \/ ~checked.paused))
  <2>1. vdr' = checked /\ out' = "ignored"
    BY <1>7 DEF Record, checked
  <2>2. TypeOK'
    BY <1>2, <1>4, <2>1 DEF TypeOK, Outcomes
  <2>3. Consistent'
    BY <1>2, <1>4, <1>5, <2>1 DEF Consistent
  <2>4. StepPromise
    BY <1>2, <1>4, <2>1 DEF StepPromise, Capturing
  <2>5. QED
    BY <2>2, <2>3, <2>4 DEF Preserved
<1>8. QED
  BY <1>6, <1>7

\* A step that leaves the recording state alone, and stores nothing.
LEMMA IdlePreserves ==
  ASSUME TypeOK, Consistent, UNCHANGED <<loaded, cfg, vdr, standDown>>,
         playback' \in [network : BOOLEAN, loopback : BOOLEAN],
         timer' \in BOOLEAN,
         out' \in Outcomes, out' # "stored" \/ out' = out
  PROVE  Preserved
<1>1. TypeOK'
  BY DEF TypeOK
<1>2. Consistent'
  BY DEF Consistent, Sound
<1>3. StepPromise
  BY DEF StepPromise, Capturing
<1>4. QED
  BY <1>1, <1>2, <1>3 DEF Preserved

\* A sentence of either protocol.
LEMMA SentencePreserves ==
  ASSUME TypeOK, Consistent,
         NEW speed \in Speeds \union {NoSpeed}, NEW opens \in BOOLEAN,
         SetNMEASentence(speed, opens) \/ OnN2KEvent(speed, opens)
  PROVE  Preserved
<1>1. CASE Disregard
  BY <1>1, IdlePreserves DEF Disregard, TypeOK, Outcomes
<1>2. CASE loaded /\ Record(speed, opens, FALSE)
  BY <1>2, RecordPreserves
<1>3. CASE loaded /\ Record(speed, opens, TRUE)
  BY <1>3, RecordPreserves
<1>4. QED
  BY <1>1, <1>2, <1>3 DEF SetNMEASentence, OnN2KEvent

\* The record button, in both of its meanings.
LEMMA ToolbarPreserves ==
  ASSUME TypeOK, Consistent, NEW opens \in BOOLEAN,
         ToolbarStop \/ ToolbarStart(opens)
  PROVE  Preserved
<1>1. /\ cfg \in Prefs /\ vdr \in RecorderStates /\ Sound(vdr, cfg.format)
      /\ cfg.format \in Formats
  BY PrefsTyped DEF TypeOK, Consistent
<1>2. CASE ToolbarStop
  <2> DEFINE stopped == StopRecording(vdr)
  <2>1. /\ stopped \in RecorderStates /\ Sound(stopped, cfg.format)
        /\ ~stopped.recording /\ stopped.file = NoFile
    BY <1>1, <1>2, StopSound DEF ToolbarStop
  <2>2. vdr' = [stopped EXCEPT !.manual = TRUE]
    BY <1>2 DEF ToolbarStop
  <2> HIDE DEF stopped
  <2>3. /\ vdr' \in RecorderStates /\ vdr'.manual
        /\ ~vdr'.recording /\ vdr'.file = NoFile
        /\ vdr'.fresh # {} => vdr'.startAge = 0
    BY <2>1, <2>2 DEF RecorderStates, Sound
  <2>4. QED
    BY <1>2, <2>3
    DEF ToolbarStop, Preserved, TypeOK, Outcomes, Consistent, Sound, StepPromise, Capturing
<1>3. CASE ToolbarStart(opens)
  <2> DEFINE started == StartRecording(vdr, cfg.format, opens)
  <2>1. /\ started \in RecorderStates /\ Sound(started, cfg.format)
        /\ started.manual = vdr.manual
        /\ started = vdr \/ (~IsPlaying /\ Capturing(started))
    BY <1>1, StartSound
  <2>2. /\ vdr' = [started EXCEPT !.manual = started.manual /\ ~started.recording]
        /\ standDown' = (standDown /\ ~started.recording)
        /\ out' = "none" /\ loaded /\ ~vdr.recording
        /\ UNCHANGED <<loaded, cfg, playback, timer>>
    BY <1>3 DEF ToolbarStart
  <2> HIDE DEF started
  <2>3. /\ vdr' \in RecorderStates
        /\ vdr'.manual <=> started.manual /\ ~started.recording
        /\ vdr'.recording = started.recording /\ vdr'.paused = started.paused
        /\ vdr'.file = started.file
        /\ vdr'.fileAge = started.fileAge /\ vdr'.startAge = started.startAge
        /\ vdr'.fresh = started.fresh
    BY <2>1, <2>2 DEF RecorderStates
  <2>4. TypeOK'
    BY <2>2, <2>3 DEF TypeOK, Outcomes
  <2>5. Consistent'
    BY <2>1, <2>2, <2>3 DEF Consistent, Sound
  <2>6. StepPromise
    BY <2>1, <2>2, <2>3 DEF StepPromise, Capturing
  <2>7. QED
    BY <2>4, <2>5, <2>6 DEF Preserved
<1>4. QED
  BY <1>2, <1>3

\* New preferences, while recording or not.
LEMMA PreferencesPreserve ==
  ASSUME TypeOK, Consistent, NEW p \in Prefs, NEW opens \in BOOLEAN,
         ShowPreferencesDialog(p, opens)
  PROVE  Preserved
<1>1. /\ cfg \in Prefs /\ vdr \in RecorderStates /\ Sound(vdr, cfg.format)
      /\ p.format \in Formats
  BY PrefsTyped DEF TypeOK, Consistent
<1>2. /\ vdr' = SetDataFormat(vdr, p.format, opens) /\ cfg' = p /\ out' = "none"
      /\ loaded /\ UNCHANGED <<loaded, playback, timer, standDown>>
  BY DEF ShowPreferencesDialog
<1>3. /\ vdr' \in RecorderStates /\ Sound(vdr', p.format)
      /\ vdr'.manual = vdr.manual
      /\ Capturing(vdr') => Capturing(vdr) \/ ~IsPlaying
      /\ vdr'.recording => vdr.recording
  BY <1>1, <1>2, FormatSound
<1>4. TypeOK'
  BY <1>2, <1>3 DEF TypeOK, Outcomes
<1>5. Consistent'
  BY <1>2, <1>3 DEF Consistent
<1>6. StepPromise
  BY <1>2, <1>3 DEF StepPromise
<1>7. QED
  BY <1>4, <1>5, <1>6 DEF Preserved

\* Loading and unloading the plugin.
LEMMA LifecyclePreserves ==
  ASSUME TypeOK, Consistent, NEW opens \in BOOLEAN, LoadPlugin(opens) \/ DeInit
  PROVE  Preserved
<1> DEFINE r == NewManager(vdr.fresh)
<1>1. cfg.format \in Formats
  BY PrefsTyped DEF TypeOK
<1>2. /\ r \in RecorderStates /\ Sound(r, cfg.format)
      /\ ~r.recording /\ ~r.paused /\ ~r.manual /\ r.file = NoFile
  BY RecorderAssumption DEF TypeOK, NewManager, RecorderStates, Sound, Ages
<1>3. CASE LoadPlugin(opens)
  <2>1. PICK started \in {r, StartRecording(r, cfg.format, opens)} :
          vdr' = [started EXCEPT !.recording = FALSE]
    BY <1>3 DEF LoadPlugin
  <2>2. /\ started \in RecorderStates /\ ~started.manual
        /\ started = r \/ Capturing(started)
    BY <1>1, <1>2, <2>1, StartSound
  <2>3. Sound(started, cfg.format)
    BY <1>1, <1>2, <2>1, StartSound
  <2> HIDE DEF r
  <2>4. /\ vdr' \in RecorderStates /\ ~vdr'.recording
        /\ ~vdr'.manual /\ ~vdr'.paused
        /\ vdr'.fresh # {} => vdr'.startAge = 0
    BY <1>2, <2>1, <2>2, <2>3 DEF RecorderStates, Capturing, Sound
  <2>5. QED
    BY <1>3, <2>4
    DEF LoadPlugin, Preserved, TypeOK, Outcomes, Consistent, Sound, StepPromise, Capturing
<1>4. CASE DeInit
  <2>1. vdr' = r /\ playback' = NoPlayback /\ out' = "none" /\ loaded' = FALSE
        /\ timer' = FALSE /\ UNCHANGED <<cfg, standDown>>
    BY <1>4 DEF DeInit
  <2> HIDE DEF r
  <2>2. QED
    BY <1>2, <2>1
    DEF Preserved, TypeOK, NoPlayback, Outcomes, Consistent, Sound, StepPromise, Capturing
<1>5. QED
  BY <1>3, <1>4

\* The passing of time: what is stored is not re-examined.
LEMMA TickPreserves ==
  ASSUME TypeOK, Consistent, Tick
  PROVE  Preserved
<1>1. \A a \in Ages : Older(a) \in Ages
  BY RecorderAssumption DEF Ages, Older
<1>2. /\ vdr' \in RecorderStates
      /\ vdr'.recording = vdr.recording /\ vdr'.paused = vdr.paused
      /\ vdr'.manual = vdr.manual /\ vdr'.file = vdr.file
      /\ vdr.file # NoFile => vdr'.fileAge = Older(vdr.fileAge)
      /\ vdr'.startAge = Older(vdr.startAge) /\ vdr'.fresh = {}
  BY <1>1 DEF Tick, TypeOK, RecorderStates
<1>3. out' = "none" /\ UNCHANGED <<loaded, cfg, playback, timer, standDown>>
  BY DEF Tick
<1>4. QED
  BY <1>2, <1>3 DEF Preserved, TypeOK, Outcomes, Consistent, Sound, StepPromise, Capturing

\* Every step of the recorder, and every stutter.
LEMMA NextPreserves ==
  ASSUME TypeOK, Consistent, [Next]_vars
  PROVE  Preserved
<1>1. CASE UNCHANGED vars
  BY <1>1, IdlePreserves DEF vars, TypeOK
<1>2. CASE PlaybackMoves
  BY <1>2, IdlePreserves DEF PlaybackMoves, TypeOK, Outcomes
<1>3. ASSUME NEW speed \in Speeds \union {NoSpeed}, NEW opens \in BOOLEAN,
             SetNMEASentence(speed, opens) \/ OnN2KEvent(speed, opens)
      PROVE  Preserved
  BY <1>3, SentencePreserves
<1>4. ASSUME NEW opens \in BOOLEAN, ToolbarStop \/ ToolbarStart(opens)
      PROVE  Preserved
  BY <1>4, ToolbarPreserves
<1>5. ASSUME NEW p \in Prefs, NEW opens \in BOOLEAN, ShowPreferencesDialog(p, opens)
      PROVE  Preserved
  BY <1>5, PreferencesPreserve
<1>6. ASSUME NEW opens \in BOOLEAN, LoadPlugin(opens) \/ DeInit
      PROVE  Preserved
  BY <1>6, LifecyclePreserves
<1>7. CASE Tick
  BY <1>7, TickPreserves
<1>8. QED
  BY <1>1, <1>2, <1>3, <1>4, <1>5, <1>6, <1>7 DEF Next

-----------------------------------------------------------------------------
(* The theorems.                                                           *)

\* The parts of the recording state agree in every reachable state.
THEOREM RecorderInvariant == Spec => [](TypeOK /\ Consistent)
<1>1. Init => TypeOK /\ Consistent
  <2>1. 0 \in Ages
    BY RecorderAssumption DEF Ages
  <2>2. NewManager({}) \in RecorderStates
    BY <2>1 DEF NewManager, RecorderStates
  <2>3. Init => TypeOK
    <3>1. NoPlayback \in [network : BOOLEAN, loopback : BOOLEAN]
      BY DEF NoPlayback
    <3>2. FALSE \in BOOLEAN /\ "none" \in Outcomes
      BY DEF Outcomes
    <3>3. QED
      BY <2>2, <3>1, <3>2, Zenon DEF Init, TypeOK
  <2>4. Init => Consistent
    BY DEF Init, NewManager, Consistent, Sound
  <2>5. QED
    BY <2>3, <2>4
<1>2. TypeOK /\ Consistent /\ [Next]_vars => (TypeOK /\ Consistent)'
  BY NextPreserves DEF Preserved
<1>3. QED
  BY <1>1, <1>2, PTL DEF Spec

\* Every variable of the recorder keeps its type.
THEOREM TypeCorrect == Spec => []TypeOK
  BY RecorderInvariant, PTL

\* A recording stopped by hand stays off until a restart or a slow report.
THEOREM ManualStopSafe == Spec => []ManualStopHonoured
<1>1. Consistent => ManualStopHonoured
  BY DEF Consistent, ManualStopHonoured
<1>2. QED
  BY <1>1, RecorderInvariant, PTL

\* No file is written past its rotation interval.
THEOREM RotationSafe == Spec => []RotationBound
<1>1. Consistent => RotationBound
  BY DEF Consistent, Sound, RotationBound
<1>2. QED
  BY <1>1, RecorderInvariant, PTL

\* Sentences only go to files of their format.
THEOREM FormatSafe == Spec => []StoredInItsFormat
<1>1. Consistent => StoredInItsFormat
  BY DEF Consistent, Sound, StoredInItsFormat
<1>2. QED
  BY <1>1, RecorderInvariant, PTL

\* No step begins to capture while a replay is in progress.
THEOREM ReplayNotRecorded == Spec => NothingStartsDuringReplay
<1>1. TypeOK /\ Consistent /\ [Next]_vars
        => [IsPlaying /\ Capturing(vdr)' => Capturing(vdr)]_vars
  BY NextPreserves DEF Preserved, StepPromise, Capturing
<1>2. QED
  BY <1>1, RecorderInvariant, PTL DEF Spec, NothingStartsDuringReplay

\* A sentence that arrives during a recording empties no file of this second.
THEOREM RotationKeepsFiles == Spec => RotationErasesNothing
<1>1. TypeOK /\ Consistent /\ [Next]_vars
        => [out' # "none" /\ vdr.recording /\ vdr'.erased => vdr.erased]_vars
  BY NextPreserves DEF Preserved, StepPromise
<1>2. QED
  BY <1>1, RecorderInvariant, PTL DEF Spec, RotationErasesNothing

\* The recorder implements the recording session of VdrRecording.
THEOREM RecorderKeepsPromises == Spec => KeepsPromises
<1>1. Init => Promise!Init
  BY DEF Init, NewManager, NoPlayback, Promise!Init, SessionMode, IsPlaying
<1>2. TypeOK /\ Consistent /\ [Next]_vars => [Promise!Next]_(Promise!vars)
  <2> SUFFICES ASSUME TypeOK, Consistent, [Next]_vars
               PROVE  Promise!Next
    OBVIOUS
  <2>1. TypeOK' /\ Consistent' /\ StepPromise
    BY NextPreserves DEF Preserved
  <2>2. IsPlaying' \in BOOLEAN /\ standDown' \in BOOLEAN /\ standDown \in BOOLEAN
    BY <2>1 DEF TypeOK, IsPlaying
  <2>3. (standDown => ~vdr.recording) /\ (standDown' => ~vdr'.recording)
    BY <2>1 DEF Consistent
  <2>4. CASE Capturing(vdr')
    BY <2>1, <2>2, <2>3, <2>4
    DEF StepPromise, Capturing, Promise!Next, Promise!Capture, Promise!Replay, SessionMode
  <2>5. CASE vdr'.recording /\ vdr'.paused
    BY <2>1, <2>2, <2>3, <2>5
    DEF StepPromise, Capturing, Promise!Next, Promise!Pause, Promise!Replay, SessionMode
  <2>6. CASE ~vdr'.recording
    BY <2>1, <2>2, <2>3, <2>6
    DEF StepPromise, Capturing, Promise!Next, Promise!Stop, Promise!Rearm, Promise!Replay,
        SessionMode
  <2>7. QED
    BY <2>4, <2>5, <2>6 DEF Capturing
<1>3. QED
  BY <1>1, <1>2, RecorderInvariant, PTL DEF Spec, KeepsPromises, Promise!Spec

-----------------------------------------------------------------------------
(* Recording by hand: no preference makes the automation look at speeds.   *)

HasFile(r) == ~r.paused /\ (r.recording => r.file # NoFile)

\* Starting and stopping, in any order, keep the file of a recording.
LEMMA StartHasFile ==
  ASSUME NEW r \in RecorderStates, HasFile(r), NEW f \in Formats,
         NEW opens \in BOOLEAN
  PROVE  HasFile(StartRecording(r, f, opens)) /\ HasFile(StopRecording(r))
<1>1. f # NoFile
  BY DEF Formats, NoFile
<1>2. HasFile(OpenFile(r, f, opens))
  BY <1>1 DEF OpenFile, HasFile, RecorderStates
<1>3. HasFile(StartRecording(r, f, opens))
  BY <1>2 DEF StartRecording, HasFile
<1>4. HasFile(StopRecording(r))
  BY DEF StopRecording, HasFile, RecorderStates
<1>5. QED
  BY <1>3, <1>4

\* So do the two procedures that restart a recording.
LEMMA RestartHasFile ==
  ASSUME NEW r \in RecorderStates, HasFile(r), cfg \in Prefs,
         NEW f \in Formats, NEW opens \in BOOLEAN
  PROVE  HasFile(CheckLogRotation(r, opens)) /\ HasFile(SetDataFormat(r, f, opens))
<1> DEFINE s == StopRecording(r)
<1>1. 0 \in Ages /\ cfg.format \in Formats
  BY PrefsTyped, RecorderAssumption DEF Ages
<1>2. s \in RecorderStates /\ HasFile(s)
  BY <1>1, StartHasFile DEF StopRecording, RecorderStates
<1> HIDE DEF s
<1>3. HasFile(StartRecording(s, cfg.format, opens)) /\ HasFile(StartRecording(s, f, opens))
  BY <1>1, <1>2, StartHasFile
<1>4. QED
  BY <1>3 DEF CheckLogRotation, SetDataFormat, s

\* No step of such a recorder pauses, or records without a file.
LEMMA ByHandStep ==
  ASSUME \A p \in Prefs : ~(p.autoStart /\ p.useThreshold),
         TypeOK, HasFile(vdr), [Next]_vars
  PROVE  HasFile(vdr')
<1>1. cfg \in Prefs /\ vdr \in RecorderStates /\ cfg.format \in Formats
  BY PrefsTyped DEF TypeOK
<1>2. ASSUME NEW speed, NEW opens \in BOOLEAN, NEW evenPaused,
             Record(speed, opens, evenPaused)
      PROVE  HasFile(vdr')
  <2> DEFINE rotated == CheckLogRotation(vdr, opens)
  <2>1. CheckAutoRecording(vdr, speed, opens) = vdr
    BY <1>1 DEF CheckAutoRecording, AutoRecordingOn
  <2>2. vdr' = vdr \/ vdr' = Write(rotated)
    BY <1>2, <2>1 DEF Record
  <2>3. HasFile(rotated)
    BY <1>1, RestartHasFile
  <2> HIDE DEF rotated
  <2>4. HasFile(Write(rotated))
    BY <2>3 DEF Write, HasFile
  <2>5. QED
    BY <2>2, <2>4
<1>3. CASE \E s \in Speeds \union {NoSpeed}, opens \in BOOLEAN :
             SetNMEASentence(s, opens) \/ OnN2KEvent(s, opens)
  BY <1>2, <1>3 DEF SetNMEASentence, OnN2KEvent, Disregard
<1>4. CASE ToolbarStop
  <2> DEFINE stopped == StopRecording(vdr)
  <2>1. HasFile(stopped) /\ vdr' = [stopped EXCEPT !.manual = TRUE]
    BY <1>1, <1>4, StartHasFile DEF ToolbarStop
  <2> HIDE DEF stopped
  <2>2. QED
    BY <2>1 DEF HasFile
<1>5. CASE \E opens \in BOOLEAN : ToolbarStart(opens)
  <2>1. PICK opens \in BOOLEAN : ToolbarStart(opens)
    BY <1>5
  <2> DEFINE started == StartRecording(vdr, cfg.format, opens)
  <2>2. /\ HasFile(started)
        /\ vdr' = [started EXCEPT !.manual = started.manual /\ ~started.recording]
    BY <1>1, <2>1, StartHasFile DEF ToolbarStart
  <2> HIDE DEF started
  <2>3. QED
    BY <2>2 DEF HasFile
<1>6. CASE \E p \in Prefs, opens \in BOOLEAN : ShowPreferencesDialog(p, opens)
  BY <1>1, <1>6, PrefsTyped, RestartHasFile DEF ShowPreferencesDialog
<1>7. CASE (\E opens \in BOOLEAN : LoadPlugin(opens)) \/ DeInit
  <2> DEFINE r == NewManager(vdr.fresh)
  <2>1. r \in RecorderStates /\ HasFile(r)
    BY <1>1, RecorderAssumption DEF NewManager, RecorderStates, Ages, HasFile
  <2>2. ASSUME NEW opens \in BOOLEAN, LoadPlugin(opens)
        PROVE  HasFile(vdr')
    <3>1. PICK started \in {r, StartRecording(r, cfg.format, opens)} :
            vdr' = [started EXCEPT !.recording = FALSE]
      BY <2>2 DEF LoadPlugin
    <3>2. HasFile(started)
      BY <1>1, <2>1, <3>1, StartHasFile
    <3> HIDE DEF r
    <3>3. QED
      BY <3>1, <3>2 DEF HasFile
  <2>3. CASE DeInit
    BY <2>1, <2>3 DEF DeInit
  <2>4. QED
    BY <1>7, <2>2, <2>3
<1>8. CASE Tick
  BY <1>1, <1>8 DEF Tick, HasFile, RecorderStates
<1>9. CASE PlaybackMoves \/ UNCHANGED vars
  BY <1>9 DEF PlaybackMoves, vars
<1>10. QED
  BY <1>3, <1>4, <1>5, <1>6, <1>7, <1>8, <1>9 DEF Next

\* If no preference combines automatic recording with a speed threshold, a
\* recording always has a file to write to.
THEOREM ByHandHasFile ==
  ASSUME \A p \in Prefs : ~(p.autoStart /\ p.useThreshold)
  PROVE  Spec => []RecordingHasFile
<1>1. Init => HasFile(vdr)
  BY DEF Init, NewManager, HasFile
<1>2. TypeOK /\ HasFile(vdr) /\ [Next]_vars => HasFile(vdr)'
  BY ByHandStep DEF HasFile
<1>3. HasFile(vdr) => RecordingHasFile
  BY DEF HasFile, RecordingHasFile
<1>4. QED
  BY <1>1, <1>2, <1>3, TypeCorrect, PTL DEF Spec

=============================================================================

# Voyage Data Recorder: a verification project

TLA+ models of the OpenCPN plugin *vdr_pi* (`src/src`), the TLC runs that check
them on small instances, and TLAPS proofs of what matters most for every
instance. Paths below are relative to the repository's `src/` directory; `rpm`
stands for `src/record_play_mgr.cpp`.

## 1. Inventory of the system

The plugin records the NMEA 0183, AIS and NMEA 2000 sentences that the chart
plotter hears, and replays recorded files. Every handler (a sentence callback, a
toolbar tool, a dialog, a timer, a socket event) is called by the GUI event loop
and runs to completion. What is hard is the order of these calls and the state
that one of them leaves for the next. There is one other thread: the loopback
replay reads its log by the vendored CSV library, which reads ahead in a worker.

| Component | State | Operations | Correct when |
|---|---|---|---|
| `RecordPlayMgr`, recording | `m_recording`, `m_recording_paused`, `m_recording_manually_disabled`, `m_ostream`, `m_recording_start`, `m_below_threshold_since`, preferences | sentence callbacks, automatic recording by speed, rotation, change of format, record button, `Init`, `DeInit` | a manual stop is honoured; files are bounded in age; each sentence is in a file of its format and can be read back; a replay is never what starts a recording; the automation pauses and resumes |
| `RecordPlayMgr`, playback | `m_input_file`, `m_istream`, `m_playing`, `m_at_file_end`, time stamps, `m_playback_base_time`, `m_sentence_buffer`, `m_timer` | load, scan, start, pause, stop, seek, `Notify` | the timer runs while playing; the schedule is kept; nothing read is withheld; the file ends |
| `TimestampParser`, time sources | cached date, filter, `m_time_sources`, `m_primary_time_source` | scan, select, parse, `ParseCSVHeader` | the best ordered source is found, with its bounds, and playback reads what the scan saw; nothing of the former file is left |
| `DataMonitorReplayMgr` | state, CSV reader, start time | `Start`, `Pause`, `Notify` (loopback replay) | the timer is that of the last row sent; rows that cannot be read do not stop the replay, unless the reader cannot pass them |
| CSV reader (`LineReader`, `AsynchronousReader`, `CSVReader`) | three blocks of a buffer, request, count and error of the worker | `next_line`, `start_read`, `finish_read`, destructor, worker | lines come whole and in order; the threads keep out of each other's blocks; nobody waits in vain |
| `VdrNetworkServer` | sockets, protocol, port, running flag | `Start`, `Stop`, `SendText` | a server is as its settings say, or is named by the status; what is played goes to the ports of the settings; a start that failed is made up for by the next one |
| `VdrControl`, the panel | enabled buttons, labels, status | load, play/pause/stop button, speed slider, hide | shows what goes on and offers what can be done |
| Preferences, configuration | controls, their enabling, saved settings | opening, check boxes and radio buttons, OK, Cancel, load, save | OK changes what was asked for, to legal values |
| `VdrPi` | manager and panel | `Init`, `DeInit` | settings and file survive, a crash those that the host had stored; toolbar, panel and manager agree |

Interaction. `VdrPi` creates the panel and the manager and passes sentences and
toolbar clicks to the manager. The panel calls the manager directly and reads
its flags to enable its buttons. The manager calls the panel back
(`UpdateControls`, `SetProgress`). The one-shot timer belongs to the manager and
drives both the line reader and the loopback replay. The manager owns one
network server per protocol. Recording and playback share one object, one format
setting and the predicate `IsPlaying()`, whose meaning depends on the replay
mode in force.

The hazards, each with its line and the properties aimed at it, are listed in
`PROJECT.json`.

## 2. Modules

| Module | Models | Instances |
|---|---|---|
| `VdrRecording` | the promise of recording: one session that is off, capturing or paused | |
| `VdrRecorder` | the recording half of `RecordPlayMgr`; implements `VdrRecording` | `MCVdrRecorder` |
| `VdrPlayback` | playback line by line, its schedule, buffer and timer | `MCVdrPlayback` |
| `DmReplay` | the loopback replay | `MCDmReplay` |
| `CsvLines` | the promise of a reader of lines | |
| `CsvReader` | the two threads that read a log; implements `CsvLines` | `MCCsvReader` |
| `VdrCsv` | the rows that are written, and the two readers of rows | `MCVdrCsv` |
| `VdrScan` | time stamps: the parser, the scan, the choice of the source, their use | `MCVdrScan` |
| `VdrNetwork` | the two servers, their sockets and what is sent | `MCVdrNetwork` |
| `VdrSession` | recording and playback together, toolbar, panel, settings, loading, unloading, crashes, files that vanish | `MCVdrSession` |
| `VdrPrefs` | the preferences dialog and the configuration | `MCVdrPrefs` |
| `VdrRecorderProofs`, `VdrPlaybackProofs`, `VdrScanProofs`, `DmReplayProofs`, `CsvProofs`, `VdrNetworkProofs`, `VdrSessionProofs`, `VdrPrefsProofs` | theorems about the modules they are named after; `CsvProofs` is about `CsvReader` and `VdrCsv` | |

How they fit together. `VdrRecorder`, `VdrPlayback` and `DmReplay` each take one
part in full detail with the others fixed; `VdrSession` puts them together and
keeps of each what the others see. `VdrPlayback` takes a file as a sequence of
stamps; that such stamps are what parser and scan find is `VdrScan`. `VdrScan`
takes a sentence or a row as a record of what the parser tells apart; the text
of a row is `VdrCsv`, and below it the bytes of a log are `CsvReader`. What
playback sends in the network mode goes to `VdrNetwork`. `VdrSession` treats the
preferences as one value that is confirmed; where the value comes from is
`VdrPrefs`.

Operators preceded by the comment *A fault* are not part of a specification.
Each is a variant of the definition after it, with a mistake one could make in
the code, and is used to find out whether a property would notice.

### VdrRecorder

`vdr` is a record of the manager's recording state and of what matters about the
disk. The code's procedures (`StartRecording`, `StopRecording`,
`CheckLogRotation`, `CheckAutoRecording`, ...) are operators from a recording
state to a recording state, so a handler that calls several of them is their
composition, in one atomic action: `SetNMEASentence` runs the speed automation,
returns unless recording, rotates and writes, in this order.
`SetNMEASentence` also stands for `SetAISSentence`, which calls it.

| Action | Code |
|---|---|
| `SetNMEASentence`, `OnN2KEvent` | the two sentence callbacks |
| `ToolbarStop`, `ToolbarStart` | the record tool (rpm:768-789) |
| `ShowPreferencesDialog` | OK in either preferences dialog |
| `LoadPlugin`, `DeInit` | `Init` and `DeInit`; settings survive, the rest does not |
| `Tick` | time passes by the resolution of a file name |
| `PlaybackMoves` | whatever the playback half does to `m_playing`, the loopback manager and the timer, which are all that recording sees of it |

Failure: every action that may create a file has a parameter `opens`; it is
FALSE when `wxMkdir` or `wxFile::Open` fails. A write to a closed `wxFile`
loses the sentence (outcome `lost`). The speed is a number of a small set,
already in knots: reading it from RMC or PGN 129026 is not modelled.

Time is kept as ages. The code only ever compares the time since an earlier
moment (`m_recording_start`, `m_below_threshold_since`) with an interval, so an
age that has passed every interval may stop growing: `AgeCap`. The code
truncates an elapsed time to whole hours or minutes before it compares; an age
in units of one tick plays the part of that whole number.

`fresh` is the set of files named after the current second that hold a
sentence, since a second file of that name truncates the first; `erased` says
that this has happened in this second. `standDown`, `erased` and `out` are
history variables: no action's guard depends on them.

### VdrPlayback

A file is a sequence of lines; a line carries a stamp of the file's time source
or none. `Chronological` and `Timed` are what `ScanFileTimestamps` and
`HasValidTimestamps` conclude. One call of `Notify` reads from the current line
up to the first line that stops it: a stamp that is not due yet, or a full batch
in a file without valid stamps. If there is none the file ends (`PlayOut`). The
loop of the code is thus a choice of the least such line.

| Action | Code |
|---|---|
| `TimerFires` | `VdrTimer::Notify` |
| `LoadFile`, `LoadFails` | the load button, `VdrControl::LoadFile`, `RecordPlayMgr::LoadFile`, `ScanFileTimestamps`, `ClearInputFile` |
| `StartPlayback`, `StartFails` | `OnPlayPauseButton` when nothing plays |
| `PausePlayback` | `OnPlayPauseButton` during playback |
| `OnSpeedSliderUpdated` | the speed slider, with `AdjustPlaybackBaseTime` |
| `OnToolbarPlay`, `ClosePanel` | the play tool, the close button of the pane |
| `SetReplayMode` | the preferences dialog, opened from the host at any time |
| `Tick` | time passes |

Time: only the difference between the wall clock and `m_playback_base_time`
matters; it is `clock`. Stamps and the clock are in ticks, of which a second has
`Second`, as a recorder writes milliseconds (rpm:138). At the end of a call that
goes on, `VdrControl::SetProgress` sets the current stamp again, as a whole number
of seconds after the first one (`src/vdr_pi_control.cpp:427-444`, called at
rpm:696-698); the operator `SetProgress` is that cut. It goes downwards, as
`GetProgressFraction` takes whole seconds of both spans (rpm:1813-1821) and rounding
their product gives the number of seconds back. A change of the speed and a start
take the base time from the stamp that
was cut (`Adjusted`), so that lines already sent may lie ahead of the clock by
less than a second of the file. Speeds divide the stamps of the instances
exactly, so the rounding of `GetNextPlaybackTime` is not visible. The recorder is
absent: `m_recording` is false throughout, which is what lets the play tool and
the buttons act; `VdrSession` has both. So is the question whether the file is
still on the disk, which `UpdateControls` asks: it is asked in `VdrSession`.

`pushed` and `read` are history variables: the sentences the last step passed to
`PushNMEABuffer`, and the number of lines it read.

### DmReplay

`mgr` is the replay manager, a record that its procedures (`Started`, `Paused`,
`Notified`) map to a record; `RecordPlayMgr` replaces it as a whole. `wait` is
the one-shot timer, which belongs to `RecordPlayMgr` and survives that. A row
of a log is its time stamp, or `Undated`, or `Unreadable`, or `TooLong`; the reader
of the CSV library is modelled as a number of rows (its threads are `CsvReader`).
It has passed a row that cannot be read when it throws, but not one that is longer
than its block (`csv.h:449-453`): `Jammed` says that this is the next row.

| Action | Code |
|---|---|
| `TimerFires` | `VdrTimer::Notify`, `RecordPlayMgr::Notify`, `DataMonitorReplayMgr::Notify` |
| `LoadFile`, `LoadFails` | the load button; the manager is replaced before the file is opened as text |
| `StartPlayback`, `StartFails` | the play button when nothing plays: `Start`, which calls `Notify` and drops its delay, then `RecordPlayMgr::Notify`; each sends a row |
| `PausePlayback` | the play button during a replay; the timer keeps running |
| `OnToolbarPlay`, `ClosePanel`, `ShowPreferencesDialog` | as in `VdrPlayback`; the replay mode stays what it is |
| `Tick` | time passes |

The code compares the stamps' distance from the first with the time since
`start_time`; the latter is `age`. The parameter `driver` says whether a
loopback driver is found when a manager is constructed. `asked` and `halted`
are history variables: whether the user has started the replay of this file,
and whether hiding the panel has stopped the timer under it.

### CsvReader and CsvLines

The bytes of a text are known by their places in it, so a line that is lost,
repeated, torn or mixed up cannot be mistaken for a right one. `buffer` has the
three blocks of the code, with `begin` and `end` for `data_begin` and
`data_end`. The caller's thread goes through `next_line` in the steps "finish",
"copy", "start", "scan": what it does without the lock is apart from what it
does with it, and `WorkerReads` may come in between wherever the mutex is free.
`asleep` has the threads that wait at their condition variable;
`WakesByItself` is a spurious wake-up. The destructor is the three actions
`RequestTermination`, `NotifyTermination`, `Join`.

`CsvLines` is what a caller is promised: the lines of the text, each once, in
order; the end at the end; a line that is too long refused; and after a failed
read the lines that are in the buffer, perhaps the last one torn. `CsvReader`
implements it (`GivesTheLines`) with `at`, `line` and `outcome`.
The byte-order mark and the numbering of lines are left out, and the byte source
is what `FilteredByteSource` gives: no blank lines and no comments, every line
with its line feed.

### VdrCsv

A text is a sequence of commas, quotes, spaces and other characters. The reader
of the two modes that play line by line takes one step per character
(`ReadQuote`, `ReadOther`, `EndOfRow` for `ParseCsvLineTimestamp`), that of the
library one per column (`ReadColumn` for `chop_next_column` and `parse_line`,
`ColumnEnd` for `find_next_column_end`, `Unescaped` for `unescape`). The header
is read before, by each reader's own rule: `ParseCSVHeader` looks for names that
contain one of two parts (`Sought`, rpm:551-555), `ReadHeader` for the names that
the replay manager tells the library (`Wanted`, `src/dm_replay_mgr.cpp:134-135`),
none of which has one of these parts. What a row says is defined
apart from either reader, by the number of quotes before a comma. The
specification is `RowSpec` over `row` and `place`, so that `CsvProofs` can speak
of it and of `CsvReader` in one module.

### VdrScan

A sentence is a record: accepted by the scanner's grammar or not, its kind, the
digits of its seconds, time and date. `parser` is the `TimestampParser` with the
date it caches and the filter of the primary source; it survives from file to
file, as in the code. The scan takes a step per line with nothing in between
(`ScanSentence`, `ScanRow`, `ScanEnds`); playback takes a step per line
(`Notify`), and `SeekToFraction` reads on from the first line to the stamp it
looks for. What the scan is to find is defined from the file alone (`StampAt`,
`StampedBy`, `Rows`).

| Action | Code |
|---|---|
| `OnLoadButton` | `RecordPlayMgr::LoadFile`, the beginning of `ScanFileTimestamps` |
| `ScanSentence`, `ScanRow`, `ScanEnds` | the loops of `ScanFileTimestamps`, `SelectPrimaryTimeSource` |
| `StartPlayback`, `Notify`, `StopPlayback`, `SeekToFraction` | those of `RecordPlayMgr`, as far as they read stamps |
| `SetReplayMode` | the preferences dialog; in loopback mode nothing is scanned |

### VdrNetwork

`server` is the two servers; `Stopped`, `Started`, `Initialized`, `Destroyed` are
operators on them, and `StartPlayback`, `StopPlayback`, `LoadFile`, `DeInit` compose
them. `ok` says which sockets the system provides. `applied` is a history variable:
settings and file are those of the last start of a playback.

There are no clients. `OnTcpEvent`, which would accept them, is bound to an event
type of the plugin (`src/vdr_network.cpp:24,34`), and the sockets post the
library's own, so it is never called: a client waits in the backlog of the
listening socket until that is deleted. The list of clients stays empty, and
sending over TCP reaches nobody. `SendText` changes no state; what it sends is
the operator `SentBy`, and `Datagrams` (`HandleNetworkPlayback`) says which of the
servers is asked.

### VdrSession

`rec` and `pb` are recording and playback reduced to the flags that others ask
about; `buttons`, `playButton`, `status`, `label` the panel; `toolbar` the
tools that are on. Files have no lines and time is the choice of what happens
next: a sentence may come, be fast or slow, be due for a rotation or not; the
timer may fire if it runs. Each handler ends with the calls of
`UpdateControls` and `SetToolbarToolStatus` that the code makes, and with no
others.

Settings are in three places: in force (`prefs`), in the configuration object of
the host (`config`), stored by the host (`disk`). `SaveConfig` writes to the
second and asks nobody to store it (rpm:896-942); `Flush` is the host doing so. A
`Crash` of the host brings back what is stored, and the name of any file that was
once; `unstored` and `lost` are history variables that remember whether something
was confirmed since the last `Flush` and what a crash may thus have lost. `onDisk`
says whether the file of that name is there: `GetInputFile` is empty otherwise
(rpm:1844-1851), and `UpdateControls` asks it (`HasFile`). `clashed` is a history
variable, see the property `Exclusive`.

### VdrPrefs

A control holds the setting of its name. `config`, `settings` and `held` are the
three places where settings are kept: the configuration, the manager, the
dialog. Every handler of a control is an action that changes its value and the
enabling it is responsible for; `Confirm` is `OnOK` with what the manager does
after it. The configurations found at first include such as nobody saved.

## 3. Runs

Bounds are chosen so that the interesting cases happen, and each is named.
Where no bound is named there is none on the number of steps.

*recorder* (30,000 states). Three speeds: below the hysteresis band, inside it,
at the threshold. Preferences: automation with rotation after two ticks; the
same with the other format, other intervals and another threshold; by hand in
loopback mode; automatic start without threshold and without NMEA 0183.
The first setting also without rotation.
`AgeCap = 3` exceeds the greatest interval (2). Shows type correctness,
`ManualStopHonoured`, `RotationBound`, `StoredInItsFormat`,
`RotationErasesNothing`, the refinement `KeepsPromises`, and the liveness
`SlowVesselIsPaused` and `FastVesselIsRecorded`.

*playback* (11,000). A tick is a quarter of a second (`Second = 4`,
`BatchInterval = 4`). Three files: one stamped every half second, with repeated
stamps, a sentence without stamp, four lines due at once (more than the buffer of
three holds) and a last line that nothing follows; one without stamps, longer than
two batches; one with stamps out of order. Both replay modes, two speeds, a batch
of two. `Horizon = 10` is the last stamp, so a clock that stops there has reached
every schedule. Shows type correctness with the bound of the buffer,
`TimerRunsWhilePlaying`, `NothingWithheld`, `NeverFarAhead`, `BaseRate`, and
`UnattendedPlaybackEnds`.

*replay* (2,500). Three logs, with repeated stamps, rows without a date, rows
that cannot be read (one of them the last), a row that is out of order and one that
is too long, and a file that is no log. `Horizon = 5` is the greatest stamp.
`DefaultDelay = 1`. Shows type correctness (no delay is negative), `OnSchedule`,
`ButtonsTell`, `UnattendedReplayEnds`: a replay left alone ends, or stays for good at
a row that is too long.

*reader* (392,000). Blocks of three bytes, every text of up to eleven bytes with
line feeds anywhere: texts that fill less than two blocks (no worker), exactly
two, and more than three, lines that are too long, failing reads, spurious
wake-ups and a destructor at any time. Shows `NoRace`, the refinement
`GivesTheLines`, and `CallsReturn`.

*csv* (558,000). Every row of up to five characters of the four kinds, every
header of up to three columns of the recorder's kind or of a log's, with names that
are missing or repeated, one header that both readers accept, and every recorded
message of up to three characters. `Wanted` has two of the five names, which the
library treats alike. Shows `RecordedIsRead` and `ReadAsWritten`.

*scan* (226,000). Every raw file of up to three sentences, of which two kinds have
a date and one has none, with several precisions, dates that are missing or
impossible, and sentences that the scan refuses; files of four from a smaller set
in which the date changes; every
CSV file of up to four rows, in order or not, readable or not; each loaded first
or after one of three others, scanned, played and sought in, with changes of the
replay mode. Shows type correctness, `FoundByScan`, `PlaysAsScanned`,
`ForwardOnly`.

*network* (4,000). Five settings for each server: off, TCP on two ports, UDP,
and a port that is not allowed. Shows type correctness, `AsConfigured`,
`GoesOutAsConfigured`, `PlayingAgainHeals`.

*session* (406,000). Three preferences that have every mode, every automation,
both formats, with and without NMEA 2000, and two files, which are interchangeable
(symmetry). Shows type correctness, `SettingsHold`, `Exclusive`, `CanBePaused`,
`ShownAsItIs`.

*prefs* (373,000). Three configurations: none, one edited by hand with values out
of range and unknown ones, one with everything switched on. Spin controls take the ends of
their ranges. `MaxClicks = 4` changes in one dialog or over several: the longest
chain of controls that depend on each other has two check boxes and a mode.
Shows type correctness, `UsableAsChosen`, `OKKeepsTheRest`.

`recorder_no_file`, `playback_resume` and `session_both` are violated: see the
findings.

Fairness. `VdrRecorder`: time passes, `WF(Tick)`. That speed reports keep coming
is no fairness of the code; it is a premise of the two liveness properties. They
also say that in the end nothing but reports and time happens, since a user can
undo anything. `FastVesselIsRecorded` assumes reports that arrive while a file
can be created, infinitely often, and allows any failures in between. It concludes
that sentences are stored infinitely often; a recording that was begun without a
file gets one by the next rotation only, so one that is not rotated is excepted
(`LeftWithoutFile`, the state of the finding below).
`VdrPlayback` and `DmReplay`: time passes and the event loop serves an expired
timer, `WF(Tick)` and `WF(TimerFires)`; the property is about playbacks that the
user leaves alone. A replay whose timer was stopped by hiding the panel is
excepted: it stands still, see below. So is one that has come to a row that is too
long. `CsvReader`: the system schedules both
threads, `WF(MainSteps)` and `WF(WorkerSteps)`; the calls themselves, the
destructor's included, and spurious wake-ups are not required to happen.

## 4. Findings

Where the code does not do what its comments, tests or manual say; each is a
run that TLC finds violated. `PROJECT.json` quotes the text.

- `recorder_no_file`: stopping a recording that the automation has paused leaves
  `m_recording_paused` set. The next start opens no file, and all is lost until
  the next stop and start (rpm:954).
- `playback_resume`: every start reads from the first line, so a resume repeats
  the file (rpm:1105).
- `session_both`: the panel's play button starts a playback during a recording,
  which only the toolbar refuses (rpm:1052).

Reading and modelling also brought up the following, which no run is spent on.
Where a property would be false because of one of these, the property says so.

Recording. An automatic start on load is cancelled by the end of `Init`
(rpm:93 against `src/record_play_mgr.h:644`); the file it opened stays open and
empty. NMEA 2000 messages are stored during a pause (rpm:236 against
`src/record_play_mgr.h:287`). A slow report from before a recording may pause it
at once, as `m_below_threshold_since` outlives the recording (rpm:498). The value
0xFFFF of PGN 129026, not available, is taken for 1274 knots (rpm:223).
`SetDataFormat` restores the start time (rpm:1273) and `StartRecording`
overwrites it. A rotation that cannot create its file ends the recording while
the record tool stays on. Replayed sentences come back from the host and may be
recorded when both go on.

Playback. A restart at the end of the file keeps the base time of the last
sentence and rushes through the file (rpm:1125 against the test plan, line 38).
Sentences left in the buffer at the end of a file are pushed with the next one
(rpm:619, rpm:1872). The sentence that stops the reader is pushed before the wait
for its time (rpm:662). A file whose stamps are out of order is read to its end
by one call, as a line with a stamp never takes the batch branch (rpm:669). In
the mode `kNetwork` a file without stamps is sent by one call, as the buffer that
is counted stays empty (rpm:670). Hiding the panel stops the timer and closes the
file (rpm:743) but leaves `m_playing` set: the panel shows a playback that does
not advance, and a recording is refused. `m_at_file_end` is not initialised by
the constructor (rpm:171-178), so the play button may offer a stop at first.
A seek is lost on the next start, which goes to the first line; in a raw file it
never looks at the first line. After a stop by the load button and Cancel the
panel names no file although the play button would play it.

Loopback. Pausing leaves the timer running, and loading another log does not stop
it: it fires for the new, idle manager, and `Notify` of an idle manager plays
(rpm:1111, `src/dm_replay_mgr.cpp:176`). The panel's clock is not updated during
a replay (`src/vdr_pi_control.cpp:432`). The speed slider is disabled when the
panel is shown in this mode (rpm:762) and never enabled again. When the timer of
another mode fires after the mode was changed and there is no log, the progress
is 0 / 0. A file that is loaded in this mode is not scanned, so in another mode
it is played with the stamps and the filter of its predecessor.

Time stamps. Playback parses sentences that the scan refuses. A primary source
without dates is played with the last date of the file, a day late for what was
before midnight. An impossible date, like February 31, is cached and then makes
stamps invalid. A CSV row that ends before its stamp makes the current stamp
invalid.

CSV reader. A line that is too long stays the next one, so every further call
throws as well (`csv.h:449-453`), and `DataMonitorReplayMgr::Notify` answers 0 to
each (`src/dm_replay_mgr.cpp:186-188`): the replay neither goes on nor ends, and
the timer fires without pause. After a failed read what is in the buffer is still
given, the last line perhaps torn.

Files. The header that the recorder writes, `timestamp,type,id,message` (rpm:991),
has none of the names that the loopback replay requires
(`src/dm_replay_mgr.cpp:134-135`): a recorded file cannot be replayed through the
loopback driver, and says so only by a message. The panel has loaded it by then, as
a text file.

Network. No client is ever accepted (see *VdrNetwork* above), against
`src/vdr_network.h:31-33`. NMEA 2000 text reaches no server while the NMEA 0183
server is enabled, as both kinds of text begin alike (rpm:1239-1250 against
`src/record_play_mgr.h:495-500`). Servers are stopped neither by a pause nor by the
end of a file, and a change of the settings reaches them by the next start of a
playback. When the ports of the two servers are exchanged the first start fails.

Session and settings. When a recording and a playback go on together the toolbar
refuses to stop either and the panel's buttons are disabled. A change of the mode
during a playback leaves the playback running and out of reach. Buttons that were
disabled because of a recording stay so when it ends, until something updates
the panel. When the file that is played is removed or renamed, the next update of
the panel, as by OK in the host's preferences, disables the play button, and the
playback can no longer be paused (rpm:1844-1851, `src/vdr_pi_control.cpp:339`).
Settings that were confirmed are lost by a crash of the host before it has stored
its configuration, as `SaveConfig` does not ask it to (rpm:896-942). A user who
stops and starts a recording within one second empties the file of the first one,
whose name the second takes (rpm:827): `RotationErasesNothing` is about rotation
only. The play button is disabled after the plugin is loaded although the
configuration names a file. Unknown and illegal values of a configuration are
replaced silently when the dialog is confirmed.

## 5. Proofs

All theorems are about the specification with its parameters left open, under
the assumption on the constants that the module names.

`VdrRecorderProofs`, for every set of speeds and preferences, every hysteresis
and every `AgeCap`:

| Theorem | Says |
|---|---|
| `TypeCorrect` | `Spec => []TypeOK` |
| `RecorderInvariant` | `Spec => []Consistent` |
| `ManualStopSafe`, `RotationSafe`, `FormatSafe` | the three safety invariants |
| `ReplayNotRecorded`, `RotationKeepsFiles` | the two action properties |
| `RecorderKeepsPromises` | `VdrRecorder` implements `VdrRecording` |
| `ByHandHasFile` | `RecordingHasFile`, assuming that no preferences combine automatic start with a threshold |

None of the safety invariants is inductive. That rotation bounds the age of the
*file* needs `fileAge = startAge` during a recording; that needs that a recording
with an open file was begun by `OpenFile` and not by resuming a file that `Init`
left open, hence `~recording /\ file # NoFile => ~paused`. That a manual stop
is honoured needs that `m_recording_manually_disabled` is set whenever the
history variable says so, and that it excludes a recording. `Consistent` is the
conjunction of these facts; its part `Sound(r, f)` is stated for an arbitrary
recording state `r`, so that each procedure gets one lemma (it maps typed states
to typed states, sound ones to sound ones, and changes what is recorded only as
described) and each handler follows by composing lemmas. The refinement has one
case per action and uses the same lemmas. The assumption of `ByHandHasFile` is
one on the constants, stated in the theorem.

`VdrPlaybackProofs`, for every set of files and speeds, every batch, every
buffer, every length of a second: all five invariants of the run *playback*.
`Inv` adds to them what the current stamp tells of the lines that were read.
`Passed`: all that was read lies less than a second after the current stamp, which
`SetProgress` has cut (`CutStep`: a cut stamp is not before the first one and less
than a second before what it was). `Follows`: hence the base time, which is set from the
cut stamp, puts all that was read less than a second of the file ahead; as it is
set from the stamp and not from the clock, cuts do not add up.
`Due`: the sentence that the reader waits for will be due when the timer fires,
so that the next call of `Notify` may pass it. The loop of `Notify` is a choice
of the least line that stops it; `Notified` says what that choice gives (by
`LeastMember`), `ReadStep` what reading up to a line does to the
stamps, `PlayUpToStep` and `PlayOutStep` what a call leaves. Everything about
speeds rests on one lemma on division.

`DmReplayProofs`, for every set of logs and every delay: `ReplayTypeCorrect`,
`ReplayTimed`, `ReplayOnSchedule`, `ReplayButtonsTell`. They follow from
`ReplayInvariant`. Its part `Sound(m)` says what the procedures need: a manager
that may read has a log, and once a dated row was read the clock of the replay
runs. Without it a delay is not even a number. That nothing but an idle or
playing manager begins to play is what keeps the buttons right; hence the part
`asked => mgr.state # "idle"`.

`VdrScanProofs`, for every set of files, so for files of any length: all three
invariants and the action property of the run *scan*.

| Theorem | Says |
|---|---|
| `ScanInvariant` | `Spec => []IInv` |
| `ScanTypeCorrect`, `FoundByScanAlways`, `PlaysAsScannedAlways` | the three invariants |
| `ForwardOnlyAlways` | `Spec => ForwardOnly` |

`FoundByScan` and `PlaysAsScanned` speak of a whole file and are not inductive:
of a scan under way they say nothing. `IInv` says what a scan knows after `pos`
lines, defined from the file alone. `RowsSoFar`: the stamps so far are in order,
the first and the last of them are known. `SentencesSoFar`: the parser has no
filter, its date is that of the last sentence that gave one, and each source is
`Known`: its entry has the stamps of its first and its last line and is
chronological exactly if all its stamps are in order. This is where the code
relies on comparing a stamp with the *last* one of its source only; `KnownNext`
proves that enough. The rest of `IInv` is about a file that has been scanned.
`Bounds`: the first and the last stamp are those of two lines and all others lie
between, which follows from the order (`RowExtremes`, `SentenceExtremes`).
`Filtered`: the parser has the filter of the primary source, and if that has no
dates, the last date of the file, which then stays. `Forward`: the current stamp
lies between the bounds, and once a stamp was read no line that is still to come
has an earlier one. That there is a best source if there is one in order
(`BestExists`) rests on the precisions of a file being bounded. The only
arithmetic beyond the linear is that a later date makes a later stamp (`Later`).
The induction that `Precisions` needs is over least members of sets of numbers.

`CsvProofs`, for every size of a block and every text: `KeepsOut`
(`NoRace`), `Assertions` (those of `next_line`) and `LinesAreGiven`
(`GivesTheLines`: `CsvReader` implements `CsvLines`). For the first two the
invariant `Inv` says where the caller's thread may be and how far its data may
reach while a block is requested of the worker: the caller is at "copy" only
after a count was reported and taken, and a line's end it writes lies in the
first two blocks because the data do. The refinement needs the data themselves:
`IInv` adds `Tracks`, that from `begin` to `end` the buffer holds the bytes of
the text that follow those given, that a block which was reported and not taken
over holds the bytes after them, and that all sizes add up to what the worker has
taken; and `Tells`, that a call that ended the text, refused a line or failed did
so because the text says so. `FirstBreak` shows that the line end found is the
next line feed of the text, `NotExhausted` and `TooLongIsSo` that a call without
a line feed in reach is right about the reason. Then each step is a step of
`CsvLines` or a stutter: `GiveLineStep`, `NoMoreLinesStep` and the like give what
the abstract reader gives, the hand-over between the threads is invisible.

`CsvProofs` is also about `VdrCsv`, for every header, every message and rows of
any length: `RecordedIsReadAlways`, `ReadAsWrittenAlways`. The first follows from
`RowsInv`, which says where each reader is on its way through a file that the
recorder wrote: `OnItsWay` for `RecordPlayMgr`, whose field inside the quotes is
the message up to a character and whose place is behind the character's copies in
the row; the library never gets beyond the header (`RecordedRejected`). The second
needs `ReadingInv`, about any row. `Split` says of the reader of `RecordPlayMgr`
at any place of it: it takes itself to be inside quotes just if an odd number of
them precedes (`Outside`), it has as many fields as separators precede, each
column behind it that is written for a value was read as that value, and in the
column it is in it is `Within` that value. That reader looks at a quote together
with the next one, so what has to be shown is that it steps over no separator and
no end of a column (`NotCrossed`). `Chopped` says of the library that its
columns so far are the row's parts, trimmed and unescaped; `EndIsFound` is the
lemma below it: the end that `find_next_column_end` finds from a place outside of
quotes is the next separator or the end of the row, and it finds none just if the
quotes of the whole row are not closed.

`ColumnEnd` and `Unescaped` are functions by recursion along the row, and
`FlattenSeq`, with which the recorder doubles quotes, is one too. The library's
theorems that such a function exists take operators as parameters, so it is shown
for each of them: a set that holds the end of the row and with each position the
one before it holds every position (`DownFrom`; `UpTo` is the other direction),
and a position is put in the set if a function from there to the end satisfies
the equation (`Flattened`, `ColumnEndIs`, `UnescapedIs`).
Then `UnescapedQuoted` says that unescaping undoes the doubling, wherever in a
row the text is.

`VdrNetworkProofs`, for every set of settings: `TypeCorrect`,
`AsConfiguredAlways`, `GoesOutAlways`, `PlayingAgainAlwaysHeals`. The invariant adds
that a server has the one socket of its protocol exactly while it runs. Its part
`Sound(n)` is stated for any pair of servers `n`, so that `Stopped`, `Started`,
`Initialized` and `Destroyed` get a lemma each (what they touch, what they leave)
and the actions compose them. `NoneFails` is the core of the third: for settings
that can be met, a start finds the other server stopped or on its own port,
whatever failed before.

`VdrSessionProofs`, for every set of files and preferences: all five invariants
of the run *session*, from `SessionInvariant`. Three parts of `Inv` hold always:
the types, `SettingsHold`, and `Always` (the record tool is on during a
recording, no line is played at the end of its file; what the host has stored is
what is configured, unless something was confirmed since, which is what makes
`SettingsHold` survive a crash). The fourth, `Calm`, holds
until recording and playback have clashed. It adds to the invariants what they
need: `Quiet`, that only what belongs to the replay mode in force plays, and that
the timer can fire for an idle replay manager, which would begin to play, only
while lines are played; and `Offers`, that while anything plays the load button is
disabled and the play button, if the file is on the disk, is enabled. The operators on recorder and playback have
lemmas for arbitrary states of them. `UpdatedStep` serves every handler that ends
with `UpdateControls`, so that a handler's own proof is about what it does to
recorder and playback. The exception is needed: without it the invariants are
false, as the
run *session_both* shows for one of the three ways around.

`VdrPrefsProofs`, for every set of configurations and directories, every choice
of values within the ranges, and any number of changes: `PrefsTypeCorrect`,
`UsableAlways`, `OKKeepsAlways`. `Inv` says of an open dialog that each
dependent control is enabled as the choices it depends on are made, that the
network panels are as the mode says, and `Kept`: what a control shows, or the
dialog holds for directory and Signal K, is the setting, unless the user changed
it or the control cannot show it. `OKKeepsAlways` is an action property; it
follows from `Kept` for the one step that changes a setting while the dialog is
open.

Model-checked only. The liveness properties, which are out of the prover's
reach: they need fairness and `ENABLED`. Every invariant and every action property
of a passing run, and the two refinements, are stated by a theorem.

## 6. Not modelled, and what is left

Not modelled: the vendored `std::filesystem` (6,000 lines, of which the program
calls one function, for the size of a file), icons and version tables (constant
data), packaging, translations, tests. wxWidgets and the host are external: they
appear as the calls that arrive and as the choices of whether they succeed.
Within modelled components: the text of NMEA 2000 rows, the conversion of speeds
and stamps from their digits, layout, scaling, drawing, logging, the Android copy
of a finished file. The handlers that are to pause playback while the progress
slider is dragged are bound to `wxEVT_SCROLLWIN_*`
(`src/vdr_pi_control.cpp:163-168`), which a `wxSlider` does not send, so no user
can call them; `SeekToFraction`, which only they call, is modelled in `VdrScan` all
the same, as it is a public operation of the manager. `OnTcpEvent` and
`CleanupDeadConnections` of the network server are not modelled, as nothing calls
the first and the second has nothing to do.

Left:

- `CsvReader` gives lines and `VdrCsv` reads rows, each on its own. A module that
  takes the rows of `VdrCsv` from the lines of `CsvLines` would say of the text of
  a whole log what `RecordedIsRead` says of one row. Rows with a line feed inside
  quotes, which either reader takes for two, would have to be kept out of it.
- `VdrScan` takes a row as a record of its stamp and its sentence; a refinement
  mapping from the rows of `VdrCsv` to these records would tie the two together.

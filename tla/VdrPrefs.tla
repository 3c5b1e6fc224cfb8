------------------------------ MODULE VdrPrefs ------------------------------
(***************************************************************************)
(* The preferences dialog (src/src/vdr_pi_prefs.cpp,                       *)
(* src/src/vdr_pi_prefs_net.cpp) between the settings of RecordPlayMgr and *)
(* the configuration they are kept in (src/src/record_play_mgr.cpp).       *)
(*                                                                         *)
(* A control holds the setting of its name.  The values of a configuration *)
(* were saved before, or edited by hand, or are missing.  A threshold is   *)
(* in tenths of a knot.  The dialog is modal: while it is open nothing     *)
(* else changes a setting.  What the settings do is the matter of          *)
(* VdrSession and VdrRecorder.                                             *)
(***************************************************************************)
EXTENDS Integers, FiniteSets

CONSTANTS
  Dirs,        \* directories to record to
  DefaultDir,  \* the host's directory for private data
  Choices,     \* Choices[c]: the values a user enters in spin control c
  Configs,     \* configurations found at first: functions on a set of settings
  MaxClicks    \* bound of the changes a user makes

Checks == {"log_rotate", "auto_start", "use_speed", "nmea0183", "nmea2000"}
Nets == {"0183", "N2K"}

\* The controls of the two network panels.
Enable(n) == IF n = "0183" THEN "enabled_0183" ELSE "enabled_N2K"
Tcp(n) == IF n = "0183" THEN "tcp_0183" ELSE "tcp_N2K"
Port(n) == IF n = "0183" THEN "port_0183" ELSE "port_N2K"
NetControls(n) == {Enable(n), Tcp(n), Port(n)}

Spins == {"interval", "threshold", "stop_delay", "port_0183", "port_N2K"}
Radios == {"format", "mode", "tcp_0183", "tcp_N2K"}
Controls == Checks \union Spins \union Radios \union {"dir", "enabled_0183", "enabled_N2K"}

\* Signal K has its settings but no control.
Settings == Controls \union {"signalK"}

\* The ranges of the spin controls.
Lowest(c) ==
  CASE c \in {"interval", "stop_delay"}    -> 1
    [] c = "threshold"                     -> 0
    [] c \in {"port_0183", "port_N2K"}     -> 1024

Highest(c) ==
  CASE c = "interval"                      -> 168
    [] c = "stop_delay"                    -> 60
    [] c = "threshold"                     -> 200
    [] c \in {"port_0183", "port_N2K"}     -> 65535

Formats == {"raw", "csv"}
Modes == {"internal", "network", "loopback"}
Unknown == "unknown"   \* an integer that stands for none of them
NoRadio == "none"      \* no button of the group is on

\* What LoadConfig may read for a setting.
Values(c) ==
  CASE c \in Spins  -> Int
    [] c = "format" -> Formats \union {Unknown}
    [] c = "mode"   -> Modes \union {Unknown}
    [] c = "dir"    -> Dirs
    [] c \notin Spins \union {"format", "mode", "dir"} -> BOOLEAN

ASSUME PrefsAssumption ==
  /\ DefaultDir \in Dirs
  /\ \A c \in Spins : Choices[c] \subseteq Lowest(c)..Highest(c)
  /\ \A f \in Configs : DOMAIN f \subseteq Settings /\ \A c \in DOMAIN f : f[c] \in Values(c)
  /\ MaxClicks \in Nat

VARIABLES
  config,    \* the configuration
  loaded,    \* the plugin is loaded
  settings,  \* the settings of RecordPlayMgr
  open,      \* the dialog is shown
  held,      \* the settings as the dialog has them
  value,     \* what its controls show
  enabled,   \* the controls that are enabled
  panels,    \* the network panels that are enabled
  touched,   \* history: the controls the user has changed
  clicks     \* history: the number of changes made

dialog == <<open, held, value, enabled, panels, touched>>
vars == <<config, loaded, settings, dialog, clicks>>

\* Legal(c, v): the setting of that name may be v once a user has confirmed it.
Legal(c, v) ==
  CASE c \in Spins     -> v \in Lowest(c)..Highest(c)
    [] c = "format"    -> v \in Formats
    [] c = "mode"      -> v \in Modes
    [] c = "dir"       -> v \in Dirs
    [] c \notin Spins \union {"format", "mode", "dir"} -> v \in BOOLEAN

TypeOK ==
  /\ DOMAIN config \subseteq Settings /\ \A c \in DOMAIN config : config[c] \in Values(c)
  /\ {loaded, open} \subseteq BOOLEAN /\ (open => loaded)
  /\ DOMAIN settings = Settings /\ DOMAIN held = Settings
  /\ \A c \in Settings : {settings[c], held[c]} \subseteq Values(c)
  /\ DOMAIN value = Controls
  /\ open => \A c \in Controls : Legal(c, value[c]) \/ (c = "mode" /\ value[c] = NoRadio)
  /\ enabled \subseteq Controls /\ panels \subseteq Nets
  /\ touched \subseteq Controls
  /\ clicks \in 0..MaxClicks

-----------------------------------------------------------------------------
(* The configuration.                                                      *)

\* The values that LoadConfig takes for settings that are missing.
Default ==
  [c \in Settings |->
    CASE c = "dir"        -> DefaultDir
      [] c = "interval"   -> 24
      [] c = "threshold"  -> 5
      [] c = "stop_delay" -> 10
      [] c = "port_0183"  -> 10111
      [] c = "port_N2K"   -> 10112
      [] c = "format"     -> "raw"
      [] c = "mode"       -> "internal"
      [] OTHER            -> c = "nmea0183"]

\* The settings after LoadConfig.
Loaded(f) ==
  [c \in Settings |-> IF c \in DOMAIN f THEN f[c] ELSE Default[c]]

SaveConfig == config' = settings'

-----------------------------------------------------------------------------
(* The dialog is opened.                                                   *)

\* The value a spin control shows when it is made with v.
Clamped(c, v) ==
  CASE v < Lowest(c)             -> Lowest(c)
    [] v > Highest(c)            -> Highest(c)
    [] v \in Lowest(c)..Highest(c) -> v

\* A fault: the format is taken for one that has a button.
FormatRadioAsIs(s) == s["format"]

\* CreateRecordingTab selects raw NMEA unless the format is known as another.
FormatRadio(s) == IF s["format"] = "csv" THEN "csv" ELSE "raw"

\* CreateReplayTab sets the radio button of the mode.  For an unknown mode it
\* sets none, and the toolkit may leave the first of the group on.
ModeRadio(s) == IF s["mode"] \in Modes THEN {s["mode"]} ELSE {"internal", NoRadio}

\* What the controls show for the settings s.
CreateControls(s) ==
  {[c \in Controls |->
      CASE c \in Spins    -> Clamped(c, s[c])
        [] c = "format"   -> FormatRadio(s)
        [] c = "mode"     -> mode
        [] OTHER          -> s[c]] : mode \in ModeRadio(s)}

\* The controls of the recording tab that depend on others.
Dependent == {"interval", "use_speed", "threshold", "stop_delay"}

\* A fault: the speed is not disabled with automatic recording.
UpdateControlStatesSingly(v) ==
  {c \in Dependent :
     CASE c = "interval"                    -> v["log_rotate"]
       [] c = "use_speed"                   -> v["auto_start"]
       [] c \in {"threshold", "stop_delay"} -> v["use_speed"]}

\* Those of them that UpdateControlStates enables.
UpdateControlStates(v) ==
  {c \in Dependent :
     CASE c = "interval"                    -> v["log_rotate"]
       [] c = "use_speed"                   -> v["auto_start"]
       [] c \in {"threshold", "stop_delay"} -> v["auto_start"] /\ v["use_speed"]}

\* The controls of network panel n that its UpdateControlStates enables.
NetControlStates(v, n) == IF v[Enable(n)] THEN NetControls(n) ELSE {Enable(n)}

\* The network panels that can be used in a mode.
PanelsIn(mode) ==
  {n \in Nets : IF n = "0183" THEN mode = "network" ELSE mode # "loopback"}

ShowPreferencesDialog ==
  /\ loaded /\ ~open
  /\ open' = TRUE
  /\ held' = settings
  /\ value' \in CreateControls(settings)
  /\ enabled' = (Controls \ (Dependent \union UNION {NetControls(n) : n \in Nets}))
                 \union UpdateControlStates(value')
                 \union UNION {NetControlStates(value', n) : n \in Nets}
  /\ panels' = PanelsIn(settings["mode"])
  /\ touched' = {}
  /\ UNCHANGED <<config, loaded, settings, clicks>>

-----------------------------------------------------------------------------
(* The user changes what the controls show.                                *)

\* A control is reached if it is enabled, with the panel it is on.
Usable(c) == c \in enabled /\ \A n \in Nets : c \in NetControls(n) => n \in panels

Changed(c, v) ==
  /\ open /\ Usable(c) /\ clicks < MaxClicks
  /\ value' = [value EXCEPT ![c] = v]
  /\ touched' = touched \union {c}
  /\ clicks' = clicks + 1
  /\ UNCHANGED <<config, loaded, settings, open, held>>

\* OnLogRotateCheck, OnAutoRecordCheck, OnUseSpeedThresholdCheck and
\* OnProtocolCheck.
OnCheck(c) ==
  /\ Changed(c, ~value[c])
  /\ enabled' = (enabled \ Dependent) \union UpdateControlStates(value')
  /\ UNCHANGED panels

OnEnableNetwork(n) ==
  /\ Changed(Enable(n), ~value[Enable(n)])
  /\ enabled' = (enabled \ NetControls(n)) \union NetControlStates(value', n)
  /\ UNCHANGED panels

OnNMEA0183ReplayModeChanged(mode) ==
  /\ Changed("mode", mode)
  /\ panels' = PanelsIn(mode)
  /\ UNCHANGED enabled

\* No handler is bound to the other controls.
OnFormatRadio(format) == Changed("format", format) /\ UNCHANGED <<enabled, panels>>
OnTcpRadio(n, tcp) == Changed(Tcp(n), tcp) /\ UNCHANGED <<enabled, panels>>
OnSpin(c, v) == Changed(c, v) /\ UNCHANGED <<enabled, panels>>

\* The text control shows what OnDirSelect has chosen.
OnDirSelect(d) ==
  /\ open /\ clicks < MaxClicks
  /\ held' = [held EXCEPT !["dir"] = d]
  /\ value' = [value EXCEPT !["dir"] = d]
  /\ touched' = touched \union {"dir"}
  /\ clicks' = clicks + 1
  /\ UNCHANGED <<config, loaded, settings, open, enabled, panels>>

-----------------------------------------------------------------------------
(* The dialog is closed.                                                   *)

\* The replay mode that OnOK finds selected.
SelectedMode == IF value["mode"] \in {"internal", "loopback"} THEN value["mode"] ELSE "network"

\* A fault: disabled network panels are not read.
OnOKEnabled ==
  [c \in Settings |->
     CASE c = "mode"                  -> SelectedMode
       [] c \in {"dir", "signalK"}    -> held[c]
       [] c \in {"port_0183", "port_N2K"} /\ ~Usable(c) -> Default[c]
       [] OTHER                       -> value[c]]

\* The settings the dialog holds after OnOK.
OnOK ==
  [c \in Settings |->
     CASE c = "mode"               -> SelectedMode
       [] c \in {"dir", "signalK"} -> held[c]
       [] OTHER                    -> value[c]]

\* Nothing is left of a dialog that is closed.
NoDialog ==
  /\ open' = FALSE
  /\ held' = Default
  /\ value' = [c \in Controls |-> Default[c]]
  /\ enabled' = {} /\ panels' = {} /\ touched' = {}

\* OK: the dialog returns the settings it holds by then.
Confirm ==
  /\ open
  /\ settings' = OnOK
  /\ SaveConfig
  /\ NoDialog
  /\ UNCHANGED <<loaded, clicks>>

Cancel ==
  /\ open
  /\ NoDialog
  /\ UNCHANGED <<config, loaded, settings, clicks>>

LoadConfig ==
  /\ ~loaded
  /\ loaded' = TRUE
  /\ settings' = Loaded(config)
  /\ UNCHANGED <<config, dialog, clicks>>

DeInit ==
  /\ loaded /\ ~open
  /\ loaded' = FALSE
  /\ UNCHANGED <<settings, dialog, clicks>>
  /\ SaveConfig

Init ==
  /\ config \in Configs
  /\ loaded = FALSE
  /\ settings = Default
  /\ open = FALSE
  /\ held = Default
  /\ value = [c \in Controls |-> Default[c]]
  /\ enabled = {} /\ panels = {} /\ touched = {}
  /\ clicks = 0

Next ==
  \/ LoadConfig
  \/ DeInit
  \/ ShowPreferencesDialog
  \/ \E c \in Checks : OnCheck(c)
  \/ \E n \in Nets : OnEnableNetwork(n) \/ \E tcp \in BOOLEAN : OnTcpRadio(n, tcp)
  \/ \E mode \in Modes : OnNMEA0183ReplayModeChanged(mode)
  \/ \E format \in Formats : OnFormatRadio(format)
  \/ \E c \in Spins : \E v \in Choices[c] : OnSpin(c, v)
  \/ \E d \in Dirs : OnDirSelect(d)
  \/ Confirm
  \/ Cancel

Spec == Init /\ [][Next]_vars

-----------------------------------------------------------------------------
(* Safety.                                                                 *)

\* However the user got there, a control can be used exactly if the choices it
\* depends on are made: four check boxes, the replay mode and the enabling of
\* the network each have a handler of their own that keeps its part of this.
UsableAsChosen ==
  open /\ value["mode"] \in Modes =>
    /\ Usable("interval") <=> value["log_rotate"]
    /\ Usable("use_speed") <=> value["auto_start"]
    /\ \A c \in {"threshold", "stop_delay"} : Usable(c) <=> value["auto_start"] /\ value["use_speed"]
    /\ \A c \in {Tcp("0183"), Port("0183")} : Usable(c) <=> value["mode"] = "network" /\ value[Enable("0183")]
    /\ \A c \in {Tcp("N2K"), Port("N2K")} : Usable(c) <=> value["mode"] # "loopback" /\ value[Enable("N2K")]

\* OK changes nothing that the user did not change, shown or not, enabled or
\* not, but values that the dialog cannot show; and with OK all settings are such
\* as the recorder, the servers and playback are made for, whatever the
\* configuration had: no interval or delay of zero, no port of the system, no
\* format or mode unknown.
OKKeepsTheRest ==
  [][open /\ settings' # settings =>
       \A c \in Settings :
         /\ Legal(c, settings'[c])
         /\ settings'[c] = settings[c] \/ c \in touched \/ ~Legal(c, settings[c])]_vars

=============================================================================

---------------------------- MODULE VdrPrefsProofs ----------------------------
(***************************************************************************)
(* Theorems about VdrPrefs, for every set of configurations and any number *)
(* of changes in the dialog.                                               *)
(***************************************************************************)
EXTENDS VdrPrefs, TLAPS

\* The controls of e are enabled by the choices that v has for others.
EnabledBy(e, v) ==
  /\ "interval" \in e <=> v["log_rotate"]
  /\ "use_speed" \in e <=> v["auto_start"]
  /\ "threshold" \in e <=> v["auto_start"] /\ v["use_speed"]
  /\ "stop_delay" \in e <=> v["auto_start"] /\ v["use_speed"]
  /\ "tcp_0183" \in e <=> v["enabled_0183"]
  /\ "port_0183" \in e <=> v["enabled_0183"]
  /\ "tcp_N2K" \in e <=> v["enabled_N2K"]
  /\ "port_N2K" \in e <=> v["enabled_N2K"]

\* The choices that enable other controls.
Choosing == {"log_rotate", "auto_start", "use_speed", "enabled_0183", "enabled_N2K"}

\* What a control shows or the dialog holds is the setting, unless the user has
\* changed it or it cannot be shown.
Kept ==
  /\ \A c \in Controls : value[c] = settings[c] \/ c \in touched \/ ~Legal(c, settings[c])
  /\ held["signalK"] = settings["signalK"]
  /\ held["dir"] = settings["dir"] \/ "dir" \in touched

\* The inductive invariant.
Inv ==
  /\ TypeOK
  /\ open => /\ EnabledBy(enabled, value)
             /\ value["mode"] \in Modes => panels = PanelsIn(value["mode"])
             /\ Kept

-----------------------------------------------------------------------------
(* Settings and the values they may have.                                  *)

\* The spin controls have ranges.
LEMMA Ranges ==
  ASSUME NEW c \in Spins
  PROVE  Lowest(c) \in Int /\ Highest(c) \in Int /\ Lowest(c) <= Highest(c)
BY DEF Spins, Lowest, Highest

\* What is legal and what may be read, by the kind of setting.
LEMMA Kinds ==
  ASSUME NEW c \in Settings, NEW v
  PROVE  /\ c \in Spins => /\ Legal(c, v) <=> v \in Lowest(c)..Highest(c)
                           /\ v \in Values(c) <=> v \in Int
         /\ c = "format" => /\ Legal(c, v) <=> v \in Formats
                            /\ v \in Values(c) <=> v \in Formats \union {Unknown}
         /\ c = "mode" => /\ Legal(c, v) <=> v \in Modes
                          /\ v \in Values(c) <=> v \in Modes \union {Unknown}
         /\ c = "dir" => /\ Legal(c, v) <=> v \in Dirs
                         /\ v \in Values(c) <=> v \in Dirs
         /\ c \notin Spins \union {"format", "mode", "dir"} =>
              /\ Legal(c, v) <=> v \in BOOLEAN
              /\ v \in Values(c) <=> v \in BOOLEAN
<1>1. CASE c \in Spins
  <2>1. c # "format" /\ c # "mode" /\ c # "dir"
    BY <1>1 DEF Spins
  <2> QED BY <1>1, <2>1 DEF Legal, Values
<1>2. CASE c \in {"format", "mode", "dir"}
  <2>1. c \notin Spins
    BY <1>2 DEF Spins
  <2> QED BY <1>2, <2>1 DEF Legal, Values
<1>3. CASE c \notin Spins \union {"format", "mode", "dir"}
  BY <1>3 DEF Legal, Values
<1> QED BY <1>1, <1>2, <1>3

\* A legal value may be read.
LEMMA LegalValue ==
  ASSUME NEW c \in Settings, NEW v, Legal(c, v)
  PROVE  v \in Values(c)
<1>1. CASE c \in Spins
  BY <1>1, Kinds, Ranges
<1>2. CASE c \notin Spins
  BY <1>2, Kinds
<1> QED BY <1>1, <1>2

\* Every control has its setting.
LEMMA Names ==
  /\ Controls \subseteq Settings /\ Checks \subseteq Controls /\ Spins \subseteq Controls
  /\ "format" \in Controls /\ "mode" \in Controls /\ "dir" \in Controls
  /\ "signalK" \in Settings /\ "signalK" \notin Spins \union {"format", "mode", "dir"}
  /\ \A n \in Nets : {Enable(n), Tcp(n), Port(n)} \subseteq Controls
  /\ Settings = Controls \union {"signalK"}
BY DEF Controls, Settings, Checks, Spins, Radios, Nets, Enable, Tcp, Port

LEMMA DefaultValues ==
  /\ DOMAIN Default = Settings
  /\ \A c \in Settings : Default[c] \in Values(c)
<1>1. DOMAIN Default = Settings
  BY DEF Default
<1>2. ASSUME NEW c \in Settings PROVE Default[c] \in Values(c)
  <2>1. CASE c \in Spins
    <3>1. Default[c] \in Int
      BY <2>1 DEF Default, Spins
    <3> QED BY <2>1, <3>1, Kinds
  <2>2. CASE c \in {"format", "mode", "dir"}
    <3>1. /\ c = "format" => Default[c] = "raw"
          /\ c = "mode" => Default[c] = "internal"
          /\ c = "dir" => Default[c] = DefaultDir
      BY <2>2 DEF Default
    <3> QED BY <2>2, <3>1, Kinds, PrefsAssumption DEF Formats, Modes
  <2>3. CASE c \notin Spins \union {"format", "mode", "dir"}
    <3>1. Default[c] = (c = "nmea0183")
      BY <2>3 DEF Default, Spins
    <3> QED BY <2>3, <3>1, Kinds
  <2> QED BY <2>1, <2>2, <2>3
<1> QED BY <1>1, <1>2

\* A spin control shows a value of its range, and the one it is made with if
\* that is in it.
LEMMA ClampedLegal ==
  ASSUME NEW c \in Spins, NEW v \in Int
  PROVE  /\ Clamped(c, v) \in Lowest(c)..Highest(c)
         /\ v \in Lowest(c)..Highest(c) => Clamped(c, v) = v
BY Ranges DEF Clamped

-----------------------------------------------------------------------------
(* The dialog.                                                             *)

\* What the controls show when they are made.
LEMMA Created ==
  ASSUME NEW s, \A c \in Settings : s[c] \in Values(c), NEW v \in CreateControls(s)
  PROVE  /\ DOMAIN v = Controls
         /\ \A c \in Controls : Legal(c, v[c]) \/ (c = "mode" /\ v[c] = NoRadio)
         /\ \A c \in Controls : v[c] = s[c] \/ ~Legal(c, s[c])
         /\ v["mode"] \in Modes => PanelsIn(s["mode"]) = PanelsIn(v["mode"])
<1>1. PICK m \in ModeRadio(s) :
        v = [c \in Controls |->
               CASE c \in Spins    -> Clamped(c, s[c])
                 [] c = "format"   -> FormatRadio(s)
                 [] c = "mode"     -> m
                 [] OTHER          -> s[c]]
  BY DEF CreateControls
<1>2. ASSUME NEW c \in Controls
      PROVE  /\ Legal(c, v[c]) \/ (c = "mode" /\ v[c] = NoRadio)
             /\ v[c] = s[c] \/ ~Legal(c, s[c])
  <2>1. c \in Settings /\ s[c] \in Values(c)
    BY <1>2, Names
  <2>2. CASE c \in Spins
    <3>1. v[c] = Clamped(c, s[c])
      BY <1>1, <2>2 DEF Spins
    <3>2. s[c] \in Int
      BY <2>1, <2>2, Kinds
    <3> QED BY <2>1, <2>2, <3>1, <3>2, Kinds, ClampedLegal
  <2>3. CASE c = "format"
    <3>1. v[c] = FormatRadio(s)
      BY <1>1, <2>3 DEF Spins
    <3> QED BY <2>1, <2>3, <3>1, Kinds DEF FormatRadio, Formats, Unknown
  <2>4. CASE c = "mode"
    <3>1. v[c] = m
      BY <1>1, <2>4 DEF Spins
    <3> QED BY <2>1, <2>4, <3>1, Kinds DEF ModeRadio, Modes, Unknown
  <2>5. CASE c \notin Spins \union {"format", "mode"}
    <3>1. v[c] = s[c]
      BY <1>1, <2>5
    <3> QED BY <2>1, <2>5, <3>1, Kinds
  <2> QED BY <2>2, <2>3, <2>4, <2>5
<1>3. DOMAIN v = Controls
  BY <1>1
<1>4. ASSUME v["mode"] \in Modes
      PROVE  PanelsIn(s["mode"]) = PanelsIn(v["mode"])
  <2>1. v["mode"] = m
    BY <1>1, Names DEF Spins
  <2>2. s["mode"] \in Modes \union {Unknown}
    BY Names, Kinds
  <2>3. CASE s["mode"] \in Modes
    BY <2>1, <2>3 DEF ModeRadio
  <2>4. CASE s["mode"] \notin Modes
    <3>1. s["mode"] = "unknown" /\ v["mode"] = "internal"
      BY <1>4, <2>1, <2>2, <2>4 DEF ModeRadio, Unknown, NoRadio, Modes
    <3> QED BY <3>1 DEF PanelsIn
  <2> QED BY <2>3, <2>4
<1> QED BY <1>2, <1>3, <1>4

\* What is enabled when the dialog is shown.
LEMMA EnabledAtFirst ==
  ASSUME NEW v,
         NEW e, e = (Controls \ (Dependent \union UNION {NetControls(n) : n \in Nets}))
                     \union UpdateControlStates(v) \union UNION {NetControlStates(v, n) : n \in Nets}
  PROVE  e \subseteq Controls /\ EnabledBy(e, v)
<1>1. UNION {NetControlStates(v, n) : n \in Nets} = NetControlStates(v, "0183") \union NetControlStates(v, "N2K")
  BY DEF Nets
<1>2. UNION {NetControls(n) : n \in Nets} = NetControls("0183") \union NetControls("N2K")
  BY DEF Nets
<1>3. /\ NetControls("0183") = {"enabled_0183", "tcp_0183", "port_0183"}
      /\ NetControls("N2K") = {"enabled_N2K", "tcp_N2K", "port_N2K"}
  BY DEF NetControls, Enable, Tcp, Port
<1>4. /\ NetControlStates(v, "0183") = IF v["enabled_0183"] THEN NetControls("0183") ELSE {"enabled_0183"}
      /\ NetControlStates(v, "N2K") = IF v["enabled_N2K"] THEN NetControls("N2K") ELSE {"enabled_N2K"}
  BY DEF NetControlStates, Enable
<1>5. /\ "interval" \in UpdateControlStates(v) <=> v["log_rotate"]
      /\ "use_speed" \in UpdateControlStates(v) <=> v["auto_start"]
      /\ "threshold" \in UpdateControlStates(v) <=> v["auto_start"] /\ v["use_speed"]
      /\ "stop_delay" \in UpdateControlStates(v) <=> v["auto_start"] /\ v["use_speed"]
      /\ UpdateControlStates(v) \subseteq Dependent
  BY DEF UpdateControlStates, Dependent
<1>6. e = (Controls \ (Dependent \union NetControls("0183") \union NetControls("N2K")))
           \union UpdateControlStates(v) \union NetControlStates(v, "0183") \union NetControlStates(v, "N2K")
  BY <1>1, <1>2
<1>7. e \subseteq Controls
  BY <1>3, <1>4, <1>5, <1>6 DEF Controls, Dependent, Checks, Spins, Radios
<1>8. /\ "interval" \in e <=> v["log_rotate"]
      /\ "use_speed" \in e <=> v["auto_start"]
      /\ "threshold" \in e <=> v["auto_start"] /\ v["use_speed"]
      /\ "stop_delay" \in e <=> v["auto_start"] /\ v["use_speed"]
  BY <1>3, <1>4, <1>5, <1>6 DEF Dependent
<1>9. /\ "tcp_0183" \in e <=> v["enabled_0183"]
      /\ "port_0183" \in e <=> v["enabled_0183"]
      /\ "tcp_N2K" \in e <=> v["enabled_N2K"]
      /\ "port_N2K" \in e <=> v["enabled_N2K"]
  BY <1>3, <1>4, <1>5, <1>6 DEF Dependent
<1> QED BY <1>7, <1>8, <1>9 DEF EnabledBy

\* A check box updates the controls of the recording tab.
LEMMA EnabledByCheck ==
  ASSUME NEW e, e \subseteq Controls, NEW v, EnabledBy(e, v), NEW w,
         w["enabled_0183"] = v["enabled_0183"], w["enabled_N2K"] = v["enabled_N2K"],
         NEW d, d = (e \ Dependent) \union UpdateControlStates(w)
  PROVE  d \subseteq Controls /\ EnabledBy(d, w)
<1>1. /\ "interval" \in UpdateControlStates(w) <=> w["log_rotate"]
      /\ "use_speed" \in UpdateControlStates(w) <=> w["auto_start"]
      /\ "threshold" \in UpdateControlStates(w) <=> w["auto_start"] /\ w["use_speed"]
      /\ "stop_delay" \in UpdateControlStates(w) <=> w["auto_start"] /\ w["use_speed"]
      /\ UpdateControlStates(w) \subseteq Dependent
  BY DEF UpdateControlStates, Dependent
<1>2. Dependent \subseteq Controls
  BY DEF Dependent, Controls, Checks, Spins
<1> QED BY <1>1, <1>2 DEF EnabledBy, Dependent

\* The check box of a network updates the controls of its panel.
LEMMA EnabledByNetwork ==
  ASSUME NEW e, e \subseteq Controls, NEW v, EnabledBy(e, v), NEW w, NEW n \in Nets,
         \A c \in Choosing \ {Enable(n)} : w[c] = v[c],
         NEW d, d = (e \ NetControls(n)) \union NetControlStates(w, n)
  PROVE  d \subseteq Controls /\ EnabledBy(d, w)
<1>1. NetControls(n) \subseteq Controls /\ NetControlStates(w, n) \subseteq NetControls(n)
  BY Names DEF NetControls, NetControlStates
<1>2. d \subseteq Controls
  BY <1>1
<1>3. CASE n = "0183"
  <2>1. /\ NetControls(n) = {"enabled_0183", "tcp_0183", "port_0183"}
        /\ NetControlStates(w, n) = IF w["enabled_0183"] THEN NetControls(n) ELSE {"enabled_0183"}
        /\ Enable(n) = "enabled_0183"
    BY <1>3 DEF NetControls, NetControlStates, Enable, Tcp, Port
  <2> QED BY <1>2, <2>1 DEF EnabledBy, Choosing
<1>4. CASE n = "N2K"
  <2>1. /\ NetControls(n) = {"enabled_N2K", "tcp_N2K", "port_N2K"}
        /\ NetControlStates(w, n) = IF w["enabled_N2K"] THEN NetControls(n) ELSE {"enabled_N2K"}
        /\ Enable(n) = "enabled_N2K"
    BY <1>4 DEF NetControls, NetControlStates, Enable, Tcp, Port
  <2> QED BY <1>2, <2>1 DEF EnabledBy, Choosing
<1> QED BY <1>3, <1>4 DEF Nets

-----------------------------------------------------------------------------
(* The steps.                                                              *)

\* A step that changes no setting and no control.
LEMMA ClosedStep ==
  ASSUME NoDialog, loaded' \in BOOLEAN, clicks' \in 0..MaxClicks,
         DOMAIN config' \subseteq Settings, \A c \in DOMAIN config' : config'[c] \in Values(c),
         DOMAIN settings' = Settings, \A c \in Settings : settings'[c] \in Values(c)
  PROVE  Inv'
<1>1. /\ open' = FALSE /\ held' = Default /\ value' = [c \in Controls |-> Default[c]]
      /\ enabled' = {} /\ panels' = {} /\ touched' = {}
  BY DEF NoDialog
<1>2. DOMAIN held' = Settings /\ \A c \in Settings : held'[c] \in Values(c)
  BY <1>1, DefaultValues
<1>3. DOMAIN value' = Controls
  BY <1>1
<1> QED BY <1>1, <1>2, <1>3 DEF Inv, TypeOK

\* A control is changed, and its handler has enabled what depends on it.
LEMMA ChangedStep ==
  ASSUME Inv, NEW c \in Controls, NEW v, Legal(c, v), Changed(c, v),
         EnabledBy(enabled', value'), enabled' \subseteq Controls, panels' \subseteq Nets,
         value'["mode"] \in Modes => panels' = PanelsIn(value'["mode"])
  PROVE  Inv'
<1>1. TypeOK /\ Kept
  BY DEF Inv, Changed
<1>2. /\ open /\ clicks < MaxClicks
      /\ value' = [value EXCEPT ![c] = v]
      /\ touched' = touched \union {c} /\ clicks' = clicks + 1
      /\ UNCHANGED <<config, loaded, settings, open, held>>
  BY DEF Changed
<1>3. /\ DOMAIN value = Controls /\ DOMAIN value' = Controls
      /\ value'[c] = v /\ \A d \in Controls \ {c} : value'[d] = value[d]
  BY <1>1, <1>2 DEF TypeOK
<1>4. clicks' \in 0..MaxClicks
  BY <1>1, <1>2, PrefsAssumption DEF TypeOK
<1>5. \A d \in Controls : Legal(d, value'[d]) \/ (d = "mode" /\ value'[d] = NoRadio)
  BY <1>1, <1>2, <1>3 DEF TypeOK
<1>6. TypeOK'
  BY <1>1, <1>2, <1>3, <1>4, <1>5 DEF TypeOK
<1>7. Kept'
  <2>1. ASSUME NEW d \in Controls
        PROVE  value'[d] = settings'[d] \/ d \in touched' \/ ~Legal(d, settings'[d])
    <3>1. CASE d = c
      BY <1>2, <3>1
    <3>2. CASE d # c
      BY <1>1, <1>2, <1>3, <3>2 DEF Kept
    <3> QED BY <3>1, <3>2
  <2> QED BY <1>1, <1>2, <2>1 DEF Kept
<1> QED BY <1>6, <1>7 DEF Inv

\* The parts of the invariant of an open dialog.
LEMMA WhileOpen ==
  ASSUME Inv, open
  PROVE  /\ DOMAIN value = Controls /\ enabled \subseteq Controls /\ panels \subseteq Nets
         /\ EnabledBy(enabled, value)
         /\ value["mode"] \in Modes => panels = PanelsIn(value["mode"])
         /\ \A c \in Controls : Legal(c, value[c]) \/ (c = "mode" /\ value[c] = NoRadio)
BY DEF Inv, TypeOK

\* No handler is bound to a control that enables no other.
LEMMA UnboundStep ==
  ASSUME Inv, NEW c \in Controls \ (Choosing \union {"mode"}), NEW v, Legal(c, v),
         Changed(c, v), UNCHANGED <<enabled, panels>>
  PROVE  Inv'
<1>1. open /\ value' = [value EXCEPT ![c] = v]
  BY DEF Changed
<1>2. \A d \in Choosing \union {"mode"} : value'[d] = value[d]
  <2>1. Choosing \union {"mode"} \subseteq Controls
    BY Names DEF Choosing, Controls, Checks, Nets, Enable
  <2> QED BY <1>1, <2>1, WhileOpen
<1>3. EnabledBy(enabled', value')
  BY <1>1, <1>2, WhileOpen DEF EnabledBy, Choosing
<1> QED BY <1>1, <1>2, <1>3, WhileOpen, ChangedStep

LEMMA CheckStep ==
  ASSUME Inv, NEW c \in Checks, OnCheck(c)
  PROVE  Inv'
<1>1. /\ Changed(c, ~value[c]) /\ open /\ value' = [value EXCEPT ![c] = ~value[c]]
      /\ enabled' = (enabled \ Dependent) \union UpdateControlStates(value')
      /\ panels' = panels
  BY DEF OnCheck, Changed
<1>2. c \in Controls /\ c \in Settings /\ Legal(c, ~value[c])
  <2>1. c \notin Spins \union {"format", "mode", "dir"}
    BY DEF Checks, Spins
  <2> QED BY <2>1, Names, Kinds
<1>3. value'["enabled_0183"] = value["enabled_0183"] /\ value'["enabled_N2K"] = value["enabled_N2K"]
      /\ value'["mode"] = value["mode"]
  BY <1>1, <1>2, WhileOpen DEF Checks, Controls
<1>4. EnabledBy(enabled', value') /\ enabled' \subseteq Controls
  BY <1>1, <1>3, WhileOpen, EnabledByCheck
<1> QED BY <1>1, <1>2, <1>3, <1>4, WhileOpen, ChangedStep

LEMMA EnableNetworkStep ==
  ASSUME Inv, NEW n \in Nets, OnEnableNetwork(n)
  PROVE  Inv'
<1> DEFINE c == Enable(n)
<1>1. /\ Changed(c, ~value[c]) /\ open /\ value' = [value EXCEPT ![c] = ~value[c]]
      /\ enabled' = (enabled \ NetControls(n)) \union NetControlStates(value', n)
      /\ panels' = panels
  BY DEF OnEnableNetwork, Changed
<1>2. c \in Controls /\ c \in Settings /\ Legal(c, ~value[c]) /\ c # "mode"
  <2>1. c \in {"enabled_0183", "enabled_N2K"}
    BY DEF Enable
  <2>2. c \notin Spins \union {"format", "mode", "dir"}
    BY <2>1 DEF Spins
  <2> QED BY <2>1, <2>2, Names, Kinds
<1>3. \A d \in (Choosing \union {"mode"}) \ {c} : value'[d] = value[d]
  <2>1. Choosing \union {"mode"} \subseteq Controls
    BY Names DEF Choosing, Controls, Checks, Nets, Enable
  <2> QED BY <1>1, <2>1, WhileOpen
<1>4. EnabledBy(enabled', value') /\ enabled' \subseteq Controls
  <2>1. \A d \in Choosing \ {Enable(n)} : value'[d] = value[d]
    BY <1>3
  <2>2. enabled \subseteq Controls /\ EnabledBy(enabled, value)
    BY <1>1, WhileOpen
  <2>3. enabled' = (enabled \ NetControls(n)) \union NetControlStates(value', n)
    BY <1>1
  <2> QED BY <2>1, <2>2, <2>3, EnabledByNetwork
<1> HIDE DEF c
<1> QED BY <1>1, <1>2, <1>3, <1>4, WhileOpen, ChangedStep

LEMMA ModeStep ==
  ASSUME Inv, NEW mode \in Modes, OnNMEA0183ReplayModeChanged(mode)
  PROVE  Inv'
<1>1. /\ Changed("mode", mode) /\ open /\ value' = [value EXCEPT !["mode"] = mode]
      /\ enabled' = enabled /\ panels' = PanelsIn(mode)
  BY DEF OnNMEA0183ReplayModeChanged, Changed
<1>2. "mode" \in Controls /\ "mode" \in Settings /\ Legal("mode", mode)
  BY Names, Kinds
<1>3. value'["mode"] = mode /\ \A d \in Choosing : value'[d] = value[d]
  <2>1. Choosing \subseteq Controls /\ "mode" \notin Choosing
    BY Names DEF Choosing, Controls, Checks, Nets, Enable
  <2> QED BY <1>1, <1>2, <2>1, WhileOpen
<1>4. EnabledBy(enabled', value')
  BY <1>1, <1>3, WhileOpen DEF EnabledBy, Choosing
<1>5. panels' \subseteq Nets
  BY <1>1 DEF PanelsIn
<1> QED BY <1>1, <1>2, <1>3, <1>4, <1>5, WhileOpen, ChangedStep

\* The other controls.
LEMMA OtherControlStep ==
  ASSUME Inv,
         \/ \E format \in Formats : OnFormatRadio(format)
         \/ \E n \in Nets, tcp \in BOOLEAN : OnTcpRadio(n, tcp)
         \/ \E c \in Spins : \E v \in Choices[c] : OnSpin(c, v)
  PROVE  Inv'
<1>1. CASE \E format \in Formats : OnFormatRadio(format)
  <2>1. PICK format \in Formats : OnFormatRadio(format)
    BY <1>1
  <2>2. "format" \in Controls \ (Choosing \union {"mode"}) /\ Legal("format", format)
    BY Names, Kinds DEF Choosing
  <2> QED BY <2>1, <2>2, UnboundStep DEF OnFormatRadio
<1>2. CASE \E n \in Nets, tcp \in BOOLEAN : OnTcpRadio(n, tcp)
  <2>1. PICK n \in Nets, tcp \in BOOLEAN : OnTcpRadio(n, tcp)
    BY <1>2
  <2>2. Tcp(n) \in {"tcp_0183", "tcp_N2K"}
    BY DEF Tcp
  <2>3. Tcp(n) \notin Spins \union {"format", "mode", "dir"}
    BY <2>2 DEF Spins
  <2>4. Tcp(n) \in Controls \ (Choosing \union {"mode"}) /\ Legal(Tcp(n), tcp)
    BY <2>2, <2>3, Names, Kinds DEF Choosing
  <2> QED BY <2>1, <2>4, UnboundStep DEF OnTcpRadio
<1>3. CASE \E c \in Spins : \E v \in Choices[c] : OnSpin(c, v)
  <2> PICK c \in Spins : \E v \in Choices[c] : OnSpin(c, v)
    BY <1>3
  <2>1. PICK v \in Choices[c] : OnSpin(c, v)
    OBVIOUS
  <2>2. v \in Lowest(c)..Highest(c)
    BY PrefsAssumption
  <2>3. c \in Controls \ (Choosing \union {"mode"}) /\ Legal(c, v)
    BY <2>2, Names, Kinds DEF Spins, Choosing
  <2> QED BY <2>1, <2>3, UnboundStep DEF OnSpin
<1> QED BY <1>1, <1>2, <1>3

LEMMA DirStep ==
  ASSUME Inv, NEW d \in Dirs, OnDirSelect(d)
  PROVE  Inv'
<1>1. /\ open /\ clicks < MaxClicks
      /\ held' = [held EXCEPT !["dir"] = d] /\ value' = [value EXCEPT !["dir"] = d]
      /\ touched' = touched \union {"dir"} /\ clicks' = clicks + 1
      /\ UNCHANGED <<config, loaded, settings, open, enabled, panels>>
  BY DEF OnDirSelect
<1>2. TypeOK /\ Kept
  BY <1>1 DEF Inv
<1>3. "dir" \in Settings /\ Legal("dir", d) /\ d \in Values("dir")
  BY Names, Kinds
<1>4. /\ DOMAIN value' = Controls /\ value'["dir"] = d
      /\ \A c \in Controls \ {"dir"} : value'[c] = value[c]
      /\ DOMAIN held' = Settings /\ held'["dir"] = d
      /\ \A c \in Settings \ {"dir"} : held'[c] = held[c]
  BY <1>1, <1>2, Names DEF TypeOK
<1>5. clicks' \in 0..MaxClicks
  BY <1>1, <1>2, PrefsAssumption DEF TypeOK
<1>6. \A c \in Controls : Legal(c, value'[c]) \/ (c = "mode" /\ value'[c] = NoRadio)
  BY <1>1, <1>2, <1>3, <1>4 DEF TypeOK
<1>7. \A c \in Settings : {settings'[c], held'[c]} \subseteq Values(c)
  <2>1. ASSUME NEW c \in Settings PROVE {settings'[c], held'[c]} \subseteq Values(c)
    <3>1. {settings[c], held[c]} \subseteq Values(c)
      BY <1>2 DEF TypeOK
    <3> QED BY <1>1, <1>3, <1>4, <3>1
  <2> QED BY <2>1
<1>8. TypeOK'
  BY <1>1, <1>2, <1>4, <1>5, <1>6, <1>7, Names DEF TypeOK
<1>9. EnabledBy(enabled', value')
  <2>1. Choosing \subseteq Controls \ {"dir"}
    BY DEF Choosing, Controls, Checks
  <2> QED BY <1>1, <1>4, <2>1, WhileOpen DEF EnabledBy, Choosing
<1>10. value'["mode"] \in Modes => panels' = PanelsIn(value'["mode"])
  BY <1>1, <1>4, Names, WhileOpen
<1>11. Kept'
  <2>1. ASSUME NEW c \in Controls
        PROVE  value'[c] = settings'[c] \/ c \in touched' \/ ~Legal(c, settings'[c])
    <3>1. CASE c = "dir"
      BY <1>1, <3>1
    <3>2. CASE c # "dir"
      BY <1>1, <1>2, <1>4, <3>2 DEF Kept
    <3> QED BY <3>1, <3>2
  <2>2. held'["signalK"] = settings'["signalK"]
    BY <1>1, <1>2, <1>4, Names DEF Kept
  <2> QED BY <1>1, <2>1, <2>2 DEF Kept
<1> QED BY <1>8, <1>9, <1>10, <1>11 DEF Inv

LEMMA ShowStep ==
  ASSUME Inv, ShowPreferencesDialog
  PROVE  Inv'
<1>1. /\ loaded /\ open' = TRUE /\ held' = settings
      /\ value' \in CreateControls(settings)
      /\ enabled' = (Controls \ (Dependent \union UNION {NetControls(n) : n \in Nets}))
                     \union UpdateControlStates(value')
                     \union UNION {NetControlStates(value', n) : n \in Nets}
      /\ panels' = PanelsIn(settings["mode"]) /\ touched' = {}
      /\ UNCHANGED <<config, loaded, settings, clicks>>
  BY DEF ShowPreferencesDialog
<1>2. TypeOK
  BY DEF Inv
<1>3. DOMAIN settings = Settings /\ \A c \in Settings : settings[c] \in Values(c)
  BY <1>2 DEF TypeOK
<1>4. /\ DOMAIN value' = Controls
      /\ \A c \in Controls : Legal(c, value'[c]) \/ (c = "mode" /\ value'[c] = NoRadio)
      /\ \A c \in Controls : value'[c] = settings[c] \/ ~Legal(c, settings[c])
      /\ value'["mode"] \in Modes => PanelsIn(settings["mode"]) = PanelsIn(value'["mode"])
  BY <1>1, <1>3, Created
<1>5. enabled' \subseteq Controls /\ EnabledBy(enabled', value')
  BY <1>1, EnabledAtFirst
<1>6. panels' \subseteq Nets
  BY <1>1 DEF PanelsIn
<1>7. TypeOK'
  BY <1>1, <1>2, <1>3, <1>4, <1>5, <1>6 DEF TypeOK
<1>8. Kept'
  BY <1>1, <1>4 DEF Kept
<1> QED BY <1>1, <1>4, <1>5, <1>7, <1>8 DEF Inv

\* What OK makes of the settings.
LEMMA Confirmed ==
  ASSUME Inv, open
  PROVE  /\ DOMAIN OnOK = Settings
         /\ \A c \in Settings :
              /\ Legal(c, OnOK[c])
              /\ OnOK[c] = settings[c] \/ c \in touched \/ ~Legal(c, settings[c])
<1>1. DOMAIN OnOK = Settings
  BY DEF OnOK
<1>2. TypeOK /\ Kept
  BY DEF Inv
<1>3. ASSUME NEW c \in Settings
      PROVE  /\ Legal(c, OnOK[c])
             /\ OnOK[c] = settings[c] \/ c \in touched \/ ~Legal(c, settings[c])
  <2>1. settings[c] \in Values(c) /\ held[c] \in Values(c)
    BY <1>2 DEF TypeOK
  <2>2. CASE c = "mode"
    <3>1. OnOK[c] = SelectedMode
      BY <2>2 DEF OnOK
    <3>2. SelectedMode \in Modes /\ (value["mode"] \in Modes => SelectedMode = value["mode"])
      BY DEF SelectedMode, Modes
    <3>3. value[c] = settings[c] \/ c \in touched \/ ~Legal(c, settings[c])
      BY <1>2, <2>2, Names DEF Kept
    <3> QED BY <2>2, <3>1, <3>2, <3>3, Kinds
  <2>3. CASE c \in {"dir", "signalK"}
    <3>1. OnOK[c] = held[c]
      BY <2>3 DEF OnOK
    <3>2. Legal(c, held[c])
      BY <2>1, <2>3, Names, Kinds
    <3> QED BY <1>2, <2>3, <3>1, <3>2 DEF Kept
  <2>4. CASE c \notin {"mode", "dir", "signalK"}
    <3>1. c \in Controls
      BY <2>4, Names
    <3>2. OnOK[c] = value[c]
      BY <2>4 DEF OnOK
    <3> QED BY <1>2, <2>4, <3>1, <3>2, WhileOpen DEF Kept
  <2> QED BY <2>2, <2>3, <2>4
<1> QED BY <1>1, <1>3

LEMMA ConfirmStep ==
  ASSUME Inv, Confirm
  PROVE  Inv'
<1>1. open /\ settings' = OnOK /\ config' = settings' /\ NoDialog /\ UNCHANGED <<loaded, clicks>>
  BY DEF Confirm, SaveConfig
<1>2. loaded \in BOOLEAN /\ clicks \in 0..MaxClicks
  BY DEF Inv, TypeOK
<1>3. \A c \in Settings : OnOK[c] \in Values(c)
  BY <1>1, Confirmed, LegalValue
<1> QED BY <1>1, <1>2, <1>3, Confirmed, ClosedStep

\* Cancel leaves what was there.
LEMMA CancelStep ==
  ASSUME Inv, Cancel
  PROVE  Inv'
<1>1. NoDialog /\ UNCHANGED <<config, loaded, settings, clicks>>
  BY DEF Cancel
<1>2. /\ loaded \in BOOLEAN /\ clicks \in 0..MaxClicks
      /\ DOMAIN config \subseteq Settings /\ \A c \in DOMAIN config : config[c] \in Values(c)
      /\ DOMAIN settings = Settings /\ \A c \in Settings : settings[c] \in Values(c)
  BY DEF Inv, TypeOK
<1> QED BY <1>1, <1>2, ClosedStep

LEMMA LoadStep ==
  ASSUME Inv, LoadConfig
  PROVE  Inv' /\ ~open
<1>1. /\ ~loaded /\ loaded' = TRUE /\ settings' = Loaded(config)
      /\ UNCHANGED <<config, open, held, value, enabled, panels, touched, clicks>>
  BY DEF LoadConfig, dialog
<1>2. TypeOK /\ ~open
  BY <1>1 DEF Inv, TypeOK
<1>3. DOMAIN settings' = Settings /\ \A c \in Settings : settings'[c] \in Values(c)
  <2>1. DOMAIN settings' = Settings
    BY <1>1 DEF Loaded
  <2>2. ASSUME NEW c \in Settings PROVE settings'[c] \in Values(c)
    <3>1. settings'[c] = IF c \in DOMAIN config THEN config[c] ELSE Default[c]
      BY <1>1 DEF Loaded
    <3> QED BY <1>2, <3>1, DefaultValues DEF TypeOK
  <2> QED BY <2>1, <2>2
<1>4. \A c \in Settings : {settings'[c], held'[c]} \subseteq Values(c)
  BY <1>1, <1>2, <1>3 DEF TypeOK
<1>5. TypeOK'
  BY <1>1, <1>2, <1>3, <1>4 DEF TypeOK
<1> QED BY <1>1, <1>2, <1>5 DEF Inv

LEMMA DeInitStep ==
  ASSUME Inv, DeInit
  PROVE  Inv'
<1>1. /\ ~open /\ loaded' = FALSE /\ config' = settings
      /\ UNCHANGED <<settings, open, held, value, enabled, panels, touched, clicks>>
  BY DEF DeInit, SaveConfig, dialog
<1>2. TypeOK
  BY DEF Inv
<1>3. DOMAIN config' = Settings /\ \A c \in DOMAIN config' : config'[c] \in Values(c)
  BY <1>1, <1>2 DEF TypeOK
<1>4. TypeOK'
  BY <1>1, <1>2, <1>3 DEF TypeOK
<1> QED BY <1>1, <1>4 DEF Inv

LEMMA InitInv ==
  ASSUME Init
  PROVE  Inv
<1>1. /\ config \in Configs /\ loaded = FALSE /\ settings = Default /\ open = FALSE
      /\ held = Default /\ value = [c \in Controls |-> Default[c]]
      /\ enabled = {} /\ panels = {} /\ touched = {} /\ clicks = 0
  BY DEF Init
<1>2. DOMAIN config \subseteq Settings /\ \A c \in DOMAIN config : config[c] \in Values(c)
  BY <1>1, PrefsAssumption
<1>3. 0 \in 0..MaxClicks
  BY PrefsAssumption
<1>4. \A c \in Settings : {settings[c], held[c]} \subseteq Values(c)
  BY <1>1, DefaultValues
<1>5. TypeOK
  BY <1>1, <1>2, <1>3, <1>4, DefaultValues DEF TypeOK
<1> QED BY <1>1, <1>5 DEF Inv

LEMMA NextInv ==
  ASSUME Inv, [Next]_vars
  PROVE  Inv'
<1>1. CASE LoadConfig
  BY <1>1, LoadStep
<1>2. CASE DeInit
  BY <1>2, DeInitStep
<1>3. CASE ShowPreferencesDialog
  BY <1>3, ShowStep
<1>4. CASE \E c \in Checks : OnCheck(c)
  BY <1>4, CheckStep
<1>5. CASE \E n \in Nets : OnEnableNetwork(n)
  BY <1>5, EnableNetworkStep
<1>6. CASE \E mode \in Modes : OnNMEA0183ReplayModeChanged(mode)
  BY <1>6, ModeStep
<1>7. CASE \/ \E format \in Formats : OnFormatRadio(format)
           \/ \E n \in Nets, tcp \in BOOLEAN : OnTcpRadio(n, tcp)
           \/ \E c \in Spins : \E v \in Choices[c] : OnSpin(c, v)
  BY <1>7, OtherControlStep
<1>8. CASE \E d \in Dirs : OnDirSelect(d)
  BY <1>8, DirStep
<1>9. CASE Confirm
  BY <1>9, ConfirmStep
<1>10. CASE Cancel
  BY <1>10, CancelStep
<1>11. CASE UNCHANGED vars
  BY <1>11 DEF vars, dialog, Inv, TypeOK, EnabledBy, Kept
<1> QED BY <1>1, <1>2, <1>3, <1>4, <1>5, <1>6, <1>7, <1>8, <1>9, <1>10, <1>11 DEF Next

-----------------------------------------------------------------------------
(* The theorems.                                                           *)

\* However often the dialog is opened, changed, confirmed and cancelled, and
\* whatever the configuration had, what is enabled follows from what is shown,
\* and what is shown is the setting unless the user has changed it or the
\* control cannot show it.
THEOREM PrefsInvariant == Spec => []Inv
<1>1. Init => Inv
  BY InitInv
<1>2. Inv /\ [Next]_vars => Inv'
  BY NextInv
<1> QED BY <1>1, <1>2, PTL DEF Spec

\* The controls of an open dialog show legal values, and the settings are such
\* as LoadConfig reads or OnOK makes.
THEOREM PrefsTypeCorrect == Spec => []TypeOK
<1>1. Inv => TypeOK
  BY DEF Inv
<1> QED BY <1>1, PrefsInvariant, PTL

\* A control of the dialog can be used exactly if the choices it depends on are
\* made: the four handlers of check boxes, the one of the replay mode and those
\* of the two network panels together leave nothing enabled that is of no use.
THEOREM UsableAlways == Spec => []UsableAsChosen
<1>1. ASSUME Inv PROVE UsableAsChosen
  <2>1. SUFFICES ASSUME open, value["mode"] \in Modes
        PROVE  /\ Usable("interval") <=> value["log_rotate"]
               /\ Usable("use_speed") <=> value["auto_start"]
               /\ \A c \in {"threshold", "stop_delay"} : Usable(c) <=> value["auto_start"] /\ value["use_speed"]
               /\ \A c \in {Tcp("0183"), Port("0183")} : Usable(c) <=> value["mode"] = "network" /\ value[Enable("0183")]
               /\ \A c \in {Tcp("N2K"), Port("N2K")} : Usable(c) <=> value["mode"] # "loopback" /\ value[Enable("N2K")]
    BY DEF UsableAsChosen
  <2>2. EnabledBy(enabled, value) /\ panels = PanelsIn(value["mode"])
    BY <1>1, <2>1 DEF Inv
  <2>3. /\ NetControls("0183") = {"enabled_0183", "tcp_0183", "port_0183"}
        /\ NetControls("N2K") = {"enabled_N2K", "tcp_N2K", "port_N2K"}
        /\ Nets = {"0183", "N2K"}
        /\ Tcp("0183") = "tcp_0183" /\ Port("0183") = "port_0183" /\ Enable("0183") = "enabled_0183"
        /\ Tcp("N2K") = "tcp_N2K" /\ Port("N2K") = "port_N2K" /\ Enable("N2K") = "enabled_N2K"
    BY DEF NetControls, Nets, Tcp, Port, Enable
  <2>4. \A c \in {"interval", "use_speed", "threshold", "stop_delay"} : Usable(c) <=> c \in enabled
    BY <2>3 DEF Usable
  <2>5. /\ \A c \in {"tcp_0183", "port_0183"} : Usable(c) <=> c \in enabled /\ "0183" \in panels
        /\ \A c \in {"tcp_N2K", "port_N2K"} : Usable(c) <=> c \in enabled /\ "N2K" \in panels
    BY <2>3 DEF Usable
  <2>6. /\ "0183" \in panels <=> value["mode"] = "network"
        /\ "N2K" \in panels <=> value["mode"] # "loopback"
    BY <2>2 DEF PanelsIn, Nets
  <2> QED BY <2>2, <2>3, <2>4, <2>5, <2>6 DEF EnabledBy
<1> QED BY <1>1, PrefsInvariant, PTL

\* OK changes only what the user has changed or the dialog cannot show, shown or
\* not, enabled or not, and leaves every setting legal.
THEOREM OKKeepsAlways == Spec => OKKeepsTheRest
<1>1. ASSUME Inv, [Next]_vars, open, settings' # settings
      PROVE  \A c \in Settings :
               /\ Legal(c, settings'[c])
               /\ settings'[c] = settings[c] \/ c \in touched \/ ~Legal(c, settings[c])
  <2>1. CASE Confirm
    BY <1>1, <2>1, Confirmed DEF Confirm
  <2>2. CASE ~Confirm
    <3>1. ~LoadConfig
      BY <1>1, LoadStep
    <3>2. \/ DeInit \/ ShowPreferencesDialog \/ Cancel \/ UNCHANGED vars
          \/ \E c \in Checks : OnCheck(c)
          \/ \E n \in Nets : OnEnableNetwork(n) \/ \E tcp \in BOOLEAN : OnTcpRadio(n, tcp)
          \/ \E mode \in Modes : OnNMEA0183ReplayModeChanged(mode)
          \/ \E format \in Formats : OnFormatRadio(format)
          \/ \E c \in Spins : \E v \in Choices[c] : OnSpin(c, v)
          \/ \E d \in Dirs : OnDirSelect(d)
      BY <1>1, <2>2, <3>1 DEF Next
    <3>3. settings' = settings
      BY <3>2 DEF DeInit, ShowPreferencesDialog, Cancel, vars, OnCheck, OnEnableNetwork, OnTcpRadio,
                  OnNMEA0183ReplayModeChanged, OnFormatRadio, OnSpin, OnDirSelect, Changed
    <3> QED BY <1>1, <3>3
  <2> QED BY <2>1, <2>2
<1>2. Inv /\ [Next]_vars =>
        [open /\ settings' # settings =>
           \A c \in Settings :
             /\ Legal(c, settings'[c])
             /\ settings'[c] = settings[c] \/ c \in touched \/ ~Legal(c, settings[c])]_vars
  BY <1>1
<1> QED BY <1>2, PrefsInvariant, PTL DEF Spec, OKKeepsTheRest

=============================================================================

----------------------------- MODULE MCVdrPrefs -----------------------------
(* An instance of VdrPrefs for TLC. *)
EXTENDS VdrPrefs, TLC

MCDirs == {"private", "chosen"}

\* The ends of the ranges.
MCChoices ==
  [c \in Spins |-> {Lowest(c), Highest(c)}]

\* A configuration edited by hand, or of another version.
Odd ==
  ("interval" :> 0) @@ ("stop_delay" :> 61) @@ ("threshold" :> 300)
  @@ ("port_0183" :> 80) @@ ("mode" :> Unknown) @@ ("format" :> Unknown)
  @@ ("signalK" :> TRUE) @@ ("log_rotate" :> TRUE)

\* One with everything switched on.
Busy ==
  [c \in {"log_rotate", "auto_start", "use_speed", "nmea2000", "enabled_0183", "enabled_N2K", "tcp_N2K"} |-> TRUE]
  @@ ("mode" :> "network") @@ ("format" :> "csv") @@ ("port_N2K" :> 2000)

\* The first start, and the two above.
MCConfigs == {[c \in {} |-> TRUE], Odd, Busy}
=============================================================================

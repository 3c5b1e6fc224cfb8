--------------------------- MODULE VdrRecording ---------------------------
(***************************************************************************)
(* What the voyage data recorder promises its user about recording, with   *)
(* no files, speeds, preferences or clocks.  There is one recording        *)
(* session.  It is off, it captures sentences, or it is paused by the      *)
(* automation.  Its promises are                                           *)
(*                                                                         *)
(*   - capturing is only ever begun or resumed while nothing is replayed   *)
(*     (otherwise the recorder would record its own replay),               *)
(*   - after the user stops a recording by hand it stays off until the     *)
(*     user starts it or the vessel has slowed down (standDown),           *)
(*   - only a capturing session is ever paused.                            *)
(*                                                                         *)
(* VdrRecorder is shown to implement this module.                          *)
(***************************************************************************)

VARIABLES
  mode,        \* the session: "off", "capturing" or "paused"
  playing,     \* a replay is in progress
  standDown    \* stopped by hand, and neither restarted nor slow since

vars == <<mode, playing, standDown>>

Modes == {"off", "capturing", "paused"}

TypeOK ==
  /\ mode \in Modes
  /\ playing \in BOOLEAN
  /\ standDown \in BOOLEAN

Init ==
  /\ mode = "off"
  /\ playing = FALSE
  /\ standDown = FALSE

\* The user presses Record, the plugin is loaded, or the vessel is fast.
\* A user's start ends the stand-down; the automation may only start when
\* there is none, so in both cases there is none afterwards.
Capture ==
  /\ mode # "capturing"
  /\ ~playing
  /\ mode' = "capturing"
  /\ standDown' = FALSE

Pause ==
  /\ mode = "capturing"
  /\ mode' = "paused"
  /\ UNCHANGED standDown

\* The user stops it, the file cannot be rotated, or the plugin is unloaded.
Stop ==
  /\ mode # "off"
  /\ mode' = "off"
  /\ standDown' \in BOOLEAN

\* The vessel has slowed down, or the plugin is loaded anew.
Rearm ==
  /\ standDown
  /\ standDown' = FALSE
  /\ UNCHANGED mode

\* A replay begins or ends at any time.
Replay == UNCHANGED <<mode, standDown>>

Next ==
  /\ Capture \/ Pause \/ Stop \/ Rearm \/ Replay
  /\ playing' \in BOOLEAN

Spec == Init /\ [][Next]_vars

=============================================================================

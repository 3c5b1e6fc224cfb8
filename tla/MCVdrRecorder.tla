--------------------------- MODULE MCVdrRecorder ---------------------------
(***************************************************************************)
(* Small instances of VdrRecorder.  The threshold is 5.0 knots; the speeds *)
(* are slow, inside the hysteresis band and fast.                          *)
(***************************************************************************)
EXTENDS VdrRecorder

MCSpeeds == {10, 49, 50}
MCHysteresis == 2
MCAgeCap == 3

\* Automatic recording by speed, rotation after two ticks.
Sailing ==
  [ format |-> "csv", rotate |-> TRUE, rotateAfter |-> 2,
    autoStart |-> TRUE, useThreshold |-> TRUE, threshold |-> 50,
    stopDelay |-> 2, nmea0183 |-> TRUE, nmea2000 |-> TRUE, loopback |-> FALSE ]

Motoring == [Sailing EXCEPT !.format = "raw", !.rotateAfter = 1,
                            !.threshold = 49, !.stopDelay = 1]
Moored == [Sailing EXCEPT !.format = "raw", !.autoStart = FALSE,
                          !.loopback = TRUE]
Always == [Sailing EXCEPT !.useThreshold = FALSE, !.nmea0183 = FALSE]

\* As Sailing, without rotation.
Drifting == [Sailing EXCEPT !.rotate = FALSE]

AllPrefs == {Sailing, Motoring, Moored, Always, Drifting}

\* One setting, for the question in which no preference changes.
SailingPrefs == {Sailing}

=============================================================================

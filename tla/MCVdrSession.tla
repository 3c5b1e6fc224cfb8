---------------------------- MODULE MCVdrSession ----------------------------
(* An instance of VdrSession for TLC.                                      *)
EXTENDS VdrSession, TLC

CONSTANTS f, g

Setting(format, auto, nmea2000, mode) ==
  [format |-> format, auto |-> auto, nmea2000 |-> nmea2000, mode |-> mode]

\* Every mode, both formats, with and without automation and NMEA 2000.
MCPrefs ==
  { Setting("raw", "speed", FALSE, "internal"),
    Setting("csv", "speed", TRUE, "loopback"),
    Setting("csv", "load", TRUE, "network") }

MCFiles == {f, g}

\* Files are told apart by their names only.
FileSymmetry == Permutations(MCFiles)
=============================================================================

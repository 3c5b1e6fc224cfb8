\* Playback of every kind of file in both modes: safety and liveness.
CONSTANTS
  Files <- AllFiles
  Lines <- AllLines
  Modes <- BothModes
  Speeds <- MCSpeeds
  Batch = 2
  BatchInterval = 4
  Second = 4
  MaxBuffer = 3
  Horizon = 10

SPECIFICATION FairSpec

INVARIANT TypeOK
INVARIANT TimerRunsWhilePlaying
INVARIANT NothingWithheld
INVARIANT NeverFarAhead
INVARIANT BaseRate

PROPERTY UnattendedPlaybackEnds

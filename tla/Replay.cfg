\* Replay through the loopback driver: safety and liveness.
CONSTANTS
  Files <- AllFiles
  Headed <- AllHeaded
  Rows <- MCRows
  Created <- MCCreated
  DefaultDelay = 1
  Horizon = 5

SPECIFICATION FairSpec

INVARIANT TypeOK
INVARIANT OnSchedule
INVARIANT ButtonsTell

PROPERTY UnattendedReplayEnds

\* The line reader and its worker thread: safety, refinement and liveness.
CONSTANTS
  B = 3
  MaxSize = 11
  Texts <- AllTexts
  MayFail = TRUE

SPECIFICATION FairSpec
CHECK_DEADLOCK FALSE

INVARIANT NoRace

PROPERTY GivesTheLines
PROPERTY CallsReturn

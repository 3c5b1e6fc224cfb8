\* The recorder with every kind of preference: safety, refinement and liveness.
CONSTANTS
  Speeds <- MCSpeeds
  Prefs <- AllPrefs
  Hysteresis <- MCHysteresis
  AgeCap <- MCAgeCap

SPECIFICATION FairSpec

INVARIANT TypeOK
INVARIANT ManualStopHonoured
INVARIANT RotationBound
INVARIANT StoredInItsFormat

PROPERTY RotationErasesNothing
PROPERTY KeepsPromises
PROPERTY SlowVesselIsPaused
PROPERTY FastVesselIsRecorded

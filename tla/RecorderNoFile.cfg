\* Violated: recording with no open file.
CONSTANTS
  Speeds <- MCSpeeds
  Prefs <- SailingPrefs
  Hysteresis <- MCHysteresis
  AgeCap <- MCAgeCap

SPECIFICATION Spec

INVARIANT RecordingHasFile

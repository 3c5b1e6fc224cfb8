\* A session with everything that may happen in it, crashes included.
CONSTANTS
  f = f
  g = g
  Files <- MCFiles
  Prefs <- MCPrefs

SPECIFICATION Spec
SYMMETRY FileSymmetry

INVARIANT TypeOK
INVARIANT SettingsHold
INVARIANT Exclusive
INVARIANT CanBePaused
INVARIANT ShownAsItIs

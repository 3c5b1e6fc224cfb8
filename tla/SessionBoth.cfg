\* Violated: playback while recording.
CONSTANTS
  f = f
  g = g
  Files <- MCFiles
  Prefs <- MCPrefs

SPECIFICATION Spec
SYMMETRY FileSymmetry

INVARIANT NoPlaybackWhileRecording

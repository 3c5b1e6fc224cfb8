\* Violated: pause and resume.
CONSTANTS
  Files <- TimedOnly
  Lines <- TimedLines
  Modes <- InternalMode
  Speeds <- MCSpeeds
  Batch = 2
  BatchInterval = 4
  Second = 4
  MaxBuffer = 3
  Horizon = 10

SPECIFICATION Spec

PROPERTY ResumeContinues

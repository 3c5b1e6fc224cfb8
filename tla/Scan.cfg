\* Every short file, scanned and played, also after another one.
SPECIFICATION Spec
CONSTANTS
  Files <- MCFiles
  Former <- MCFormer
  Kinds <- MCKinds
  Dated <- MCDated
  Days <- MCDays
  DayLength <- MCDayLength
INVARIANTS
  TypeOK
  FoundByScan
  PlaysAsScanned

  

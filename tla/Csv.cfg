\* Every short row under every short header, and the rows of every short message.
SPECIFICATION RowSpec
CONSTANTS
  Rows <- MCRows
  Headers <- MCHeaders
  Messages <- MCMessages
  Wanted <- MCWanted
INVARIANTS
  RecordedIsRead
  ReadAsWritten
CHECK_DEADLOCK FALSE

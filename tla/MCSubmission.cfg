SPECIFICATION SubmissionSpec
CONSTANTS
  MaxCases = 4
  IntWidth = 3
  Numbers <- MCNumbers
  Doubles <- MCDoubles
  NotAnObject = NotAnObject
  Absent = Absent
  None = None
INVARIANTS
  SummaryIsMostSevere
  ReadAsDocumented
CHECK_DEADLOCK FALSE

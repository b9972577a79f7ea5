SPECIFICATION MCSpec
CONSTANTS
  Args <- SomeArgs
  FlagArgs <- SomeFlags
  CountArgs <- SomeCounts
  Values = {0, 1}
  Sessions <- SomeSessions
  LowerCase <- Small
  ValueOf <- Numeral
INVARIANTS
  ReadsAsWritten
  NobodyTwice
  OutIsExact
  InDisplacesTheLastOnly
PROPERTIES
  LinesRunAsTyped
CHECK_DEADLOCK FALSE

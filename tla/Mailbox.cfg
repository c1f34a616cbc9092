CONSTANTS
  MaxSeq = 3
  MaxLives = 3
  MaxFailures = 1
  Absent = Absent
SPECIFICATION Spec
INVARIANTS InStep AnswersAreLive
PROPERTIES NeverRedone WaitEnds ImplementsExchange
CHECK_DEADLOCK FALSE

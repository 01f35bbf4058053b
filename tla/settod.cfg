SPECIFICATION ClockSpec
CONSTANTS
  Words = 64
  Us = 10
  Rate = 3
  Times <- MCTimes
CHECK_DEADLOCK FALSE
INVARIANTS
  SetThenGet

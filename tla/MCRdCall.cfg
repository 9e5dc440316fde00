SPECIFICATION FairSpec
CONSTANTS
  MaxCalls = 2
  MaxAnswers = 3
  Later = {"success", "cancelled"}
INVARIANTS
  TypeOK
  ResultsHold
  RefusesOnlyAfterFailure
PROPERTIES
  ResultFinal
  TaskEnds
CHECK_DEADLOCK FALSE

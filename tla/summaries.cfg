CONSTANTS
  Runs = {r1, r2}
  Readers = {q1}
  MaxFrontier = 1
  Budget = 2
  MaxMessages = 3
  MaxSummaries = 4
  MaxDay = 1
  MaxRows = 3
  MaxId = 4
SYMMETRY RunSymmetry
SPECIFICATION Spec
CONSTRAINT DaysOrReaders
INVARIANT TellsItsRange OneChain BudgetKept ContextWhole
CHECK_DEADLOCK FALSE

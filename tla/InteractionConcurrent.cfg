SPECIFICATION WatchedSpec
CONSTANTS
  NoReceipt = NoReceipt
  NoBelief = NoBelief
  NoCall = NoCall
  Genesis = Genesis
  DecideCalls = {d1, d2}
  ObserveCalls = {o1, o2}
  LearnCalls = {l1}
  Contexts <- TwoSteps
  HasReplay = TRUE
  StepStore = TRUE
  Concurrent = TRUE
  MaxTick = 1
SYMMETRY Symmetry
INVARIANTS DecisionUsedOnce JournalSound BeliefIsBacked ReturnedIsComplete JournalExactInTurn

SPECIFICATION Spec
CONSTANTS
  Cases = {c1}
  NoCases = nothing
  MaxCalls = 2
  MaxTurns = 3
  MaxParallelCalls = 2
  MaxSearches = 1
INVARIANTS TypeOK SearchesLimited Parity
PROPERTIES ConversationEnds
CHECK_DEADLOCK FALSE

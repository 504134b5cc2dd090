SPECIFICATION Spec
CONSTANTS
  NumPlayers = 2
  NumSuits = 2
  NumRanks = 2
  NumSubDecks = 1
  Nil = Nil
PROPERTIES
  SuitBreaksTie

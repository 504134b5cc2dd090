SPECIFICATION Spec
CONSTANTS
  NumPlayers = 3
  NumSuits = 3
  NumRanks = 2
  NumSubDecks = 1
  Nil = Nil
INVARIANTS
  DrawIsTie
  DealBalanced
PROPERTIES
  OwnershipRules

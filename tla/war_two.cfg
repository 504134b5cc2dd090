SPECIFICATION FairSpec
CONSTANTS
  NumPlayers = 2
  NumSuits = 2
  NumRanks = 3
  NumSubDecks = 1
  Nil = Nil
INVARIANTS
  TypeOK
  CardConservation
  EliminatedHoldNothing
  NoTrap
  SoleSurvivor
  AnnouncedIsSurvivor
PROPERTIES
  WarResolves
  DealingEnds

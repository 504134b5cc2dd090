SPECIFICATION FairSpec
CONSTANTS
  NumSuits = 1
  NumRanks = 2
  maxNumSubDecks = 1
  MaxDraw = 3
INVARIANTS
  DeckIsSound
PROPERTIES
  CallsReturn

CONSTANTS
  Nil = Nil
SPECIFICATION Spec
INVARIANTS
  EndsAreRight
PROPERTIES
  PlayersAreNotPlayedWith
CHECK_DEADLOCK FALSE

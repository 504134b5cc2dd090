-------------------------------- MODULE Rematch --------------------------------
(***************************************************************************)
(* Two games of War, one after the other, between the same players (the    *)
(* initialisers of Games/War.swift, TournamentPlayer.swift).               *)
(*                                                                         *)
(* A game keeps references to the TournamentPlayers it is given, so what   *)
(* the first game leaves in them is where the second begins; plain Players *)
(* are converted, which copies their cards and nothing else.  The first    *)
(* copy of the cards is the deck of the first game, the second that of the *)
(* second game.                                                            *)
(***************************************************************************)
EXTENDS War

VARIABLE match   \* the game that is played, 1 or 2

RematchAssumption == NumSubDecks = 2

\* The shuffled decks that a new game can have.
NewDecks(copy) ==
  {s \in SetToSeqs({c \in Cards : c.copy = copy}) : ~SameCards(s, createDeck(1))}

RematchInit ==
  /\ match = 1
  /\ gameDeck \in NewDecks(1)
  /\ cards = [p \in Players |-> << >>]
  /\ eliminated = [p \in Players |-> FALSE]
  /\ lastPlayedCard = [p \in Players |-> Nil]
  /\ roundWinner = Nil
  /\ gameover = FALSE
  /\ pc = "idle"
  /\ caller = "startGame"
  /\ turn = 1
  /\ roundCards = NoEntries
  /\ prizeCards = << >>
  /\ highCardHolders = << >>
  /\ enoughCards = FALSE
  /\ noSuccessfulDraws = TRUE

\* A new War object: its own deck, roundWinner and gameover.
NewGame ==
  /\ pc = "idle"
  /\ gameover
  /\ match = 1
  /\ match' = 2
  /\ gameDeck' \in NewDecks(2)
  /\ roundWinner' = Nil
  /\ gameover' = FALSE
  /\ UNCHANGED <<cards, pc, caller, turn, round, flags>>

\* War(withPlayers: [TournamentPlayer]) and addPlayer(TournamentPlayer).
WithTournamentPlayers ==
  /\ NewGame
  /\ UNCHANGED <<eliminated, lastPlayedCard>>

\* War(withPlayers: [Player]) and addPlayer(Player): new TournamentPlayers with
\* the name, the id and the cards of the ones given.
WithPlayers ==
  /\ NewGame
  /\ eliminated' = [p \in Players |-> FALSE]
  /\ lastPlayedCard' = [p \in Players |-> Nil]

Play == Next /\ UNCHANGED match

SharedNext == Play \/ WithTournamentPlayers

ConvertedNext == Play \/ WithPlayers

\* A second game with the players of the first, and one with players made of them
SharedSpec == RematchInit /\ [][SharedNext]_<<vars, match>>
ConvertedSpec == RematchInit /\ [][ConvertedNext]_<<vars, match>>

-------------------------------------------------------------------------------
InPlay == {c \in Cards : c.copy <= match}

\* Whether the second game shares the players of the first or gets converted ones,
\* no card of either deck is in two places or lost (the winner of the first game
\* brings its deck along), and at its end one player has the cards of both.
RematchConserves ==
  /\ NothingDuplicated(pile)
  /\ \A c \in Cards : (\E i \in Piles : c \in ToSet(pile[i])) <=> c \in InPlay
  /\ gameover => \E p \in Players : NotEliminated = {p} /\ ToSet(cards[p]) = InPlay

===============================================================================

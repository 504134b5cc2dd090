---------------------------------- MODULE War ----------------------------------
(***************************************************************************)
(* The game of War (Games/War.swift, class War: Game).                     *)
(*                                                                         *)
(* startGame runs on one thread: it deals the deck and plays rounds until  *)
(* the game is over.  A round has every player place a card; the sole      *)
(* highest rank takes the round, a tie is fought out by wars, and a war    *)
(* nobody can continue is a draw that falls to the suits.  One action is   *)
(* one iteration of one of its loops, or the code between two loops; pc    *)
(* names the method that is running.                                       *)
(*                                                                         *)
(* The players are TournamentPlayers, identified by the position of their  *)
(* id in the sorted order that dealCards and placeCards walk through.      *)
(***************************************************************************)
EXTENDS DeckOps

CONSTANTS
  NumSubDecks,  \* the sub-decks of the game's deck
  NumPlayers,   \* the players added before startGame
  Nil           \* Swift's nil

Players == 1..NumPlayers

\* The cards the game is played with.
Cards == CardsOf(NumSubDecks)

\* Deck.init clamps the sub-decks; startGame demands two players.
ASSUME WarAssumption ==
  /\ NumSubDecks \in 0..10
  /\ NumPlayers \in Nat /\ NumPlayers > 1
  /\ Nil \notin Players
  /\ Nil \notin Cards

VARIABLES
  gameDeck,           \* Game.gameDeck, the cards not dealt yet
  cards,              \* Player.cards of every player, the top card first
  eliminated,         \* TournamentPlayer.eliminated
  lastPlayedCard,     \* Player.lastPlayedCard
  roundWinner,        \* War.roundWinner
  gameover,           \* Game.gameover
  pc,                 \* the method that is running
  caller,             \* where dealCards returns to
  turn,               \* the index of the running for loop
  roundCards,         \* the dictionary roundCards / warParticipants
  prizeCards,         \* the cards placed since the round began
  highCardHolders,    \* the argument of war, in the order it is iterated
  enoughCards,        \* the locals of war
  noSuccessfulDraws

game  == <<gameDeck, cards, eliminated, lastPlayedCard, roundWinner, gameover>>
round == <<roundCards, prizeCards, highCardHolders>>
flags == <<enoughCards, noSuccessfulDraws>>
vars  == <<game, pc, caller, turn, round, flags>>

\* War.cardsNeededForWar
cardsNeededForWar == 2

\* The dictionary d after d[key] = value.
Put(d, key, value) ==
  [k \in DOMAIN d \cup {key} |-> IF k = key THEN value ELSE d[k]]

NoEntries == [p \in {} |-> << >>]

Init ==
  /\ gameDeck \in {s \in SetToSeqs(Cards) :
                     s = << >> \/ ~SameCards(s, createDeck(NumSubDecks))}
  /\ cards = [p \in Players |-> << >>]
  /\ eliminated = [p \in Players |-> FALSE]
  /\ lastPlayedCard = [p \in Players |-> Nil]
  /\ roundWinner = Nil
  /\ gameover = FALSE
  /\ pc = "idle"
  /\ caller = "startGame"
  /\ turn = 1
  /\ roundCards = NoEntries
  /\ prizeCards = << >>
  /\ highCardHolders = << >>
  /\ enoughCards = FALSE
  /\ noSuccessfulDraws = TRUE

-------------------------------------------------------------------------------
(* startGame *)

\* A client calls startGame, which deals first.
StartGame ==
  /\ pc = "idle"
  /\ pc' = "dealCards"
  /\ caller' = "startGame"
  /\ turn' = 1
  /\ UNCHANGED <<game, round, flags>>

\* while !gameover: the next round begins with placeCards.
StartRound ==
  /\ pc = "startGame"
  /\ ~gameover
  /\ pc' = "placeCards"
  /\ turn' = 1
  /\ roundCards' = NoEntries
  /\ prizeCards' = << >>
  /\ UNCHANGED <<game, caller, highCardHolders, flags>>

\* The loop ends, roundWinner is announced and startGame returns.
EndGame ==
  /\ pc = "startGame"
  /\ gameover
  /\ pc' = "idle"
  /\ UNCHANGED <<game, caller, turn, round, flags>>

-------------------------------------------------------------------------------
(* dealCards: around the table, for as long as there are cards *)

\* Variant: the walk around the table never comes back to the first player.
NextInTurnOnce == turn + 1

\* Variant: the last player is left out.
NextInTurnShort == IF turn >= NumPlayers - 1 THEN 1 ELSE turn + 1

NextInTurn == IF turn = NumPlayers THEN 1 ELSE turn + 1

\* Variant: the loop waits for an eliminated player.
DealSkipsStuck ==
  /\ pc = "dealCards"
  /\ eliminated[turn]
  /\ UNCHANGED vars

\* Eliminated players get no card and do not look at the deck.
DealSkips ==
  /\ pc = "dealCards"
  /\ eliminated[turn]
  /\ turn' = NextInTurn
  /\ UNCHANGED <<game, pc, caller, round, flags>>

DealCard ==
  /\ pc = "dealCards"
  /\ ~eliminated[turn]
  /\ gameDeck # << >>
  /\ cards' = [cards EXCEPT ![turn] = @ \o DrawnFrom(gameDeck, 1)]
  /\ gameDeck' = LeftAfter(gameDeck, 1)
  /\ turn' = NextInTurn
  /\ UNCHANGED <<eliminated, lastPlayedCard, roundWinner, gameover, pc, caller,
                 round, flags>>

\* drawFromEmptyDeck is caught and dealCards returns.
DealReturns ==
  /\ pc = "dealCards"
  /\ ~eliminated[turn]
  /\ gameDeck = << >>
  /\ pc' = caller
  /\ UNCHANGED <<game, caller, turn, round, flags>>

-------------------------------------------------------------------------------
(* placeCards: every player still in the game, in the order of the ids *)

\* Variant: the last played card is not updated.
PlaceCardSilently ==
  /\ pc = "placeCards"
  /\ turn \in Players
  /\ ~eliminated[turn]
  /\ cards[turn] # << >>
  /\ roundCards' = Put(roundCards, turn, DrawnFrom(cards[turn], 1))
  /\ prizeCards' = prizeCards \o DrawnFrom(cards[turn], 1)
  /\ cards' = [cards EXCEPT ![turn] = LeftAfter(@, 1)]
  /\ turn' = turn + 1
  /\ UNCHANGED <<gameDeck, eliminated, lastPlayedCard, roundWinner, gameover,
                 pc, caller, highCardHolders, flags>>

PlaceCard ==
  /\ pc = "placeCards"
  /\ turn \in Players
  /\ ~eliminated[turn]
  /\ cards[turn] # << >>
  /\ roundCards' = Put(roundCards, turn, DrawnFrom(cards[turn], 1))
  /\ prizeCards' = prizeCards \o DrawnFrom(cards[turn], 1)
  /\ lastPlayedCard' = [lastPlayedCard EXCEPT ![turn] = cards[turn][1]]
  /\ cards' = [cards EXCEPT ![turn] = LeftAfter(@, 1)]
  /\ turn' = turn + 1
  /\ UNCHANGED <<gameDeck, eliminated, roundWinner, gameover, pc, caller,
                 highCardHolders, flags>>

\* An eliminated player is passed over; one without cards is eliminated.
PlaceNothing ==
  /\ pc = "placeCards"
  /\ turn \in Players
  /\ eliminated[turn] \/ cards[turn] = << >>
  /\ eliminated' = [eliminated EXCEPT ![turn] = TRUE]
  /\ turn' = turn + 1
  /\ UNCHANGED <<gameDeck, cards, lastPlayedCard, roundWinner, gameover, pc,
                 caller, round, flags>>

PlaceReturns ==
  /\ pc = "placeCards"
  /\ turn \notin Players
  /\ pc' = "compareRound"
  /\ UNCHANGED <<game, caller, turn, round, flags>>

-------------------------------------------------------------------------------
(* determineHighCardHolders, and what startRound and war do with its result *)

\* The players whose entries count: those not eliminated.
Contenders == {p \in DOMAIN roundCards : ~eliminated[p]}

\* The rank of the last card a player has placed.
PlacedRank(p) == roundCards[p][Len(roundCards[p])].rank

\* The contenders whose last card has the highest rank.
HighCardHolders ==
  {p \in Contenders : \A q \in Contenders : PlacedRank(q) <= PlacedRank(p)}

\* player.addToCards(prizeCards); roundWinner = player.id
TakesPrize(p) ==
  /\ cards' = [cards EXCEPT ![p] = @ \o prizeCards]
  /\ prizeCards' = << >>
  /\ roundWinner' = p

\* One player holds the high card of the round.
RoundWon ==
  /\ pc = "compareRound"
  /\ \E p \in Players : HighCardHolders = {p} /\ TakesPrize(p)
  /\ pc' = "updateGameStatus"
  /\ UNCHANGED <<gameDeck, eliminated, lastPlayedCard, gameover, caller, turn,
                 roundCards, highCardHolders, flags>>

\* Variant: the winner of a war is not recorded as the winner of the round.
WarWonUnrecorded ==
  /\ pc = "compareWar"
  /\ \E p \in Players :
       /\ HighCardHolders = {p}
       /\ cards' = [cards EXCEPT ![p] = @ \o prizeCards]
       /\ eliminated' = IF enoughCards THEN eliminated
                                       ELSE [eliminated EXCEPT ![p] = FALSE]
  /\ prizeCards' = << >>
  /\ pc' = "updateGameStatus"
  /\ UNCHANGED <<gameDeck, lastPlayedCard, roundWinner, gameover, caller, turn,
                 roundCards, highCardHolders, flags>>

\* One player wins the war; after a limited war the code readmits the winner.
WarWon ==
  /\ pc = "compareWar"
  /\ \E p \in Players :
       /\ HighCardHolders = {p}
       /\ TakesPrize(p)
       /\ eliminated' = IF enoughCards THEN eliminated
                                       ELSE [eliminated EXCEPT ![p] = FALSE]
  /\ pc' = "updateGameStatus"
  /\ UNCHANGED <<gameDeck, lastPlayedCard, gameover, caller, turn,
                 roundCards, highCardHolders, flags>>

\* Several players hold it and go to war, in an order that depends on the
\* iteration order of a dictionary.  With no contender at all the precondition
\* of Deck.determineHighestRank stops the program.
GoToWar ==
  /\ pc \in {"compareRound", "compareWar"}
  /\ \A p \in Players : HighCardHolders # {p}
  /\ highCardHolders' \in SetToSeqs(HighCardHolders)
  /\ pc' = IF Contenders = {} THEN "trap" ELSE "war"
  /\ UNCHANGED <<game, caller, turn, roundCards, prizeCards, flags>>

-------------------------------------------------------------------------------
(* war, gotoWar and limitedWar *)

\* Variant: the flag starts as if a card had been drawn.
BeginWarSuccessful ==
  /\ pc = "war"
  /\ enoughCards' = \E i \in DOMAIN highCardHolders :
                      Len(cards[highCardHolders[i]]) >= cardsNeededForWar
  /\ pc' = IF enoughCards' THEN "gotoWar" ELSE "limitedWar"
  /\ roundCards' = NoEntries
  /\ noSuccessfulDraws' = FALSE
  /\ turn' = 1
  /\ UNCHANGED <<game, caller, prizeCards, highCardHolders>>

\* A full war if one of the players has the cards for it, else a limited one.
BeginWar ==
  /\ pc = "war"
  /\ enoughCards' = \E i \in DOMAIN highCardHolders :
                      Len(cards[highCardHolders[i]]) >= cardsNeededForWar
  /\ pc' = IF enoughCards' THEN "gotoWar" ELSE "limitedWar"
  /\ roundCards' = NoEntries
  /\ noSuccessfulDraws' = TRUE
  /\ turn' = 1
  /\ UNCHANGED <<game, caller, prizeCards, highCardHolders>>

\* Player p puts the top drawAmount cards into the war.
Fights(p, drawAmount) ==
  /\ roundCards' = Put(roundCards, p, DrawnFrom(cards[p], drawAmount))
  /\ prizeCards' = prizeCards \o DrawnFrom(cards[p], drawAmount)
  /\ lastPlayedCard' = IF drawAmount = 0 THEN lastPlayedCard
                       ELSE [lastPlayedCard EXCEPT ![p] = cards[p][drawAmount]]
  /\ cards' = [cards EXCEPT ![p] = LeftAfter(@, drawAmount)]

WarTurn(method) == pc = method /\ turn \in DOMAIN highCardHolders

\* gotoWar: the player draws the cards the war takes.
GotoWarDraws ==
  /\ WarTurn("gotoWar")
  /\ LET p == highCardHolders[turn] IN
       /\ Len(cards[p]) >= cardsNeededForWar
       /\ Fights(p, cardsNeededForWar)
  /\ noSuccessfulDraws' = FALSE
  /\ turn' = turn + 1
  /\ UNCHANGED <<gameDeck, eliminated, roundWinner, gameover, pc, caller,
                 highCardHolders, enoughCards>>

\* Variant: the cards of the player who cannot fight reach nobody.
GotoWarFailsDiscards ==
  /\ WarTurn("gotoWar")
  /\ LET p == highCardHolders[turn] IN
       /\ Len(cards[p]) < cardsNeededForWar
       /\ cards' = [cards EXCEPT ![p] = << >>]
       /\ roundCards' = Put(roundCards, p, << >>)
       /\ eliminated' = [eliminated EXCEPT ![p] = TRUE]
  /\ turn' = turn + 1
  /\ UNCHANGED <<gameDeck, lastPlayedCard, roundWinner, gameover, pc, caller,
                 prizeCards, highCardHolders, flags>>

\* Variant: drawCards fails before it takes the remaining cards.
GotoWarFailsKeeps ==
  /\ WarTurn("gotoWar")
  /\ LET p == highCardHolders[turn] IN
       /\ Len(cards[p]) < cardsNeededForWar
       /\ roundCards' = Put(roundCards, p, << >>)
       /\ eliminated' = [eliminated EXCEPT ![p] = TRUE]
  /\ turn' = turn + 1
  /\ UNCHANGED <<gameDeck, cards, lastPlayedCard, roundWinner, gameover, pc,
                 caller, prizeCards, highCardHolders, flags>>

\* gotoWar: insufficientCardsRemaining hands over what there was; the player
\* is eliminated and the cards go to the prize.
GotoWarFails ==
  /\ WarTurn("gotoWar")
  /\ LET p == highCardHolders[turn] IN
       /\ Len(cards[p]) < cardsNeededForWar
       /\ Fights(p, Len(cards[p]))
       /\ eliminated' = [eliminated EXCEPT ![p] = TRUE]
  /\ turn' = turn + 1
  /\ UNCHANGED <<gameDeck, roundWinner, gameover, pc, caller, highCardHolders,
                 flags>>

\* limitedWar: the player draws a single card.
LimitedWarDraws ==
  /\ WarTurn("limitedWar")
  /\ LET p == highCardHolders[turn] IN
       /\ ~eliminated[p]
       /\ cards[p] # << >>
       /\ Fights(p, 1)
  /\ noSuccessfulDraws' = FALSE
  /\ turn' = turn + 1
  /\ UNCHANGED <<gameDeck, eliminated, roundWinner, gameover, pc, caller,
                 highCardHolders, enoughCards>>

\* limitedWar: drawFromEmptyDeck eliminates the player (and one eliminated
\* before is passed over).
LimitedWarFails ==
  /\ WarTurn("limitedWar")
  /\ LET p == highCardHolders[turn] IN
       /\ eliminated[p] \/ cards[p] = << >>
       /\ eliminated' = [eliminated EXCEPT ![p] = TRUE]
  /\ turn' = turn + 1
  /\ UNCHANGED <<gameDeck, cards, lastPlayedCard, roundWinner, gameover, pc,
                 caller, round, flags>>

\* Variant: a war without a card drawn is fought again.
WarDrawsDoneRetries ==
  /\ pc \in {"gotoWar", "limitedWar"}
  /\ turn \notin DOMAIN highCardHolders
  /\ pc' = IF noSuccessfulDraws THEN "war" ELSE "compareWar"
  /\ UNCHANGED <<game, caller, turn, round, flags>>

\* Variant: the winner of the round before is still on record after a draw.
WarDrawsDoneStale ==
  /\ pc \in {"gotoWar", "limitedWar"}
  /\ turn \notin DOMAIN highCardHolders
  /\ pc' = IF noSuccessfulDraws THEN "draw" ELSE "compareWar"
  /\ UNCHANGED <<game, caller, turn, round, flags>>

\* Back in war: no card was drawn and the war is a draw, or the cards decide.
WarDrawsDone ==
  /\ pc \in {"gotoWar", "limitedWar"}
  /\ turn \notin DOMAIN highCardHolders
  /\ pc' = IF noSuccessfulDraws THEN "draw" ELSE "compareWar"
  /\ roundWinner' = IF noSuccessfulDraws THEN Nil ELSE roundWinner
  /\ UNCHANGED <<gameDeck, cards, eliminated, lastPlayedCard, gameover, caller,
                 turn, round, flags>>

-------------------------------------------------------------------------------
(* startRound: the tie-breaker after GameEvent.draw, and updateGameStatus *)

\* The players of the last war who have a last played card.
Drawn == {p \in ToSet(highCardHolders) : lastPlayedCard[p] # Nil}

\* determineHighCardHolders(_, true): the suits are compared only for players
\* who are not eliminated.
HighSuitHolders ==
  {p \in Drawn :
     \A q \in Drawn \ {p} :
       ~eliminated[p] => ~(lastPlayedCard[p].suit < lastPlayedCard[q].suit)}

\* Variant: the first of several holders is readmitted.
SettleDrawFirst ==
  /\ pc = "draw"
  /\ \E p \in HighSuitHolders :
       /\ TakesPrize(p)
       /\ eliminated' = [eliminated EXCEPT ![p] = FALSE]
  /\ pc' = "updateGameStatus"
  /\ UNCHANGED <<gameDeck, lastPlayedCard, gameover, caller, turn, roundCards,
                 highCardHolders, flags>>

\* A sole holder takes the round and stays in the game; else the prize goes
\* back to the deck (whose setter only fills an empty deck) and is dealt again.
SettleDraw ==
  /\ pc = "draw"
  /\ IF \E p \in Players : HighSuitHolders = {p}
     THEN /\ \E p \in HighSuitHolders :
               /\ TakesPrize(p)
               /\ eliminated' = [eliminated EXCEPT ![p] = FALSE]
          /\ pc' = "updateGameStatus"
          /\ UNCHANGED <<gameDeck, caller, turn>>
     ELSE /\ gameDeck' = IF gameDeck = << >> THEN prizeCards ELSE gameDeck
          /\ prizeCards' = << >>
          /\ pc' = "dealCards"
          /\ caller' = "updateGameStatus"
          /\ turn' = 1
          /\ UNCHANGED <<cards, eliminated, roundWinner>>
  /\ UNCHANGED <<lastPlayedCard, gameover, roundCards, highCardHolders, flags>>

NotEliminated == {p \in Players : ~eliminated[p]}

\* Variant: the game is over when two players are left.
UpdateGameStatusEarly ==
  /\ pc = "updateGameStatus"
  /\ gameover' = (gameover \/ Cardinality(NotEliminated) <= 2)
  /\ pc' = "startGame"
  /\ UNCHANGED <<gameDeck, cards, eliminated, lastPlayedCard, roundWinner,
                 caller, turn, round, flags>>

\* The game is over once a single player is left.
UpdateGameStatus ==
  /\ pc = "updateGameStatus"
  /\ gameover' = \/ gameover
                 \/ /\ Cardinality(NotEliminated) <= 1
                    /\ Cardinality(NotEliminated) \in {1, NumPlayers}
  /\ pc' = "startGame"
  /\ UNCHANGED <<gameDeck, cards, eliminated, lastPlayedCard, roundWinner,
                 caller, turn, round, flags>>

-------------------------------------------------------------------------------
\* The steps the program takes by itself once startGame was called.
Step ==
  \/ StartRound \/ EndGame
  \/ DealSkips \/ DealCard \/ DealReturns
  \/ PlaceCard \/ PlaceNothing \/ PlaceReturns
  \/ RoundWon \/ WarWon \/ GoToWar
  \/ BeginWar \/ GotoWarDraws \/ GotoWarFails
  \/ LimitedWarDraws \/ LimitedWarFails \/ WarDrawsDone
  \/ SettleDraw \/ UpdateGameStatus

Next == StartGame \/ Step

Spec == Init /\ [][Next]_vars

\* The thread that runs startGame does not stop between two statements.
FairSpec == Spec /\ WF_vars(Step)

-------------------------------------------------------------------------------
(* What the game promises *)

Methods == {"idle", "dealCards", "startGame", "placeCards", "compareRound",
            "compareWar", "war", "gotoWar", "limitedWar", "draw",
            "updateGameStatus", "trap"}

\* The type invariant of the game's state; dealCards never leaves the table.
TypeOK ==
  /\ gameDeck \in Seq(Cards)
  /\ cards \in [Players -> Seq(Cards)]
  /\ eliminated \in [Players -> BOOLEAN]
  /\ lastPlayedCard \in [Players -> Cards \cup {Nil}]
  /\ roundWinner \in Players \cup {Nil}
  /\ gameover \in BOOLEAN
  /\ pc \in Methods
  /\ caller \in {"startGame", "updateGameStatus"}
  /\ turn \in Nat \ {0}
  /\ pc = "dealCards" => turn \in Players
  /\ DOMAIN roundCards \subseteq Players
  /\ \A p \in DOMAIN roundCards : roundCards[p] \in Seq(Cards)
  /\ prizeCards \in Seq(Cards)
  /\ highCardHolders \in Seq(Players)
  /\ enoughCards \in BOOLEAN
  /\ noSuccessfulDraws \in BOOLEAN

\* The piles a card can lie in: the deck (0), a hand, the prize of the round.
Piles == 0..(NumPlayers + 1)

pile ==
  [i \in Piles |-> IF i = 0 THEN gameDeck
                   ELSE IF i \in Players THEN cards[i] ELSE prizeCards]

\* No card of the deck is lost.
NothingLost(piles) ==
  \A c \in Cards : \E i \in Piles : \E j \in DOMAIN piles[i] : piles[i][j] = c

\* No card lies in two places.
NothingDuplicated(piles) ==
  \A i, k \in Piles : \A j \in DOMAIN piles[i], l \in DOMAIN piles[k] :
    piles[i][j] = piles[k][l] => i = k /\ j = l

\* Between two steps of the game every card of the deck lies in exactly one
\* place, whatever draws succeeded or threw in deals, rounds, wars and redeals
\* (placeCards, gotoWar, limitedWar, the deckCards setter, addToCards).
CardConservation == NothingLost(pile) /\ NothingDuplicated(pile)

\* A player who was eliminated has handed in every card: the code path that
\* eliminates (placeCards, gotoWar, limitedWar) never strands a card in a hand
\* that is no longer played from.
EliminatedHoldNothing == \A p \in Players : eliminated[p] => cards[p] = << >>

\* Comparing the placed cards (determineHighCardHolders) never stops the
\* program: somebody still in the game has placed a card, which is what the
\* precondition of Deck.determineHighestRank asks for, and no player in the
\* game has an entry without cards, whose index count - 1 would not exist.
NoTrap ==
  /\ pc # "trap"
  /\ pc \in {"compareRound", "compareWar"}
       => \A p \in Contenders : roundCards[p] # << >>

\* Once the flag gameover is set exactly one player is left, and that player
\* holds every card of the deck.
SoleSurvivor ==
  gameover => \E p \in Players : /\ NotEliminated = {p}
                                 /\ ToSet(cards[p]) = Cards

\* If startGame announces a winner it is the player who is left in the game,
\* not the winner of an earlier round.
AnnouncedIsSurvivor ==
  pc = "startGame" /\ gameover /\ roundWinner # Nil
    => NotEliminated = {roundWinner}

\* When war throws GameEvent.draw, its players have all been eliminated without
\* a card left, and the lastPlayedCards the tie-break compares are cards of this
\* round's prize, all of one rank.
DrawIsTie ==
  pc = "draw" =>
    \A p \in ToSet(highCardHolders) :
      /\ eliminated[p]
      /\ lastPlayedCard[p] \in ToSet(prizeCards)
      /\ \A q \in ToSet(highCardHolders) :
           lastPlayedCard[q].rank = lastPlayedCard[p].rank

\* dealCards splits the deck evenly: in the first deal no player is ever more
\* than one card ahead, and those ahead are those whose turn it has been.
DealBalanced ==
  pc = "dealCards" /\ caller = "startGame" /\ ~gameover =>
    \A p, q \in Players :
      Len(cards[p]) - Len(cards[q]) =
        (IF p < turn THEN 1 ELSE 0) - (IF q < turn THEN 1 ELSE 0)

\* Every war, however often it recurses, comes to a winner or to a redeal.
WarResolves == pc = "war" ~> pc \in {"updateGameStatus", "dealCards"}

\* dealCards returns as long as one player is left to deal to.
DealingEnds ==
  (pc = "dealCards" /\ NotEliminated # {}) ~> pc # "dealCards"

-------------------------------------------------------------------------------
(* The abstract game *)

\* The pile that has a card.
OwnerOf(c) == CHOOSE i \in Piles : \E j \in DOMAIN pile[i] : pile[i][j] = c

Table == INSTANCE Ownership WITH
           owner <- [c \in Cards |-> OwnerOf(c)],
           out   <- {p \in Players : eliminated[p]},
           over  <- gameover

\* The game of the code is a game in the sense of Ownership: cards move only
\* between the deck, players who are in the game and the stakes, a player who is
\* out stays out and gets nothing, and the game ends once, with one owner.
OwnershipRules == Table!Spec

===============================================================================

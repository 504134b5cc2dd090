------------------------------- MODULE MCGames --------------------------------
(*****************************************************************************)
(* Games of War for TLC in which players run out of cards, play again, or    *)
(* play in two games.                                                        *)
(*                                                                           *)
(* A behaviour is one of one part, which keeps the variables of its module   *)
(* in the first of v1, v2, ... and leaves the others alone.                  *)
(*****************************************************************************)
EXTENDS Integers

CONSTANTS Nil

VARIABLES part, v1, v2, v3, v4, v5, v6, v7, v8, v9, v10, v11, v12, v13, v14, v15

-------------------------------------------------------------------------------
DrawnOut == INSTANCE MCWar WITH NumPlayers <- 3, NumSuits <- 3, NumRanks <- 3, NumSubDecks <- 1,
    Nil <- Nil, gameDeck <- v1, cards <- v2, eliminated <- v3, lastPlayedCard <- v4,
    roundWinner <- v5, gameover <- v6, pc <- v7, caller <- v8, turn <- v9, roundCards <- v10,
    prizeCards <- v11, highCardHolders <- v12, enoughCards <- v13, noSuccessfulDraws <- v14
Again == INSTANCE Rematch WITH NumPlayers <- 2, NumSuits <- 2, NumRanks <- 2, NumSubDecks <- 2,
    Nil <- Nil, gameDeck <- v1, cards <- v2, eliminated <- v3, lastPlayedCard <- v4,
    roundWinner <- v5, gameover <- v6, pc <- v7, caller <- v8, turn <- v9, roundCards <- v10,
    prizeCards <- v11, highCardHolders <- v12, enoughCards <- v13, noSuccessfulDraws <- v14,
    match <- v15
Shared == INSTANCE Rematch WITH NumPlayers <- 2, NumSuits <- 2, NumRanks <- 2, NumSubDecks <- 2,
    Nil <- Nil, gameDeck <- v1, cards <- v2, eliminated <- v3, lastPlayedCard <- v4,
    roundWinner <- v5, gameover <- v6, pc <- v7, caller <- v8, turn <- v9, roundCards <- v10,
    prizeCards <- v11, highCardHolders <- v12, enoughCards <- v13, noSuccessfulDraws <- v14,
    match <- v15
Players == INSTANCE Roster WITH MaxObjects <- 3, Games <- {"game", "war"}, WarGames <- {"war"},
    Card <- {"card"}, heap <- v1, players <- v2

ASSUME GamesAssumption == Again!RematchAssumption /\ Players!RosterAssumption

-------------------------------------------------------------------------------
\* The variables that the part does not need
after2 == <<v3, v4, v5, v6, v7, v8, v9, v10, v11, v12, v13, v14, v15>>
after14 == <<v15>>
vars == <<part, v1, v2, v3, v4, v5, v6, v7, v8, v9, v10, v11, v12, v13, v14, v15>>

Unused2 == v3 = 0 /\ v4 = 0 /\ v5 = 0 /\ v6 = 0 /\ v7 = 0 /\ v8 = 0 /\ v9 = 0 /\ v10 = 0 /\ v11 = 0 /\
    v12 = 0 /\ v13 = 0 /\ v14 = 0 /\ v15 = 0
Unused14 == v15 = 0

Init ==
  \/ part = "drawn_out" /\ DrawnOut!DrawnOutInit /\ Unused14
  \/ part = "rematch" /\ Again!RematchInit
  \/ part = "shared" /\ Shared!RematchInit
  \/ part = "roster" /\ Players!Init /\ Unused2

Next ==
  \/ part = "drawn_out" /\ DrawnOut!Next /\ UNCHANGED <<part, after14>>
  \/ part = "rematch" /\ Again!ConvertedNext /\ UNCHANGED part
  \/ part = "shared" /\ Shared!SharedNext /\ UNCHANGED part
  \/ part = "roster" /\ Players!Next /\ UNCHANGED <<part, after2>>

Spec == Init /\ [][Next]_vars

-------------------------------------------------------------------------------
\* A game ends as it should.  Whether a second game shares the players of the first or
\* gets converted ones, no card of either deck is in two places or lost (the winner of
\* the first game brings its deck along), and at its end one player has the cards of
\* both; and after a draw between players who have won rounds, startGame announces none
\* of them but at most the player who is left.
EndsAreRight ==
  /\ part = "rematch" => Again!RematchConserves
  /\ part = "shared" => Shared!RematchConserves
  /\ part = "drawn_out" => DrawnOut!AnnouncedIsSurvivor

\* A game of War plays with its own objects: nothing it does reaches a plain
\* Player of a client, however often that player was added and copied.
PlayersAreNotPlayedWith == [][part = "roster" => Players!OnlyOwnPlayers]_vars

===============================================================================

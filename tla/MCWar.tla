--------------------------------- MODULE MCWar ---------------------------------
(***************************************************************************)
(* Instances of War for TLC, and what the documentation comments of        *)
(* Games/War.swift say of it that its code does not do.                    *)
(***************************************************************************)
EXTENDS War

\* The ranks of a deal of nine cards to three players in which the first and
\* the second win a round each, then tie, tie again in a full and in a limited
\* war and end in a draw, with the third still in the game.
DrawnOutRanks == <<4, 3, 2, 2, 3, 2, 4, 4, 3>>

DrawnOutInit ==
  /\ gameDeck \in
       {[i \in DOMAIN DrawnOutRanks |->
           [suit |-> suitOf[i], rank |-> DrawnOutRanks[i], copy |-> 1]] :
        suitOf \in {f \in [DOMAIN DrawnOutRanks -> Suits] :
                      \A i, j \in DOMAIN DrawnOutRanks :
                        i # j /\ DrawnOutRanks[i] = DrawnOutRanks[j]
                          => f[i] # f[j]}}
  /\ Init

\* "Continuously deals cards to all players in the game until the main deck is
\* empty, then returns" (dealCards).
DealCardsReturns == pc = "dealCards" ~> pc # "dealCards"

\* The players of a draw whose last played card has the highest suit.
TopSuit ==
  {p \in ToSet(highCardHolders) :
     \A q \in ToSet(highCardHolders) :
       lastPlayedCard[q].suit <= lastPlayedCard[p].suit}

\* "only one player played a card whose suit was greater than the suits of all
\* other cards that ended up in a draw": that player wins the round and remains
\* in the game (startRound).
SuitBreaksTie ==
  [][\A p \in Players :
       pc = "draw" /\ TopSuit = {p} => roundWinner' = p /\ ~eliminated'[p]]_vars

===============================================================================

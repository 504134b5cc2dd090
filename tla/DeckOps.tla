------------------------------- MODULE DeckOps -------------------------------
(***************************************************************************)
(* The playing cards of CardCrucible (Models/Card.swift), and the          *)
(* operations of Models/Deck.swift on an array of cards, as functions of   *)
(* that array.                                                             *)
(*                                                                         *)
(* A card is a suit and a rank.  The enumerations Card.Suit and Card.Rank  *)
(* are represented by integers in the order the code compares them in:     *)
(* suits by raw value (Clubs < Diamonds < Hearts < Spades is alphabetical  *)
(* and is 1 < 2 < 3 < 4 here), ranks by their raw values 2 .. 14.          *)
(*                                                                         *)
(* The field copy tells apart the physical cards of different sub-decks.   *)
(* The program has no such field: no guard and no comparison of the models *)
(* reads it.  It is there so that "this very card" can be followed.        *)
(*                                                                         *)
(* Deck.swift has each operation twice, as a mutating method on the        *)
(* private array decks and as a static function on an inout array; but for *)
(* createDeck both forms do the same.  The top of a deck is its first      *)
(* card.                                                                   *)
(***************************************************************************)
EXTENDS Integers, FiniteSets, SequencesExt

CONSTANTS
  NumSuits,     \* how many of the four suits an instance uses
  NumRanks      \* how many of the thirteen ranks, from two upwards

ASSUME CardAssumption ==
  /\ NumSuits \in 1..4
  /\ NumRanks \in 1..13

Suits == 1..NumSuits

Ranks == 2..(NumRanks + 1)

\* All the physical cards of n sub-decks.
CardsOf(n) == [suit : Suits, rank : Ranks, copy : 1..n]

\* Card.== : the same suit and rank (cardValue is the raw value of the rank).
SameCard(left, right) == left.suit = right.suit /\ left.rank = right.rank

\* The operator =/ on [Card], and the synthesised == of [Card] : equal
\* lengths and pairwise equal cards.
SameCards(left, right) ==
  /\ Len(left) = Len(right)
  /\ \A i \in 1..Len(left) : SameCard(left[i], right[i])

-------------------------------------------------------------------------------
\* Deck.defaultDeckSize (52 for the full enumerations).
defaultDeckSize == NumSuits * NumRanks

\* The method createDeck: sub-deck by sub-deck, rank by rank, suit by suit.
createDeck(numSubDecks) ==
  [i \in 1..(numSubDecks * defaultDeckSize) |->
     [suit |-> 1 + ((i - 1) % NumSuits),
      rank |-> 2 + (((i - 1) \div NumSuits) % NumRanks),
      copy |-> 1 + ((i - 1) \div defaultDeckSize)]]

\* The static createDeck has the two inner loops the other way round.
staticCreateDeck(numSubDecks) ==
  [i \in 1..(numSubDecks * defaultDeckSize) |->
     [suit |-> 1 + (((i - 1) \div NumRanks) % NumSuits),
      rank |-> 2 + ((i - 1) % NumRanks),
      copy |-> 1 + ((i - 1) \div defaultDeckSize)]]

\* drawCard / drawCards: the cards taken from the top, and what stays.
DrawnFrom(from, drawAmount) == SubSeq(from, 1, drawAmount)

LeftAfter(from, drawAmount) == SubSeq(from, drawAmount + 1, Len(from))

\* Array.firstIndex(of:), for a card that is there.
FirstIndexOf(card, from) ==
  CHOOSE i \in DOMAIN from :
    /\ SameCard(from[i], card)
    /\ \A j \in 1..(i - 1) : ~SameCard(from[j], card)

===============================================================================

---------------------------------- MODULE Deck ----------------------------------
(***************************************************************************)
(* A deck of cards and its client (Models/Deck.swift, struct Deck).        *)
(*                                                                         *)
(* Deck.swift offers every operation twice: as a mutating method on the    *)
(* private array decks of a Deck, and as a static function on an array of  *)
(* the caller.  The variable form says which of the two the client uses;   *)
(* decks is the array in both.  The client calls the operations in any     *)
(* order and keeps the cards it draws.  The loops that use random numbers  *)
(* take one step per iteration, everything else is one action per call.    *)
(***************************************************************************)
EXTENDS DeckOps

CONSTANTS
  maxNumSubDecks,   \* AllowedNumSubDecks.maxNumSubDecks, 10 in the program
  MaxDraw           \* the most cards a client asks for in one call

ASSUME DeckAssumption ==
  /\ maxNumSubDecks \in Nat \ {0}
  /\ MaxDraw \in Nat

VARIABLES
  form,         \* "method" or "static"
  decks,        \* the array of cards
  numSubDecks,  \* Deck.numSubDecks, or the local subDecks of the static form
  drawn,        \* the cards drawn since the deck was made, in that order
  thrown,       \* the DeckError of the last call, or "none"
  pc,           \* "ready", or the loop that is running
  tempDeck,     \* the local of shuffle: the order to get away from
  toDraw,       \* the iterations drawRandomCards has left
  failing       \* whether drawRandomCards will throw at the end

call == <<pc, tempDeck, toDraw, failing>>
vars == <<form, numSubDecks, decks, drawn, thrown, call>>

\* AllowedNumSubDecks.minNumSubDecks
minNumSubDecks == 0

\* What clients pass for numSubDecks: up to one beyond the limits.
Requests == -1..(maxNumSubDecks + 1)

\* What clients pass for drawAmount.
Amounts == -1..MaxDraw

\* The property wrapper AllowedNumSubDecks.
AllowedNumSubDecks(n) == Max({Min({n, maxNumSubDecks}), minNumSubDecks})

\* The limits of the static createDeck: the second assignment starts from the
\* parameter again and undoes the first.
StaticSubDecks(n) == Max({n, minNumSubDecks})

Init ==
  /\ form \in {"method", "static"}
  /\ decks = << >>
  /\ numSubDecks = 0
  /\ drawn = << >>
  /\ thrown = "none"
  /\ pc = "ready"
  /\ tempDeck = << >>
  /\ toDraw = 0
  /\ failing = FALSE

-------------------------------------------------------------------------------
(* Making and shuffling a deck *)

\* createDeck and createShuffledDeck, and Deck.init, which calls one of them.
\* The array that was there is erased.
CreateDeck(n, shuffled) ==
  /\ pc = "ready"
  /\ numSubDecks' = IF form = "method" THEN AllowedNumSubDecks(n)
                                       ELSE StaticSubDecks(n)
  /\ decks' = IF form = "method" THEN createDeck(numSubDecks')
                                 ELSE staticCreateDeck(numSubDecks')
  /\ drawn' = << >>
  /\ thrown' = "none"
  /\ pc' = IF shuffled /\ decks' # << >> THEN "shuffle" ELSE "ready"
  /\ tempDeck' = IF pc' = "shuffle" THEN decks' ELSE << >>
  /\ UNCHANGED <<form, toDraw, failing>>

\* shuffle: an empty deck is returned as it is.
Shuffle ==
  /\ pc = "ready"
  /\ thrown' = "none"
  /\ tempDeck' = decks
  /\ pc' = IF decks # << >> THEN "shuffle" ELSE "ready"
  /\ UNCHANGED <<form, numSubDecks, decks, drawn, toDraw, failing>>

\* Variant: the order to get away from is taken anew in every iteration.
ShuffleOnceAnew ==
  /\ pc = "shuffle"
  /\ SameCards(tempDeck, decks)
  /\ decks' \in SetToSeqs(ToSet(decks))
  /\ tempDeck' = decks'
  /\ UNCHANGED <<form, numSubDecks, drawn, thrown, pc, toDraw, failing>>

\* while tempDeck == decks: the array is shuffled into any order.
ShuffleOnce ==
  /\ pc = "shuffle"
  /\ SameCards(tempDeck, decks)
  /\ decks' \in SetToSeqs(ToSet(decks))
  /\ UNCHANGED <<form, numSubDecks, drawn, thrown, call>>

ShuffleReturns ==
  /\ pc = "shuffle"
  /\ ~SameCards(tempDeck, decks)
  /\ pc' = "ready"
  /\ tempDeck' = << >>
  /\ UNCHANGED <<form, numSubDecks, decks, drawn, thrown, toDraw, failing>>

-------------------------------------------------------------------------------
(* determineHighestRank *)

\* A running maximum that starts from Rank.two: highest after i iterations.
determineHighestRank(cards) ==
  LET highest[i \in 0..Len(cards)] ==
        IF i = 0 THEN 2
        ELSE IF highest[i - 1] < cards[i].rank THEN cards[i].rank
                                               ELSE highest[i - 1]
  IN highest[Len(cards)]

-------------------------------------------------------------------------------
(* Drawing from the top *)

DrawCard ==
  /\ pc = "ready"
  /\ thrown' = IF decks = << >> THEN "drawFromEmptyDeck" ELSE "none"
  /\ drawn' = drawn \o DrawnFrom(decks, Min({1, Len(decks)}))
  /\ decks' = LeftAfter(decks, Min({1, Len(decks)}))
  /\ UNCHANGED <<form, numSubDecks, call>>

\* With too few cards all of them are drawn and handed over in the error.
DrawCards(drawAmount) ==
  /\ pc = "ready"
  /\ LET taken == Min({drawAmount, Len(decks)}) IN
       IF drawAmount > 0
       THEN /\ thrown' = IF drawAmount > Len(decks)
                         THEN "insufficientCardsRemaining" ELSE "none"
            /\ drawn' = drawn \o DrawnFrom(decks, taken)
            /\ decks' = LeftAfter(decks, taken)
       ELSE /\ thrown' = "negativeDrawAttempt"
            /\ UNCHANGED <<decks, drawn>>
  /\ UNCHANGED <<form, numSubDecks, call>>

-------------------------------------------------------------------------------
(* Drawing at random *)

\* Variant: the card shown is the random one, the card removed the first equal.
PicksMismatched ==
  \E i \in DOMAIN decks :
    /\ drawn' = Append(drawn, decks[i])
    /\ decks' = RemoveAt(decks, FirstIndexOf(decks[i], decks))

\* decks.remove(at: decks.firstIndex(of: decks.randomElement()!)!)
PicksRandomCard ==
  \E i \in DOMAIN decks :
    LET at == FirstIndexOf(decks[i], decks) IN
      /\ drawn' = Append(drawn, decks[at])
      /\ decks' = RemoveAt(decks, at)

DrawRandomCard ==
  /\ pc = "ready"
  /\ IF decks = << >>
     THEN thrown' = "drawFromEmptyDeck" /\ UNCHANGED <<decks, drawn>>
     ELSE thrown' = "none" /\ PicksRandomCard
  /\ UNCHANGED <<form, numSubDecks, call>>

\* drawRandomCards: the guards choose the number of iterations.
DrawRandomCards(drawAmount) ==
  /\ pc = "ready"
  /\ IF drawAmount > 0
     THEN /\ thrown' = "none"
          /\ failing' = (drawAmount > Len(decks))
          /\ toDraw' = Min({drawAmount, Len(decks)})
          /\ pc' = "drawRandomCards"
     ELSE thrown' = "negativeDrawAttempt" /\ UNCHANGED <<failing, toDraw, pc>>
  /\ UNCHANGED <<form, numSubDecks, decks, drawn, tempDeck>>

RandomIteration ==
  /\ pc = "drawRandomCards"
  /\ toDraw > 0
  /\ PicksRandomCard
  /\ toDraw' = toDraw - 1
  /\ UNCHANGED <<form, numSubDecks, thrown, pc, tempDeck, failing>>

RandomDone ==
  /\ pc = "drawRandomCards"
  /\ toDraw = 0
  /\ thrown' = IF failing THEN "insufficientCardsRemaining" ELSE "none"
  /\ pc' = "ready"
  /\ failing' = FALSE
  /\ UNCHANGED <<form, numSubDecks, decks, drawn, tempDeck, toDraw>>

-------------------------------------------------------------------------------
(* The setter of deckCards *)

\* The client puts the cards it has drawn back; only an empty deck takes them,
\* otherwise the assignment has no effect and the client still has the cards.
SetDeckCards ==
  /\ pc = "ready"
  /\ form = "method"
  /\ thrown' = "none"
  /\ decks' = IF decks = << >> THEN drawn ELSE decks
  /\ drawn' = IF decks = << >> THEN << >> ELSE drawn
  /\ UNCHANGED <<form, numSubDecks, call>>

-------------------------------------------------------------------------------
Loop == ShuffleOnce \/ ShuffleReturns \/ RandomIteration \/ RandomDone

Next ==
  \/ Loop
  \/ Shuffle \/ DrawCard \/ DrawRandomCard \/ SetDeckCards
  \/ \E n \in Requests, shuffled \in BOOLEAN : CreateDeck(n, shuffled)
  \/ \E drawAmount \in Amounts :
       DrawCards(drawAmount) \/ DrawRandomCards(drawAmount)

Spec == Init /\ [][Next]_vars

\* A call that has begun goes on, and a shuffle that can change the order does
\* not miss it forever: Array.shuffle picks every order with the same chance.
FairSpec ==
  /\ Spec
  /\ WF_vars(Loop)
  /\ WF_vars(ShuffleOnce /\ ~SameCards(tempDeck, decks'))

-------------------------------------------------------------------------------
(* What a deck promises *)

\* The type invariant; the methods keep the sub-decks within their limits.
TypeOK ==
  /\ form \in {"method", "static"}
  /\ numSubDecks \in minNumSubDecks..(IF form = "method" THEN maxNumSubDecks
                                                         ELSE maxNumSubDecks + 1)
  /\ decks \in Seq(CardsOf(numSubDecks))
  /\ drawn \in Seq(CardsOf(numSubDecks))
  /\ thrown \in {"none", "drawFromEmptyDeck", "insufficientCardsRemaining",
                 "negativeDrawAttempt"}
  /\ pc \in {"ready", "shuffle", "drawRandomCards"}
  /\ tempDeck \in Seq(CardsOf(numSubDecks))
  /\ toDraw \in 0..Len(decks)
  /\ failing \in BOOLEAN

\* The cards in the deck and the cards drawn from it are together exactly the
\* cards the deck was made of, each of them once, after any sequence of
\* shuffles, draws from the top, random draws (which look a card up by value
\* among its copies), draws that fail half way and cards put back.
DeckComplete ==
  /\ IsInjective(drawn \o decks)
  /\ ToSet(drawn \o decks) = CardsOf(numSubDecks)

\* insufficientCardsRemaining says that the deck ran out: drawCards and
\* drawRandomCards have then taken everything there was.
ErrorMeansDrawnOut == thrown = "insufficientCardsRemaining" => decks = << >>

\* The running maximum of determineHighestRank, which starts from the lowest
\* rank, is the greatest rank of the cards, for every array a client can get.
HighestRankIsMax ==
  decks # << >> =>
    determineHighestRank(decks) = Max({decks[i].rank : i \in DOMAIN decks})

\* Whatever a client calls, in whatever order and however it fails: no card of
\* the deck is lost or there twice, an error that says so means that the deck
\* is drawn out, and the highest rank of its cards is found.
DeckIsSound == TypeOK /\ DeckComplete /\ ErrorMeansDrawnOut /\ HighestRankIsMax

\* No reordering of the deck makes a difference.
Uniform == \A i, j \in DOMAIN decks : SameCard(decks[i], decks[j])

\* Every call returns, a shuffle if the deck has two different cards.
CallsReturn ==
  (pc # "ready" /\ ~(pc = "shuffle" /\ Uniform)) ~> pc = "ready"

===============================================================================

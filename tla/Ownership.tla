------------------------------- MODULE Ownership -------------------------------
(***************************************************************************)
(* What a game of War promises to those who watch the table: whose the     *)
(* cards are.  A card belongs to the deck, to a player or to the stakes of *)
(* the round.  How a round is decided, and in which order cards lie, is    *)
(* left open.                                                              *)
(***************************************************************************)
EXTENDS Integers

CONSTANTS Cards, NumPlayers

Players == 1..NumPlayers
DeckPlace == 0
Stakes == NumPlayers + 1
Places == DeckPlace..Stakes

VARIABLES
  owner,  \* where every card is
  out,    \* the players who have lost
  over    \* whether the game has ended

vars == <<owner, out, over>>

At(place) == {c \in Cards : owner[c] = place}

\* The cards S go to a place.
Moves(S, place) == owner' = [c \in Cards |-> IF c \in S THEN place ELSE owner[c]]

Init ==
  /\ owner = [c \in Cards |-> DeckPlace]
  /\ out = {}
  /\ over = FALSE

\* A player in the game gets a card of the deck.
Deal(p) ==
  /\ p \notin out
  /\ \E c \in At(DeckPlace) : Moves({c}, p)
  /\ UNCHANGED <<out, over>>

\* A player in the game stakes some of the cards he has.
Stake(p) ==
  /\ p \notin out
  /\ \E S \in SUBSET At(p) : S # {} /\ Moves(S, Stakes)
  /\ UNCHANGED <<out, over>>

\* A player loses; what he still had goes to the stakes.
Leave(p) ==
  /\ p \notin out
  /\ Moves(At(p), Stakes)
  /\ out' = out \cup {p}
  /\ UNCHANGED over

\* A player in the game takes all the stakes.
Take(p) ==
  /\ p \notin out
  /\ At(Stakes) # {}
  /\ Moves(At(Stakes), p)
  /\ UNCHANGED <<out, over>>

\* Nobody takes the stakes: they become the deck again.
Return ==
  /\ At(DeckPlace) = {}
  /\ Moves(At(Stakes), DeckPlace)
  /\ UNCHANGED <<out, over>>

\* One player is left and owns everything.
Finish ==
  /\ \E p \in Players : out = Players \ {p} /\ At(p) = Cards
  /\ over' = TRUE
  /\ UNCHANGED <<owner, out>>

Next ==
  /\ ~over
  /\ \/ Return \/ Finish
     \/ \E p \in Players : Deal(p) \/ Stake(p) \/ Leave(p) \/ Take(p)

Spec == Init /\ [][Next]_vars

===============================================================================

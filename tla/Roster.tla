--------------------------------- MODULE Roster ---------------------------------
(***************************************************************************)
(* The players of games: Player.swift, TournamentPlayer.swift and the      *)
(* methods of Games/Game.swift and Games/War.swift that add players.       *)
(*                                                                         *)
(* Players are objects that clients and games share by reference.  A       *)
(* client makes them, gives them cards, copies them and adds them to       *)
(* games; a game of War deals to, draws from and eliminates its players.   *)
(***************************************************************************)
EXTENDS Integers, Sequences

CONSTANTS
  MaxObjects,  \* how many player objects are made in all
  Games,       \* the objects of class Game or of its subclass War
  WarGames,    \* those of class War
  Card         \* cards, of which only the identity matters here

RosterAssumption == MaxObjects \in Nat /\ WarGames \subseteq Games

VARIABLES
  heap,     \* the player objects, in the order of their allocation
  players   \* Game.players of every game: a dictionary from ids to objects

vars == <<heap, players>>

Objects == DOMAIN heap

\* Player.init: UUID() never gives the same id twice.
Fresh(class) ==
  [class |-> class, id |-> Len(heap) + 1, cards |-> {}, lastPlayedCard |-> {},
   eliminated |-> FALSE]

\* TournamentPlayer.init(_: Player)
Converted(object) ==
  [class |-> "TournamentPlayer", id |-> object.id, cards |-> object.cards,
   lastPlayedCard |-> {}, eliminated |-> FALSE]

\* copy(with:) of both classes
Copied(object) == [Converted(object) EXCEPT !.class = object.class]

Put(d, key, value) ==
  [k \in DOMAIN d \cup {key} |-> IF k = key THEN value ELSE d[k]]

Init ==
  /\ heap = << >>
  /\ players = [g \in Games |-> << >>]

-------------------------------------------------------------------------------
(* Clients *)

NewPlayer(class) ==
  /\ Len(heap) < MaxObjects
  /\ heap' = Append(heap, Fresh(class))
  /\ UNCHANGED players

\* addToCards, called by a client.
GivesCard(r, c) ==
  /\ c \notin heap[r].cards
  /\ heap' = [heap EXCEPT ![r].cards = @ \cup {c}]
  /\ UNCHANGED players

Copy(r) ==
  /\ Len(heap) < MaxObjects
  /\ heap' = Append(heap, Copied(heap[r]))
  /\ UNCHANGED players

\* addPlayer: War keeps TournamentPlayers and converts other players; Game keeps
\* every player.
AddPlayer(g, r) ==
  IF g \in WarGames /\ heap[r].class # "TournamentPlayer"
  THEN /\ Len(heap) < MaxObjects
       /\ heap' = Append(heap, Converted(heap[r]))
       /\ players' = [players EXCEPT ![g] = Put(@, heap[r].id, Len(heap) + 1)]
  ELSE /\ players' = [players EXCEPT ![g] = Put(@, heap[r].id, r)]
       /\ UNCHANGED heap

\* The dictionary that adding two players in turn makes of an empty one
Added(id1, r1, id2, r2) == Put(Put(<< >>, id1, r1), id2, r2)

\* War(withPlayers: [Player]), which replaces the game g of the client:
\* toTournamentPlayers makes a new object of every player, TournamentPlayers
\* included, and addPlayers adds them one by one.
WarWithPlayers(g, r, s) ==
  /\ g \in WarGames
  /\ Len(heap) + 2 <= MaxObjects
  /\ heap' = Append(Append(heap, Converted(heap[r])), Converted(heap[s]))
  /\ players' = [players EXCEPT ![g] =
       Added(heap[r].id, Len(heap) + 1, heap[s].id, Len(heap) + 2)]

\* Game(withPlayers: [Player]) and War(withPlayers: [TournamentPlayer]): the new
\* game keeps the objects.
GameWithPlayers(g, r, s) ==
  /\ g \in WarGames => heap[r].class = "TournamentPlayer" /\ heap[s].class = "TournamentPlayer"
  /\ players' = [players EXCEPT ![g] = Added(heap[r].id, r, heap[s].id, s)]
  /\ UNCHANGED heap

-------------------------------------------------------------------------------
(* What a game of War does to a player it finds under an id *)

\* Variant: the array of cards is shared by the objects it was copied to.
DealsShared(g, id, c) ==
  /\ c \notin heap[players[g][id]].cards
  /\ heap' = [r \in Objects |-> IF heap[r].id = id
                                THEN [heap[r] EXCEPT !.cards = @ \cup {c}]
                                ELSE heap[r]]
  /\ UNCHANGED players

\* dealCards, startRound, war: players[id]!.addToCards
Deals(g, id, c) ==
  /\ c \notin heap[players[g][id]].cards
  /\ heap' = [heap EXCEPT ![players[g][id]].cards = @ \cup {c}]
  /\ UNCHANGED players

\* placeCards, gotoWar, limitedWar: a card is drawn from players[id]!.cards
Draws(g, id, c) ==
  /\ c \in heap[players[g][id]].cards
  /\ heap' = [heap EXCEPT ![players[g][id]].cards = @ \ {c},
                          ![players[g][id]].lastPlayedCard = {c}]
  /\ UNCHANGED players

\* isEliminated = true, in the same places.
Eliminates(g, id) ==
  /\ ~heap[players[g][id]].eliminated
  /\ heap' = [heap EXCEPT ![players[g][id]].eliminated = TRUE]
  /\ UNCHANGED players

GameStep ==
  \E g \in WarGames : \E id \in DOMAIN players[g] :
    \/ Eliminates(g, id)
    \/ \E c \in Card : Deals(g, id, c) \/ Draws(g, id, c)

ClientStep ==
  \/ \E class \in {"Player", "TournamentPlayer"} : NewPlayer(class)
  \/ \E r \in Objects :
       \/ Copy(r)
       \/ \E c \in Card : GivesCard(r, c)
       \/ \E g \in Games : AddPlayer(g, r)
  \/ \E g \in Games, r, s \in Objects :
       WarWithPlayers(g, r, s) \/ GameWithPlayers(g, r, s)

Next == GameStep \/ ClientStep

Spec == Init /\ [][Next]_vars

-------------------------------------------------------------------------------
OnlyOwnPlayers ==
  GameStep => \A r \in Objects : heap[r].class = "Player" => heap'[r] = heap[r]

\* A game of War plays with its own objects: nothing it does reaches a plain
\* Player of a client, however often that player was added and copied.
PlayersAreNotPlayedWith == [][OnlyOwnPlayers]_vars

===============================================================================

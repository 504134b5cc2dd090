------------------------------- MODULE WarProofs -------------------------------
(***************************************************************************)
(* Proofs about the game of War, for any number of players, sub-decks,     *)
(* suits and ranks; about games one after the other (Rematch), and about   *)
(* players that several games and clients share (Roster), for any number   *)
(* of games and objects.                                                   *)
(***************************************************************************)
EXTENDS Rematch, SequenceTheorems, FiniteSetTheorems, TLAPS

-------------------------------------------------------------------------------
(* Sequences of cards *)

\* What drawing k cards from the top of an array takes and leaves.
LEMMA DrawProperties ==
  ASSUME NEW s \in Seq(Cards), NEW k \in 0..Len(s)
  PROVE  /\ DrawnFrom(s, k) \in Seq(Cards)
         /\ Len(DrawnFrom(s, k)) = k
         /\ \A i \in 1..k : DrawnFrom(s, k)[i] = s[i]
         /\ LeftAfter(s, k) \in Seq(Cards)
         /\ Len(LeftAfter(s, k)) = Len(s) - k
         /\ \A i \in 1..(Len(s) - k) : LeftAfter(s, k)[i] = s[k + i]
<1>1. Len(s) \in Nat /\ \A i \in 1..Len(s) : s[i] \in Cards
  BY LenProperties
<1>2. /\ DrawnFrom(s, k) \in Seq(Cards)
      /\ Len(DrawnFrom(s, k)) = k
      /\ \A i \in 1..k : DrawnFrom(s, k)[i] = s[i]
  <2>1. \A i \in 1..k : s[i] \in Cards
    BY <1>1
  <2>. QED  BY <1>1, <2>1, SubSeqProperties DEF DrawnFrom
<1>3. /\ LeftAfter(s, k) \in Seq(Cards)
      /\ Len(LeftAfter(s, k)) = Len(s) - k
      /\ \A i \in 1..(Len(s) - k) : LeftAfter(s, k)[i] = s[k + i]
  <2>1. \A i \in (k + 1)..Len(s) : s[i] \in Cards
    BY <1>1
  <2>. QED  BY <1>1, <2>1, SubSeqProperties DEF LeftAfter
<1>. QED  BY <1>2, <1>3

\* A card is in one of the piles.
InSome(piles, c) == \E i \in Piles : \E j \in DOMAIN piles[i] : piles[i][j] = c

\* Moving the first k cards of one pile to the end of another one keeps every
\* card in exactly one place: every transfer of cards in the game (addToCards
\* after drawCard or drawCards) has this form.
LEMMA MoveConserves ==
  ASSUME NEW q \in [Piles -> Seq(Cards)], NEW r \in [Piles -> Seq(Cards)],
         NEW a \in Piles, NEW b \in Piles, a # b,
         NEW k \in 0..Len(q[a]),
         r[a] = LeftAfter(q[a], k),
         r[b] = q[b] \o DrawnFrom(q[a], k),
         \A i \in Piles \ {a, b} : r[i] = q[i],
         NothingDuplicated(q)
  PROVE  NothingDuplicated(r) /\ \A c \in Cards : InSome(q, c) <=> InSome(r, c)
<1>1. /\ \A i \in Piles : Len(q[i]) \in Nat /\ DOMAIN q[i] = 1..Len(q[i])
      /\ \A i \in Piles : Len(r[i]) \in Nat /\ DOMAIN r[i] = 1..Len(r[i])
  BY LenProperties
<1>0. \A i \in Piles : q[i] \in Seq(Cards) /\ r[i] \in Seq(Cards)
  OBVIOUS
<1>2. /\ Len(r[a]) = Len(q[a]) - k
      /\ \A j \in 1..Len(r[a]) : r[a][j] = q[a][k + j]
  <2>. DEFINE s == q[a]
  <2>1. /\ Len(LeftAfter(s, k)) = Len(s) - k
        /\ \A j \in 1..(Len(s) - k) : LeftAfter(s, k)[j] = s[k + j]
    <3>1. s \in Seq(Cards) /\ k \in 0..Len(s)
      BY <1>0
    <3>. HIDE DEF s
    <3>. QED  BY <3>1, DrawProperties
  <2>. QED  BY <2>1
<1>3. /\ Len(r[b]) = Len(q[b]) + k
      /\ \A j \in 1..Len(q[b]) : r[b][j] = q[b][j]
      /\ \A j \in 1..k : r[b][Len(q[b]) + j] = q[a][j]
  <2>. DEFINE s == q[a]
              d == DrawnFrom(s, k)
              t == q[b]
  <2>1. d \in Seq(Cards) /\ Len(d) = k /\ \A j \in 1..k : d[j] = s[j]
    <3>1. s \in Seq(Cards) /\ k \in 0..Len(s)
      BY <1>0
    <3>. HIDE DEF s
    <3>. QED  BY <3>1, DrawProperties
  <2>2. t \in Seq(Cards) /\ Len(t) \in Nat /\ r[b] = t \o d
    BY <1>0, <1>1
  <2>3. k \in Nat
    BY <1>1
  <2>. HIDE DEF d, t
  <2>4. /\ Len(t \o d) = Len(t) + k
        /\ \A j \in 1..(Len(t) + k) :
             (t \o d)[j] = IF j <= Len(t) THEN t[j] ELSE d[j - Len(t)]
    BY <2>1, <2>2, ConcatProperties
  <2>5. \A j \in 1..Len(t) : (t \o d)[j] = t[j]
    BY <2>2, <2>3, <2>4
  <2>6. \A j \in 1..k : (t \o d)[Len(t) + j] = s[j]
    <3>1. SUFFICES ASSUME NEW j \in 1..k
                   PROVE  (t \o d)[Len(t) + j] = s[j]
      OBVIOUS
    <3>2. /\ Len(t) + j \in 1..(Len(t) + k)
          /\ ~(Len(t) + j <= Len(t))
          /\ (Len(t) + j) - Len(t) = j
      BY <2>2, <2>3
    <3>. QED  BY <3>2, <2>4, <2>1
  <2>. QED  BY <2>2, <2>4, <2>5, <2>6 DEF t
<1>4. \A c \in Cards : InSome(q, c) => InSome(r, c)
  <2>1. SUFFICES ASSUME NEW c \in Cards, InSome(q, c)
                 PROVE  \E i \in Piles : \E j \in DOMAIN r[i] : r[i][j] = c
    BY DEF InSome
  <2>2. PICK i \in Piles : \E j \in DOMAIN q[i] : q[i][j] = c
    BY <2>1 DEF InSome
  <2>3. PICK j \in 1..Len(q[i]) : q[i][j] = c
    BY <2>2, <1>1
  <2>4. CASE i = a /\ j > k
    <3>1. j - k \in 1..Len(r[a]) /\ r[a][j - k] = c
      BY <1>1, <1>2, <2>3, <2>4
    <3>. QED  BY <3>1, <1>1
  <2>5. CASE i = a /\ j <= k
    <3>1. Len(q[b]) + j \in 1..Len(r[b]) /\ r[b][Len(q[b]) + j] = c
      BY <1>1, <1>3, <2>3, <2>5
    <3>. QED  BY <3>1, <1>1
  <2>6. CASE i = b
    <3>1. j \in 1..Len(r[b]) /\ r[b][j] = c
      BY <1>1, <1>3, <2>3, <2>6
    <3>. QED  BY <3>1, <1>1
  <2>7. CASE i \in Piles \ {a, b}
    BY <2>3, <2>7, <1>1
  <2>. QED  BY <2>3, <2>4, <2>5, <2>6, <2>7, <1>1
<1>5. NothingDuplicated(r) /\ \A c \in Cards : InSome(r, c) => InSome(q, c)
  <2>. DEFINE pileOf(i, j) == IF i = b /\ j > Len(q[b]) THEN a ELSE i
              slotOf(i, j) == IF i = a THEN k + j
                              ELSE IF i = b /\ j > Len(q[b])
                                   THEN j - Len(q[b]) ELSE j
  <2>1. ASSUME NEW i \in Piles, NEW j \in 1..Len(r[i])
        PROVE  /\ pileOf(i, j) \in Piles
               /\ slotOf(i, j) \in 1..Len(q[pileOf(i, j)])
               /\ r[i][j] = q[pileOf(i, j)][slotOf(i, j)]
    <3>2. CASE i = a
      BY <1>1, <1>2, <3>2
    <3>3. CASE i = b /\ j > Len(q[b])
      <4>1. j - Len(q[b]) \in 1..k /\ j = Len(q[b]) + (j - Len(q[b]))
        BY <1>1, <1>3, <3>3
      <4>2. r[b][j] = q[a][j - Len(q[b])]
        BY <4>1, <1>3
      <4>. QED  BY <1>1, <3>3, <4>1, <4>2
    <3>4. CASE i = b /\ ~(j > Len(q[b]))
      BY <1>1, <1>3, <3>4
    <3>5. CASE i \in Piles \ {a, b}
      BY <1>1, <3>5
    <3>. QED  BY <3>2, <3>3, <3>4, <3>5
  <2>2. ASSUME NEW i \in Piles, NEW m \in Piles,
               NEW j \in 1..Len(r[i]), NEW l \in 1..Len(r[m]),
               pileOf(i, j) = pileOf(m, l), slotOf(i, j) = slotOf(m, l)
        PROVE  i = m /\ j = l
    <3>1. Len(r[a]) \in Nat /\ Len(q[b]) \in Nat /\ k \in Nat
      BY <1>1
    <3>2. CASE i = m
      BY <2>2, <3>1, <3>2, <1>1
    <3>3. CASE i = a /\ m = b
      BY <2>2, <3>1, <3>3, <1>1, <1>3
    <3>4. CASE i = b /\ m = a
      BY <2>2, <3>1, <3>4, <1>1, <1>3
    <3>5. CASE i # m /\ ~(i = a /\ m = b) /\ ~(i = b /\ m = a)
      BY <2>2, <3>5
    <3>. QED  BY <3>2, <3>3, <3>4, <3>5
  <2>a. \A c \in Cards : InSome(r, c) => InSome(q, c)
    <3>1. SUFFICES ASSUME NEW c \in Cards, NEW i \in Piles, NEW j \in 1..Len(r[i]), r[i][j] = c
                   PROVE  InSome(q, c)
      BY <1>1 DEF InSome
    <3>. HIDE DEF pileOf, slotOf
    <3>2. /\ pileOf(i, j) \in Piles /\ slotOf(i, j) \in DOMAIN q[pileOf(i, j)]
          /\ c = q[pileOf(i, j)][slotOf(i, j)]
      BY <2>1, <3>1, <1>1
    <3>. QED  BY <3>2 DEF InSome
  <2>b. SUFFICES NothingDuplicated(r)
    BY <2>a
  <2>3. SUFFICES ASSUME NEW i \in Piles, NEW m \in Piles,
                        NEW j \in 1..Len(r[i]), NEW l \in 1..Len(r[m]),
                        r[i][j] = r[m][l]
                 PROVE  i = m /\ j = l
    BY <1>1 DEF NothingDuplicated
  <2>. HIDE DEF pileOf, slotOf
  <2>4. /\ pileOf(i, j) \in Piles
        /\ slotOf(i, j) \in DOMAIN q[pileOf(i, j)]
        /\ r[i][j] = q[pileOf(i, j)][slotOf(i, j)]
    BY <2>1, <1>1
  <2>5. /\ pileOf(m, l) \in Piles
        /\ slotOf(m, l) \in DOMAIN q[pileOf(m, l)]
        /\ r[m][l] = q[pileOf(m, l)][slotOf(m, l)]
    BY <2>1, <1>1
  <2>6. pileOf(i, j) = pileOf(m, l) /\ slotOf(i, j) = slotOf(m, l)
    <3>1. \A x, y \in Piles : \A u \in DOMAIN q[x], w \in DOMAIN q[y] :
            q[x][u] = q[y][w] => x = y /\ u = w
      BY DEF NothingDuplicated
    <3>2. q[pileOf(i, j)][slotOf(i, j)] = q[pileOf(m, l)][slotOf(m, l)]
      BY <2>3, <2>4, <2>5
    <3>3. \A u \in DOMAIN q[pileOf(i, j)], w \in DOMAIN q[pileOf(m, l)] :
            q[pileOf(i, j)][u] = q[pileOf(m, l)][w]
              => pileOf(i, j) = pileOf(m, l) /\ u = w
      BY <2>4, <2>5, <3>1
    <3>. QED  BY <2>4, <2>5, <3>2, <3>3
  <2>. QED  BY <2>2, <2>6
<1>. QED  BY <1>4, <1>5

-------------------------------------------------------------------------------
(* Finite sets and their enumerations *)

LEMMA PlayersFinite == IsFiniteSet(Players)
  BY WarAssumption, FS_Interval DEF Players

LEMMA CardsFinite == IsFiniteSet(Cards)
<1>. DEFINE copies  == 1..NumSubDecks
            triples == (Suits \X Ranks) \X copies
            card    == [t \in triples |->
                          [suit |-> t[1][1], rank |-> t[1][2], copy |-> t[2]]]
<1>1. IsFiniteSet(Suits) /\ IsFiniteSet(Ranks) /\ IsFiniteSet(copies)
  BY CardAssumption, WarAssumption, FS_Interval DEF Suits, Ranks
<1>2. IsFiniteSet(triples)
  <2>1. IsFiniteSet(Suits \X Ranks)
    BY <1>1, FS_Product
  <2>. QED  BY <1>1, <2>1, FS_Product
<1>3. card \in Surjection(triples, Cards)
  <2>1. card \in [triples -> Cards]
    BY DEF Cards, CardsOf
  <2>2. ASSUME NEW c \in Cards
        PROVE  \E t \in triples : card[t] = c
    <3>1. /\ <<<<c.suit, c.rank>>, c.copy>> \in triples
          /\ c = [suit |-> c.suit, rank |-> c.rank, copy |-> c.copy]
      BY DEF Cards, CardsOf
    <3>2. card[<<<<c.suit, c.rank>>, c.copy>>] = c
      BY <3>1
    <3>. QED  BY <3>1, <3>2
  <2>. QED  BY <2>1, <2>2 DEF Surjection
<1>. HIDE DEF triples, card
<1>. QED  BY <1>2, <1>3, FS_Surjection

\* An enumeration of a finite set is a sequence that has every element once.
LEMMA EnumerationProperties ==
  ASSUME NEW S, IsFiniteSet(S), NEW f \in SetToSeqs(S)
  PROVE  /\ f \in Seq(S)
         /\ \A i, j \in DOMAIN f : f[i] = f[j] => i = j
         /\ \A x \in S : \E i \in DOMAIN f : f[i] = x
<1>. DEFINE n == Cardinality(S)
<1>1. n \in Nat
  BY FS_CardinalityType
<1>2. f \in [1..n -> S] /\ \A i, j \in 1..n : i # j => f[i] # f[j]
  BY DEF SetToSeqs
<1>3. f \in Injection(1..n, S)
  BY <1>2 DEF Injection, IsInjective
<1>4. Cardinality(1..n) = n
  BY <1>1, FS_Interval
<1>5. f \in Surjection(1..n, S)
  BY <1>3, <1>4, FS_Injection
<1>6. f \in Seq(S)
  BY <1>1, <1>2
<1>7. \A x \in S : \E i \in 1..n : f[i] = x
  BY <1>5 DEF Surjection
<1>. QED  BY <1>2, <1>6, <1>7

-------------------------------------------------------------------------------
(* Type correctness *)

\* A player's turn in gotoWar or limitedWar preserves the types, whether the
\* player draws all the cards asked for or is eliminated.
LEMMA FightsTypes ==
  ASSUME TypeOK, NEW p \in Players, NEW k \in 0..Len(cards[p]), Fights(p, k),
         pc \in {"gotoWar", "limitedWar"}, turn' = turn + 1,
         eliminated' \in [Players -> BOOLEAN], noSuccessfulDraws' \in BOOLEAN,
         UNCHANGED <<gameDeck, roundWinner, gameover, pc, caller,
                     highCardHolders, enoughCards>>
  PROVE  TypeOK'
<1>. DEFINE hand == cards[p]
<1>1. hand \in Seq(Cards) /\ Len(hand) \in Nat /\ prizeCards \in Seq(Cards)
  BY LenProperties DEF TypeOK
<1>2. DrawnFrom(hand, k) \in Seq(Cards) /\ LeftAfter(hand, k) \in Seq(Cards)
  <2>1. k \in 0..Len(hand)
    OBVIOUS
  <2>. HIDE DEF hand
  <2>. QED  BY <1>1, <2>1, DrawProperties
<1>3. cards' \in [Players -> Seq(Cards)]
  BY <1>2 DEF Fights, TypeOK
<1>4. prizeCards' \in Seq(Cards)
  BY <1>1, <1>2, ConcatProperties DEF Fights
<1>5. lastPlayedCard' \in [Players -> Cards \cup {Nil}]
  <2>1. k # 0 => cards[p][k] \in Cards
    BY <1>1, ElementOfSeq
  <2>. QED  BY <2>1 DEF Fights, TypeOK
<1>6. /\ DOMAIN roundCards' \subseteq Players
      /\ \A q \in DOMAIN roundCards' : roundCards'[q] \in Seq(Cards)
  BY <1>2 DEF Fights, Put, TypeOK
<1>7. turn' \in Nat \ {0} /\ pc' # "dealCards" /\ pc' \in Methods
  BY DEF TypeOK
<1>8. /\ gameDeck' \in Seq(Cards) /\ highCardHolders' \in Seq(Players)
      /\ roundWinner' \in Players \cup {Nil}
      /\ gameover' \in BOOLEAN /\ enoughCards' \in BOOLEAN
      /\ caller' \in {"startGame", "updateGameStatus"}
  BY DEF TypeOK
<1>. QED  BY <1>3, <1>4, <1>5, <1>6, <1>7, <1>8 DEF TypeOK

\* Every step of the game preserves the types.
LEMMA TypeStep ==
  ASSUME TypeOK, [Next]_vars
  PROVE  TypeOK'
<1>. USE DEF Methods, game, round, flags
<1>a. turn' = NextInTurn /\ turn \in Players => turn' \in Players
  BY WarAssumption DEF NextInTurn, Players
<1>b. 1 \in Players /\ Players \subseteq Nat \ {0}
  BY WarAssumption DEF Players
<1>2. CASE StartGame
  BY <1>2, <1>b DEF StartGame, TypeOK
<1>3. CASE StartRound
  BY <1>3 DEF StartRound, TypeOK, NoEntries
<1>4. CASE EndGame
  BY <1>4 DEF EndGame, TypeOK
<1>5. CASE DealSkips
  BY <1>5, <1>a, <1>b DEF DealSkips, TypeOK
<1>6. CASE DealCard
  <2>1. /\ gameDeck \in Seq(Cards) /\ Len(gameDeck) \in Nat \ {0}
        /\ turn \in Players
    BY <1>6, EmptySeq DEF DealCard, TypeOK
  <2>2. 1 \in 0..Len(gameDeck)
    BY <2>1
  <2>3. /\ DrawnFrom(gameDeck, 1) \in Seq(Cards)
        /\ LeftAfter(gameDeck, 1) \in Seq(Cards)
    BY <2>1, <2>2, DrawProperties
  <2>4. cards[turn] \o DrawnFrom(gameDeck, 1) \in Seq(Cards)
    BY <2>1, <2>3, ConcatProperties DEF TypeOK
  <2>. QED  BY <1>6, <1>a, <1>b, <2>1, <2>3, <2>4 DEF DealCard, TypeOK
<1>7. CASE DealReturns
  BY <1>7 DEF DealReturns, TypeOK
<1>8. CASE PlaceCard
  <2>. DEFINE hand == cards[turn]
  <2>1. hand \in Seq(Cards) /\ hand # << >> /\ turn \in Players
    BY <1>8 DEF PlaceCard, TypeOK
  <2>2. Len(hand) \in Nat \ {0} /\ prizeCards \in Seq(Cards)
    BY <2>1, EmptySeq DEF TypeOK
  <2>3. /\ DrawnFrom(hand, 1) \in Seq(Cards)
        /\ LeftAfter(hand, 1) \in Seq(Cards)
        /\ hand[1] \in Cards
    <3>. HIDE DEF hand
    <3>1. 1 \in 0..Len(hand) /\ 1 \in 1..Len(hand)
      BY <2>2
    <3>. QED  BY <2>1, <3>1, DrawProperties, ElementOfSeq
  <2>4. prizeCards' \in Seq(Cards)
    BY <1>8, <2>2, <2>3, ConcatProperties DEF PlaceCard
  <2>5. /\ cards' \in [Players -> Seq(Cards)]
        /\ lastPlayedCard' \in [Players -> Cards \cup {Nil}]
    BY <1>8, <2>1, <2>3 DEF PlaceCard, TypeOK
  <2>6. /\ DOMAIN roundCards' \subseteq Players
        /\ \A q \in DOMAIN roundCards' : roundCards'[q] \in Seq(Cards)
    BY <1>8, <2>1, <2>3 DEF PlaceCard, Put, TypeOK
  <2>. QED  BY <1>8, <2>4, <2>5, <2>6 DEF PlaceCard, TypeOK
<1>9. CASE PlaceNothing
  BY <1>9 DEF PlaceNothing, TypeOK
<1>10. CASE PlaceReturns
  BY <1>10 DEF PlaceReturns, TypeOK
<1>c. \A p \in Players : TakesPrize(p) =>
        /\ cards' \in [Players -> Seq(Cards)]
        /\ prizeCards' \in Seq(Cards)
        /\ roundWinner' \in Players \cup {Nil}
  BY ConcatProperties, EmptySeq DEF TakesPrize, TypeOK
<1>11. CASE RoundWon
  BY <1>11, <1>c DEF RoundWon, TypeOK
<1>12. CASE WarWon
  BY <1>12, <1>c DEF WarWon, TypeOK
<1>13. CASE GoToWar
  <2>1. HighCardHolders \subseteq Players
    BY DEF HighCardHolders, Contenders, TypeOK
  <2>2. IsFiniteSet(HighCardHolders)
    BY <2>1, PlayersFinite, FS_Subset
  <2>3. highCardHolders' \in Seq(HighCardHolders)
    BY <1>13, <2>2, EnumerationProperties DEF GoToWar
  <2>4. highCardHolders' \in Seq(Players)
    BY <2>1, <2>3, SeqMonotonic
  <2>. QED  BY <1>13, <2>4 DEF GoToWar, TypeOK
<1>14. CASE BeginWar
  BY <1>14 DEF BeginWar, TypeOK, NoEntries
<1>d. ASSUME turn \in DOMAIN highCardHolders
      PROVE  /\ highCardHolders[turn] \in Players
             /\ Len(cards[highCardHolders[turn]]) \in Nat
             /\ cards[highCardHolders[turn]] # << >>
                  => Len(cards[highCardHolders[turn]]) # 0
  <2>1. highCardHolders[turn] \in Players
    BY <1>d, LenProperties DEF TypeOK
  <2>. QED  BY <2>1, LenProperties, EmptySeq DEF TypeOK
<1>15. CASE GotoWarDraws
  <2>1. PICK w \in Players : w = highCardHolders[turn]
    BY <1>15, <1>d DEF GotoWarDraws, WarTurn
  <2>2. 2 \in 0..Len(cards[w]) /\ Fights(w, 2)
    BY <1>15, <1>d, <2>1 DEF GotoWarDraws, WarTurn, cardsNeededForWar
  <2>3. eliminated' \in [Players -> BOOLEAN] /\ noSuccessfulDraws' \in BOOLEAN
    BY <1>15 DEF GotoWarDraws, TypeOK
  <2>. QED  BY <1>15, <2>2, <2>3, FightsTypes DEF GotoWarDraws, WarTurn
<1>16. CASE GotoWarFails
  <2>1. PICK w \in Players : w = highCardHolders[turn]
    BY <1>16, <1>d DEF GotoWarFails, WarTurn
  <2>2. Len(cards[w]) \in 0..Len(cards[w]) /\ Fights(w, Len(cards[w]))
    BY <1>16, <1>d, <2>1 DEF GotoWarFails, WarTurn
  <2>3. eliminated' \in [Players -> BOOLEAN] /\ noSuccessfulDraws' \in BOOLEAN
    BY <1>16, <2>1 DEF GotoWarFails, TypeOK
  <2>. QED  BY <1>16, <2>2, <2>3, FightsTypes DEF GotoWarFails, WarTurn
<1>17. CASE LimitedWarDraws
  <2>1. PICK w \in Players : w = highCardHolders[turn]
    BY <1>17, <1>d DEF LimitedWarDraws, WarTurn
  <2>2. 1 \in 0..Len(cards[w]) /\ Fights(w, 1)
    BY <1>17, <1>d, <2>1 DEF LimitedWarDraws, WarTurn
  <2>3. eliminated' \in [Players -> BOOLEAN] /\ noSuccessfulDraws' \in BOOLEAN
    BY <1>17 DEF LimitedWarDraws, TypeOK
  <2>. QED  BY <1>17, <2>2, <2>3, FightsTypes DEF LimitedWarDraws, WarTurn
<1>18. CASE LimitedWarFails
  BY <1>18 DEF LimitedWarFails, WarTurn, TypeOK
<1>19. CASE WarDrawsDone
  BY <1>19 DEF WarDrawsDone, TypeOK
<1>20. CASE SettleDraw
  <2>1. HighSuitHolders \subseteq Players
    <3>1. ToSet(highCardHolders) \subseteq Players
      BY LenProperties DEF ToSet, TypeOK
    <3>. QED  BY <3>1 DEF HighSuitHolders, Drawn
  <2>2. CASE \E p \in Players : HighSuitHolders = {p}
    BY <1>20, <2>1, <2>2, <1>c DEF SettleDraw, TypeOK
  <2>3. CASE ~ \E p \in Players : HighSuitHolders = {p}
    BY <1>20, <2>3, <1>b DEF SettleDraw, TypeOK
  <2>. QED  BY <2>2, <2>3
<1>21. CASE UpdateGameStatus
  BY <1>21 DEF UpdateGameStatus, TypeOK
<1>22. CASE UNCHANGED vars
  BY <1>22 DEF vars, TypeOK
<1>. QED
  BY <1>2, <1>3, <1>4, <1>5, <1>6, <1>7, <1>8, <1>9, <1>10, <1>11, <1>12,
     <1>13, <1>14, <1>15, <1>16, <1>17, <1>18, <1>19, <1>20, <1>21, <1>22
     DEF Next, Step

\* The variables of the game keep their types, whatever is dealt and drawn, and
\* dealCards always deals to a player of the game.
THEOREM TypeCorrect == Spec => []TypeOK
<1>. USE DEF Methods, game, round, flags
<1>1. Init => TypeOK
  <2>1. SUFFICES ASSUME Init PROVE TypeOK
    OBVIOUS
  <2>2. gameDeck \in Seq(Cards)
    BY <2>1, CardsFinite, EnumerationProperties DEF Init
  <2>3. turn \in Players
    BY <2>1, WarAssumption DEF Init, Players
  <2>4. DOMAIN roundCards = {}
    BY <2>1 DEF Init, NoEntries
  <2>5. << >> \in Seq(Cards) /\ << >> \in Seq(Players)
    BY EmptySeq
  <2>6. turn \in Nat \ {0}
    BY <2>1 DEF Init
  <2>. QED  BY <2>1, <2>2, <2>3, <2>4, <2>5, <2>6 DEF Init, TypeOK
<1>2. TypeOK /\ [Next]_vars => TypeOK'
  BY TypeStep
<1>. QED  BY <1>1, <1>2, PTL DEF Spec

-------------------------------------------------------------------------------
(* Conservation of the cards *)

Prize == NumPlayers + 1

\* Taking all cards of an array.
LEMMA DrawAll ==
  ASSUME NEW s \in Seq(Cards)
  PROVE  DrawnFrom(s, Len(s)) = s /\ LeftAfter(s, Len(s)) = << >>
<1>1. Len(s) \in Nat
  BY LenProperties
<1>. QED  BY <1>1, SubSeqFull, SubSeqEmpty DEF DrawnFrom, LeftAfter

\* The hypotheses of MoveConserves, for the state of the game: k cards go from
\* the top of pile a to the end of pile b and nothing else moves.
Moves(a, b, k) ==
  /\ a # b
  /\ k \in 0..Len(pile[a])
  /\ pile'[a] = LeftAfter(pile[a], k)
  /\ pile'[b] = pile[b] \o DrawnFrom(pile[a], k)
  /\ \A i \in Piles \ {a, b} : pile'[i] = pile[i]

\* After a step no card is in two places, and the cards in play are those of before.
Conserves ==
  /\ NothingDuplicated(pile')
  /\ \A c \in Cards : InSome(pile, c) <=> InSome(pile', c)

LEMMA MovesConserve ==
  ASSUME TypeOK, TypeOK', NothingDuplicated(pile),
         NEW a \in Piles, NEW b \in Piles, NEW k, Moves(a, b, k)
  PROVE  Conserves
<1>1. pile \in [Piles -> Seq(Cards)] /\ pile' \in [Piles -> Seq(Cards)]
  <2>1. pile \in [Piles -> Seq(Cards)]
    BY DEF pile, TypeOK
  <2>2. (pile \in [Piles -> Seq(Cards)])'
    BY DEF pile, TypeOK
  <2>. QED  BY <2>1, <2>2
<1>. DEFINE q == pile
            r == pile'
<1>2. NothingDuplicated(q)
  OBVIOUS
<1>3. /\ a # b
      /\ k \in 0..Len(q[a])
      /\ r[a] = LeftAfter(q[a], k)
      /\ r[b] = q[b] \o DrawnFrom(q[a], k)
      /\ \A i \in Piles \ {a, b} : r[i] = q[i]
  BY DEF Moves
<1>4. q \in [Piles -> Seq(Cards)] /\ r \in [Piles -> Seq(Cards)]
  BY <1>1
<1>5. NothingDuplicated(r) /\ \A c \in Cards : InSome(q, c) <=> InSome(r, c)
  <2>. HIDE DEF q, r
  <2>. QED  BY <1>2, <1>3, <1>4, MoveConserves, ZenonT(30)
<1>. QED  BY <1>5 DEF Conserves

\* The cards are dealt out while rounds are played, and the prize is given away
\* between rounds: StartRound forgets no cards, the setter of deckCards finds
\* the deck empty.
PilesAtRest ==
  /\ pc \notin {"idle", "dealCards"} => gameDeck = << >>
  /\ pc \in {"idle", "dealCards", "startGame", "updateGameStatus"}
       => prizeCards = << >>

LEMMA PilesAtRestStep ==
  ASSUME TypeOK, PilesAtRest, [Next]_vars
  PROVE  PilesAtRest'
<1>. USE DEF PilesAtRest, game, round, flags
<1>1. CASE StartGame
  BY <1>1 DEF StartGame
<1>2. CASE StartRound \/ EndGame
  BY <1>2 DEF StartRound, EndGame
<1>3. CASE DealSkips \/ DealCard
  BY <1>3 DEF DealSkips, DealCard
<1>4. CASE DealReturns
  BY <1>4 DEF DealReturns, TypeOK
<1>5. CASE PlaceCard \/ PlaceNothing \/ PlaceReturns
  BY <1>5 DEF PlaceCard, PlaceNothing, PlaceReturns
<1>6. CASE RoundWon \/ WarWon
  BY <1>6 DEF RoundWon, WarWon, TakesPrize
<1>7. CASE GoToWar \/ BeginWar
  BY <1>7 DEF GoToWar, BeginWar
<1>8. CASE GotoWarDraws \/ GotoWarFails
  BY <1>8 DEF GotoWarDraws, GotoWarFails, WarTurn
<1>9. CASE LimitedWarDraws \/ LimitedWarFails
  BY <1>9 DEF LimitedWarDraws, LimitedWarFails, WarTurn
<1>10. CASE WarDrawsDone
  BY <1>10 DEF WarDrawsDone
<1>11. CASE SettleDraw
  BY <1>11 DEF SettleDraw, TakesPrize
<1>12. CASE UpdateGameStatus
  BY <1>12 DEF UpdateGameStatus
<1>13. CASE UNCHANGED vars
  BY <1>13 DEF vars
<1>. QED
  BY <1>1, <1>2, <1>3, <1>4, <1>5, <1>6, <1>7, <1>8, <1>9, <1>10, <1>11, <1>12,
     <1>13 DEF Next, Step

\* The piles before and after a step.
LEMMA PileValues ==
  /\ 0 \in Piles /\ Prize \in Piles /\ Players \subseteq Piles
  /\ 0 \notin Players /\ Prize \notin Players /\ Prize # 0
  /\ \A i \in Piles : i = 0 \/ i = Prize \/ i \in Players
  /\ pile[0] = gameDeck /\ pile'[0] = gameDeck'
  /\ pile[Prize] = prizeCards /\ pile'[Prize] = prizeCards'
  /\ \A p \in Players : pile[p] = cards[p] /\ pile'[p] = cards'[p]
<1>1. /\ 0 \in Piles /\ Prize \in Piles /\ Players \subseteq Piles
      /\ 0 \notin Players /\ Prize \notin Players /\ Prize # 0
      /\ \A i \in Piles : i = 0 \/ i = Prize \/ i \in Players
  BY WarAssumption DEF Piles, Players, Prize
<1>. QED  BY <1>1 DEF pile

\* A player puts the top k cards of the hand into the prize.
LEMMA FightsMoves ==
  ASSUME TypeOK, NEW p \in Players, NEW k \in 0..Len(cards[p]),
         prizeCards' = prizeCards \o DrawnFrom(cards[p], k),
         cards' = [cards EXCEPT ![p] = LeftAfter(@, k)],
         UNCHANGED gameDeck
  PROVE  Moves(p, Prize, k)
<1>1. /\ cards'[p] = LeftAfter(cards[p], k)
      /\ \A q \in Players \ {p} : cards'[q] = cards[q]
  BY DEF TypeOK
<1>. QED  BY <1>1, PileValues DEF Moves

\* A player takes the whole prize.
LEMMA TakesPrizeMoves ==
  ASSUME TypeOK, NEW p \in Players, TakesPrize(p), UNCHANGED gameDeck
  PROVE  Moves(Prize, p, Len(prizeCards))
<1>1. /\ cards'[p] = cards[p] \o prizeCards
      /\ \A q \in Players \ {p} : cards'[q] = cards[q]
      /\ prizeCards' = << >>
  BY DEF TypeOK, TakesPrize
<1>2. /\ DrawnFrom(prizeCards, Len(prizeCards)) = prizeCards
      /\ LeftAfter(prizeCards, Len(prizeCards)) = << >>
      /\ Len(prizeCards) \in 0..Len(prizeCards)
  BY DrawAll, LenProperties DEF TypeOK
<1>. QED  BY <1>1, <1>2, PileValues DEF Moves

LEMMA ConservationStep ==
  ASSUME TypeOK, TypeOK', PilesAtRest, NothingDuplicated(pile), [Next]_vars
  PROVE  Conserves
<1>. USE DEF game, round, flags
<1>1. ASSUME UNCHANGED <<gameDeck, cards, prizeCards>>
      PROVE  Conserves
  <2>1. pile' = pile
    BY <1>1 DEF pile
  <2>. QED  BY <2>1 DEF Conserves
<1>2. CASE StartGame \/ EndGame
  BY <1>1, <1>2 DEF StartGame, EndGame
<1>3. CASE StartRound
  BY <1>1, <1>3 DEF StartRound, PilesAtRest
<1>4. CASE DealSkips \/ DealReturns
  BY <1>1, <1>4 DEF DealSkips, DealReturns
<1>5. CASE DealCard
  <2>1. PICK p \in Players : p = turn
    BY <1>5 DEF DealCard, TypeOK
  <2>2. /\ cards'[p] = cards[p] \o DrawnFrom(gameDeck, 1)
        /\ \A q \in Players \ {p} : cards'[q] = cards[q]
        /\ gameDeck' = LeftAfter(gameDeck, 1)
        /\ prizeCards' = prizeCards
    BY <1>5, <2>1 DEF DealCard, TypeOK
  <2>3. 1 \in 0..Len(gameDeck)
    BY <1>5, EmptySeq DEF DealCard, TypeOK
  <2>4. Moves(0, p, 1)
    BY <2>2, <2>3, PileValues DEF Moves
  <2>. QED  BY <2>4, MovesConserve, PileValues
<1>6. CASE PlaceCard
  <2>1. PICK p \in Players : p = turn
    BY <1>6 DEF PlaceCard
  <2>2. 1 \in 0..Len(cards[p])
    BY <1>6, <2>1, EmptySeq DEF PlaceCard, TypeOK
  <2>3. Moves(p, Prize, 1)
    BY <1>6, <2>1, <2>2, FightsMoves DEF PlaceCard
  <2>. QED  BY <2>3, MovesConserve, PileValues
<1>7. CASE PlaceNothing \/ PlaceReturns
  BY <1>1, <1>7 DEF PlaceNothing, PlaceReturns
<1>8. CASE RoundWon \/ WarWon
  <2>1. PICK p \in Players : TakesPrize(p)
    BY <1>8 DEF RoundWon, WarWon
  <2>2. Moves(Prize, p, Len(prizeCards))
    BY <1>8, <2>1, TakesPrizeMoves DEF RoundWon, WarWon
  <2>. QED  BY <2>2, MovesConserve, PileValues
<1>9. CASE GoToWar \/ BeginWar \/ WarDrawsDone
  BY <1>1, <1>9 DEF GoToWar, BeginWar, WarDrawsDone
<1>10. CASE GotoWarDraws \/ GotoWarFails \/ LimitedWarDraws
  <2>1. PICK p \in Players : p = highCardHolders[turn]
    BY <1>10, LenProperties
       DEF GotoWarDraws, GotoWarFails, LimitedWarDraws, WarTurn, TypeOK
  <2>2. cards[p] \in Seq(Cards) /\ Len(cards[p]) \in Nat
    BY LenProperties DEF TypeOK
  <2>3. cards[p] # << >> => Len(cards[p]) # 0
    BY <2>2, EmptySeq
  <2>4. PICK k \in 0..Len(cards[p]) : Fights(p, k)
    <3>1. CASE GotoWarDraws
      BY <3>1, <2>1, <2>2 DEF GotoWarDraws, cardsNeededForWar
    <3>2. CASE GotoWarFails
      BY <3>2, <2>1, <2>2 DEF GotoWarFails
    <3>3. CASE LimitedWarDraws
      BY <3>3, <2>1, <2>2, <2>3 DEF LimitedWarDraws
    <3>. QED  BY <1>10, <3>1, <3>2, <3>3
  <2>5. UNCHANGED gameDeck
    BY <1>10 DEF GotoWarDraws, GotoWarFails, LimitedWarDraws
  <2>6. Moves(p, Prize, k)
    BY <2>4, <2>5, FightsMoves DEF Fights
  <2>. QED  BY <2>6, MovesConserve, PileValues
<1>11. CASE LimitedWarFails
  BY <1>1, <1>11 DEF LimitedWarFails
<1>12. CASE SettleDraw
  <2>1. CASE \E p \in Players : HighSuitHolders = {p}
    <3>1. PICK p \in Players : TakesPrize(p)
      BY <1>12, <2>1 DEF SettleDraw
    <3>2. Moves(Prize, p, Len(prizeCards))
      BY <1>12, <2>1, <3>1, TakesPrizeMoves DEF SettleDraw
    <3>. QED  BY <3>2, MovesConserve, PileValues
  <2>2. CASE ~ \E p \in Players : HighSuitHolders = {p}
    <3>1. /\ gameDeck = << >> /\ gameDeck' = prizeCards
          /\ prizeCards' = << >> /\ cards' = cards
      BY <1>12, <2>2 DEF SettleDraw, PilesAtRest
    <3>2. /\ DrawnFrom(prizeCards, Len(prizeCards)) = prizeCards
          /\ LeftAfter(prizeCards, Len(prizeCards)) = << >>
          /\ Len(prizeCards) \in 0..Len(prizeCards)
          /\ << >> \o prizeCards = prizeCards
      BY DrawAll, LenProperties, ConcatEmptySeq DEF TypeOK
    <3>3. Moves(Prize, 0, Len(prizeCards))
      BY <3>1, <3>2, PileValues DEF Moves
    <3>. QED  BY <3>3, MovesConserve, PileValues
  <2>. QED  BY <2>1, <2>2
<1>13. CASE UpdateGameStatus
  BY <1>1, <1>13 DEF UpdateGameStatus
<1>14. CASE UNCHANGED vars
  BY <1>1, <1>14 DEF vars
<1>. QED
  BY <1>2, <1>3, <1>4, <1>5, <1>6, <1>7, <1>8, <1>9, <1>10, <1>11, <1>12, <1>13,
     <1>14 DEF Next, Step

\* No card is lost and none duplicated, in a game with any number of players and
\* any deck, through every deal, round, war, draw and redeal.
THEOREM CardsConserved == Spec => []CardConservation
<1>1. Init => PilesAtRest /\ CardConservation
  <2>1. SUFFICES ASSUME Init PROVE PilesAtRest /\ CardConservation
    OBVIOUS
  <2>2. PilesAtRest
    BY <2>1 DEF Init, PilesAtRest
  <2>3. /\ gameDeck \in Seq(Cards)
        /\ \A i, j \in DOMAIN gameDeck : gameDeck[i] = gameDeck[j] => i = j
        /\ \A c \in Cards : \E i \in DOMAIN gameDeck : gameDeck[i] = c
    BY <2>1, CardsFinite, EnumerationProperties DEF Init
  <2>4. \A i \in Piles : i # 0 => pile[i] = << >>
    BY <2>1, PileValues DEF Init
  <2>5. NothingLost(pile)
    BY <2>3, PileValues DEF NothingLost
  <2>6. NothingDuplicated(pile)
    BY <2>3, <2>4, PileValues DEF NothingDuplicated
  <2>. QED  BY <2>2, <2>5, <2>6 DEF CardConservation
<1>2. TypeOK /\ TypeOK' /\ PilesAtRest /\ CardConservation /\ [Next]_vars
        => PilesAtRest' /\ CardConservation'
  <2>1. SUFFICES ASSUME TypeOK, TypeOK', PilesAtRest, CardConservation, [Next]_vars
                 PROVE  PilesAtRest' /\ CardConservation'
    OBVIOUS
  <2>2. Conserves
    BY <2>1, ConservationStep DEF CardConservation
  <2>3. NothingLost(pile') /\ NothingDuplicated(pile')
    BY <2>1, <2>2 DEF Conserves, CardConservation, NothingLost, InSome
  <2>. QED  BY <2>1, <2>3, PilesAtRestStep DEF CardConservation, NothingLost, NothingDuplicated
<1>. QED  BY <1>1, <1>2, TypeCorrect, PTL DEF Spec

-------------------------------------------------------------------------------
(* Elimination and the end of the game *)

LEMMA EliminatedStep ==
  ASSUME TypeOK, EliminatedHoldNothing, [Next]_vars
  PROVE  EliminatedHoldNothing'
<1>. USE DEF EliminatedHoldNothing, game, round, flags
<1>2. CASE StartGame \/ StartRound \/ EndGame
  BY <1>2 DEF StartGame, StartRound, EndGame
<1>3. CASE DealSkips \/ DealReturns
  BY <1>3 DEF DealSkips, DealReturns
<1>4. CASE DealCard
  BY <1>4 DEF DealCard, TypeOK
<1>5. CASE PlaceCard
  BY <1>5 DEF PlaceCard, TypeOK
<1>6. CASE PlaceNothing
  BY <1>6 DEF PlaceNothing, TypeOK
<1>7. CASE PlaceReturns
  BY <1>7 DEF PlaceReturns
<1>8. CASE RoundWon
  <2>1. PICK p \in Players : HighCardHolders = {p} /\ TakesPrize(p)
    BY <1>8 DEF RoundWon
  <2>2. ~eliminated[p]
    BY <2>1 DEF HighCardHolders, Contenders
  <2>. QED  BY <1>8, <2>1, <2>2 DEF RoundWon, TakesPrize, TypeOK
<1>9. CASE WarWon
  <2>1. PICK p \in Players :
          /\ HighCardHolders = {p}
          /\ TakesPrize(p)
          /\ eliminated' = IF enoughCards THEN eliminated
                                          ELSE [eliminated EXCEPT ![p] = FALSE]
    BY <1>9 DEF WarWon
  <2>2. ~eliminated[p]
    BY <2>1 DEF HighCardHolders, Contenders
  <2>. QED  BY <2>1, <2>2 DEF TakesPrize, TypeOK
<1>10. CASE GoToWar \/ BeginWar \/ WarDrawsDone
  BY <1>10 DEF GoToWar, BeginWar, WarDrawsDone
<1>a. ASSUME turn \in DOMAIN highCardHolders
      PROVE  highCardHolders[turn] \in Players
  BY <1>a, LenProperties DEF TypeOK
<1>b. ASSUME NEW w \in Players, cards[w] = << >>, NEW k \in Nat
      PROVE  LeftAfter(cards[w], k) = << >>
  BY <1>b, SubSeqEmpty DEF LeftAfter
<1>11. CASE GotoWarDraws
  <2>1. PICK w \in Players : w = highCardHolders[turn]
    BY <1>11, <1>a DEF GotoWarDraws, WarTurn
  <2>2. eliminated' = eliminated /\ cards' = [cards EXCEPT ![w] = LeftAfter(@, 2)]
    BY <1>11, <2>1 DEF GotoWarDraws, Fights, cardsNeededForWar
  <2>. QED  BY <2>2, <1>b DEF TypeOK
<1>12. CASE GotoWarFails
  <2>1. PICK w \in Players : w = highCardHolders[turn]
    BY <1>12, <1>a DEF GotoWarFails, WarTurn
  <2>2. /\ eliminated' = [eliminated EXCEPT ![w] = TRUE]
        /\ cards' = [cards EXCEPT ![w] = LeftAfter(@, Len(cards[w]))]
    BY <1>12, <2>1 DEF GotoWarFails, Fights
  <2>3. LeftAfter(cards[w], Len(cards[w])) = << >>
    BY DrawAll DEF TypeOK
  <2>. QED  BY <2>2, <2>3 DEF TypeOK
<1>13. CASE LimitedWarDraws
  <2>1. PICK w \in Players : w = highCardHolders[turn]
    BY <1>13, <1>a DEF LimitedWarDraws, WarTurn
  <2>2. eliminated' = eliminated /\ cards' = [cards EXCEPT ![w] = LeftAfter(@, 1)]
    BY <1>13, <2>1 DEF LimitedWarDraws, Fights
  <2>. QED  BY <2>2, <1>b DEF TypeOK
<1>14. CASE LimitedWarFails
  <2>1. PICK w \in Players : w = highCardHolders[turn]
    BY <1>14, <1>a DEF LimitedWarFails, WarTurn
  <2>. QED  BY <1>14, <2>1 DEF LimitedWarFails, TypeOK
<1>15. CASE SettleDraw
  BY <1>15 DEF SettleDraw, TakesPrize, TypeOK
<1>16. CASE UpdateGameStatus
  BY <1>16 DEF UpdateGameStatus
<1>17. CASE UNCHANGED vars
  BY <1>17 DEF vars
<1>. QED
  BY <1>2, <1>3, <1>4, <1>5, <1>6, <1>7, <1>8, <1>9, <1>10, <1>11, <1>12,
     <1>13, <1>14, <1>15, <1>16, <1>17 DEF Next, Step

\* An elimination never strands a card: a player is eliminated only with an
\* empty hand, and no deal and no prize reaches an eliminated player.
THEOREM EliminatedAreEmptyHanded == Spec => []EliminatedHoldNothing
<1>. USE DEF EliminatedHoldNothing, game, round, flags
<1>1. Init => EliminatedHoldNothing
  BY DEF Init
<1>2. TypeOK /\ EliminatedHoldNothing /\ [Next]_vars => EliminatedHoldNothing'
  BY EliminatedStep
<1>. QED  BY <1>1, <1>2, TypeCorrect, PTL DEF Spec

\* Once the game is over it stays as it is: a further call of startGame finds
\* nothing to deal and plays no round.
GameoverAtRest ==
  gameover => /\ pc \in {"startGame", "idle", "dealCards"}
              /\ pc = "dealCards" => caller = "startGame"
              /\ gameDeck = << >>
              /\ \E p \in Players : NotEliminated = {p}

LEMMA GameoverStep ==
  ASSUME TypeOK, PilesAtRest, GameoverAtRest, [Next]_vars
  PROVE  GameoverAtRest'
<1>. USE DEF GameoverAtRest, game, round, flags
<1>1. ASSUME eliminated' = eliminated
      PROVE  NotEliminated' = NotEliminated
  BY <1>1 DEF NotEliminated
<1>2. CASE StartGame
  BY <1>1, <1>2 DEF StartGame
<1>3. CASE StartRound \/ EndGame
  BY <1>1, <1>3 DEF StartRound, EndGame
<1>4. CASE DealSkips \/ DealCard
  BY <1>1, <1>4 DEF DealSkips, DealCard
<1>5. CASE DealReturns
  BY <1>1, <1>5 DEF DealReturns
<1>6. CASE PlaceCard \/ PlaceNothing \/ PlaceReturns
  BY <1>6 DEF PlaceCard, PlaceNothing, PlaceReturns
<1>7. CASE RoundWon \/ WarWon \/ GoToWar
  BY <1>7 DEF RoundWon, WarWon, GoToWar
<1>8. CASE BeginWar \/ GotoWarDraws \/ GotoWarFails
  BY <1>8 DEF BeginWar, GotoWarDraws, GotoWarFails, WarTurn
<1>9. CASE LimitedWarDraws \/ LimitedWarFails \/ WarDrawsDone
  BY <1>9 DEF LimitedWarDraws, LimitedWarFails, WarTurn, WarDrawsDone
<1>10. CASE SettleDraw
  BY <1>10 DEF SettleDraw
<1>11. CASE UpdateGameStatus
  <2>1. NotEliminated' = NotEliminated /\ pc' = "startGame" /\ gameDeck' = << >>
    BY <1>1, <1>11 DEF UpdateGameStatus, PilesAtRest
  <2>2. ~gameover
    BY <1>11 DEF UpdateGameStatus
  <2>3. IsFiniteSet(NotEliminated)
    BY PlayersFinite, FS_Subset DEF NotEliminated
  <2>4. gameover' => Cardinality(NotEliminated) = 1
    <3>. DEFINE n == Cardinality(NotEliminated)
    <3>1. gameover' = (gameover \/ (n <= 1 /\ n \in {1, NumPlayers}))
      BY <1>11 DEF UpdateGameStatus
    <3>. HIDE DEF n
    <3>2. gameover' => n <= 1 /\ n \in {1, NumPlayers}
      BY <3>1, <2>2, Zenon
    <3>3. n <= 1 /\ n \in {1, NumPlayers} => n = 1
      BY WarAssumption
    <3>. QED  BY <3>2, <3>3 DEF n
  <2>5. gameover' => \E p \in Players : NotEliminated = {p}
    <3>1. gameover' => \E p : NotEliminated = {p}
      BY <2>3, <2>4, FS_Singleton
    <3>. QED  BY <3>1 DEF NotEliminated
  <2>. QED  BY <2>1, <2>5
<1>12. CASE UNCHANGED vars
  BY <1>1, <1>12 DEF vars
<1>. QED
  BY <1>2, <1>3, <1>4, <1>5, <1>6, <1>7, <1>8, <1>9, <1>10, <1>11, <1>12
     DEF Next, Step

\* When the game is over, the one player who is left holds the whole deck: the
\* goal of the game was reached, also if the last round was a draw.
THEOREM SurvivorHoldsAll == Spec => []SoleSurvivor
<1>1. Init => GameoverAtRest
  BY DEF Init, GameoverAtRest
<1>2. TypeOK /\ PilesAtRest /\ GameoverAtRest /\ [Next]_vars => GameoverAtRest'
  BY GameoverStep
<1>3. Init => PilesAtRest
  BY DEF Init, PilesAtRest
<1>4. TypeOK /\ PilesAtRest /\ [Next]_vars => PilesAtRest'
  BY PilesAtRestStep
<1>5. TypeOK /\ PilesAtRest /\ GameoverAtRest /\ CardConservation
        /\ EliminatedHoldNothing => SoleSurvivor
  <2>1. SUFFICES ASSUME TypeOK, PilesAtRest, GameoverAtRest, CardConservation,
                        EliminatedHoldNothing, gameover
                 PROVE  SoleSurvivor
    BY DEF SoleSurvivor
  <2>2. PICK p \in Players : NotEliminated = {p}
    BY <2>1 DEF GameoverAtRest
  <2>3. \A i \in Piles : i # p => pile[i] = << >>
    <3>1. gameDeck = << >> /\ prizeCards = << >>
      BY <2>1 DEF GameoverAtRest, PilesAtRest
    <3>2. \A q \in Players : q # p => cards[q] = << >>
      BY <2>1, <2>2 DEF NotEliminated, EliminatedHoldNothing
    <3>. QED  BY <3>1, <3>2, PileValues
  <2>4. \A c \in Cards : \E j \in DOMAIN cards[p] : cards[p][j] = c
    BY <2>1, <2>3, PileValues DEF CardConservation, NothingLost
  <2>5. \A j \in DOMAIN cards[p] : cards[p][j] \in Cards
    BY <2>1, LenProperties DEF TypeOK
  <2>6. ToSet(cards[p]) = Cards
    BY <2>4, <2>5 DEF ToSet
  <2>. QED  BY <2>2, <2>6 DEF SoleSurvivor
<1>. QED
  BY <1>1, <1>2, <1>3, <1>4, <1>5, TypeCorrect, CardsConserved,
     EliminatedAreEmptyHanded, PTL DEF Spec

-------------------------------------------------------------------------------
(* Comparing cards never stops the program *)

\* While cards are placed, exactly the players passed so far who are still in
\* the game have an entry, and there is no prize without one.
PlacingInv ==
  pc \in {"placeCards", "compareRound"} =>
    /\ \A p \in Players : p \in DOMAIN roundCards <=> p < turn /\ ~eliminated[p]
    /\ \A p \in DOMAIN roundCards : roundCards[p] # << >>
    /\ prizeCards # << >> => DOMAIN roundCards # {}
    /\ pc = "compareRound" => turn \notin Players

\* In a war every player fights once, and those still to come are in the game.
FightersInv ==
  pc \in {"war", "gotoWar", "limitedWar"} =>
    /\ \A i, j \in DOMAIN highCardHolders :
         highCardHolders[i] = highCardHolders[j] => i = j
    /\ \A i \in DOMAIN highCardHolders :
         pc = "war" \/ i >= turn => ~eliminated[highCardHolders[i]]

\* After a successful draw some player who is done is in the game with an entry.
EntriesInv ==
  pc \in {"gotoWar", "limitedWar", "compareWar"} =>
    /\ \A p \in DOMAIN roundCards : ~eliminated[p] => roundCards[p] # << >>
    /\ ~noSuccessfulDraws \/ pc = "compareWar" =>
         \E p \in DOMAIN roundCards :
           /\ ~eliminated[p]
           /\ pc = "compareWar"
                \/ \A i \in DOMAIN highCardHolders :
                     i >= turn => highCardHolders[i] # p

RoundInv == pc # "trap" /\ PlacingInv /\ FightersInv /\ EntriesInv

\* With a card in the deck, somebody in the game has placed one when the cards
\* are compared.
LEMMA ContendersExist ==
  ASSUME TypeOK, PilesAtRest, CardConservation, EliminatedHoldNothing, RoundInv,
         NumSubDecks > 0, pc \in {"compareRound", "compareWar"}
  PROVE  Contenders # {}
<1>1. CASE pc = "compareWar"
  BY <1>1 DEF RoundInv, EntriesInv, Contenders
<1>2. CASE pc = "compareRound"
  <2>1. /\ \A p \in Players : p \in DOMAIN roundCards <=> p < turn /\ ~eliminated[p]
        /\ prizeCards # << >> => DOMAIN roundCards # {}
        /\ turn \notin Players
    BY <1>2 DEF RoundInv, PlacingInv
  <2>2. [suit |-> 1, rank |-> 2, copy |-> 1] \in Cards
    <3>1. 1 \in Suits /\ 2 \in Ranks /\ 1 \in 1..NumSubDecks
      BY CardAssumption, WarAssumption DEF Suits, Ranks
    <3>. QED  BY <3>1 DEF Cards, CardsOf
  <2>3. PICK i \in Piles : \E j \in DOMAIN pile[i] : TRUE
    BY <2>2 DEF CardConservation, NothingLost
  <2>4. pile[i] # << >>
    BY <2>3
  <2>5. CASE i = 0
    BY <1>2, <2>4, <2>5, PileValues DEF PilesAtRest
  <2>6. CASE i = Prize
    BY <2>1, <2>4, <2>6, PileValues DEF Contenders, TypeOK
  <2>7. CASE i \in Players
    <3>1. ~eliminated[i]
      BY <2>4, <2>7, PileValues DEF EliminatedHoldNothing
    <3>2. \A p \in Players : p < turn
      BY <2>1, WarAssumption DEF TypeOK, Players
    <3>. QED  BY <2>1, <2>7, <3>1, <3>2 DEF Contenders
  <2>. QED  BY <2>5, <2>6, <2>7, PileValues
<1>. QED  BY <1>1, <1>2

\* A player's turn in a war preserves the invariants about fighters and entries:
\* either the player draws and stays, or is eliminated.
LEMMA FightStep ==
  ASSUME TypeOK, RoundInv, pc \in {"gotoWar", "limitedWar"}, pc' = pc,
         turn \in DOMAIN highCardHolders, turn' = turn + 1,
         highCardHolders' = highCardHolders,
         NEW w \in Players, w = highCardHolders[turn],
         \/ /\ eliminated' = eliminated
            /\ w \in DOMAIN roundCards' /\ roundCards'[w] # << >>
         \/ /\ eliminated' = [eliminated EXCEPT ![w] = TRUE]
            /\ noSuccessfulDraws' = noSuccessfulDraws,
         \A p \in DOMAIN roundCards : p \in DOMAIN roundCards',
         \A p \in DOMAIN roundCards' :
           p # w => p \in DOMAIN roundCards /\ roundCards'[p] = roundCards[p],
         DOMAIN roundCards' \subseteq Players
  PROVE  RoundInv'
<1>1. /\ \A i, j \in DOMAIN highCardHolders :
           highCardHolders[i] = highCardHolders[j] => i = j
      /\ \A i \in DOMAIN highCardHolders :
           i >= turn => ~eliminated[highCardHolders[i]]
  BY DEF RoundInv, FightersInv
<1>2. turn \in Nat /\ DOMAIN highCardHolders \subseteq Nat
      /\ \A i \in DOMAIN highCardHolders : highCardHolders[i] \in Players
  BY LenProperties DEF TypeOK
<1>3. ~eliminated[w]
  BY <1>1, <1>2
<1>4. \A i \in DOMAIN highCardHolders :
        i >= turn + 1 => i >= turn /\ highCardHolders[i] # w
  BY <1>1, <1>2
<1>5. FightersInv'
  BY <1>1, <1>2, <1>4 DEF FightersInv, TypeOK
<1>6. \A p \in DOMAIN roundCards' : ~eliminated'[p] => roundCards'[p] # << >>
  BY DEF RoundInv, EntriesInv, TypeOK
<1>7. ~noSuccessfulDraws' =>
        \E p \in DOMAIN roundCards' :
          /\ ~eliminated'[p]
          /\ \A i \in DOMAIN highCardHolders' : i >= turn' => highCardHolders'[i] # p
  <2>1. CASE eliminated' = eliminated /\ w \in DOMAIN roundCards'
    BY <2>1, <1>3, <1>4
  <2>2. CASE /\ eliminated' = [eliminated EXCEPT ![w] = TRUE]
             /\ noSuccessfulDraws' = noSuccessfulDraws
    <3>1. SUFFICES ASSUME ~noSuccessfulDraws'
                   PROVE  \E p \in DOMAIN roundCards' :
                            /\ ~eliminated'[p]
                            /\ \A i \in DOMAIN highCardHolders' :
                                 i >= turn' => highCardHolders'[i] # p
      OBVIOUS
    <3>2. PICK p \in DOMAIN roundCards :
            /\ ~eliminated[p]
            /\ \A i \in DOMAIN highCardHolders : i >= turn => highCardHolders[i] # p
      BY <2>2, <3>1 DEF RoundInv, EntriesInv
    <3>3. p # w
      BY <3>2, <1>2
    <3>. QED  BY <2>2, <3>2, <3>3, <1>4 DEF TypeOK
  <2>. QED  BY <2>1, <2>2
<1>8. EntriesInv'
  BY <1>6, <1>7 DEF EntriesInv
<1>. QED  BY <1>5, <1>8 DEF RoundInv, PlacingInv

\* Every step of the game preserves the invariants about placed cards.
LEMMA RoundStep ==
  ASSUME TypeOK, TypeOK', PilesAtRest, CardConservation, EliminatedHoldNothing,
         RoundInv, NumSubDecks > 0, [Next]_vars
  PROVE  RoundInv'
<1>. USE DEF game, round, flags
<1>a. pc # "trap"
  BY DEF RoundInv
<1>1. CASE StartGame \/ EndGame
  BY <1>1 DEF StartGame, EndGame, RoundInv, PlacingInv, FightersInv, EntriesInv
<1>2. CASE StartRound
  <2>1. /\ pc' = "placeCards" /\ turn' = 1 /\ DOMAIN roundCards' = {}
        /\ prizeCards' = << >>
    BY <1>2 DEF StartRound, NoEntries
  <2>2. \A p \in Players : ~(p < 1)
    BY DEF Players
  <2>. QED  BY <2>1, <2>2 DEF RoundInv, PlacingInv, FightersInv, EntriesInv
<1>3. CASE DealSkips \/ DealCard
  BY <1>3 DEF DealSkips, DealCard, RoundInv, PlacingInv, FightersInv, EntriesInv
<1>4. CASE DealReturns
  BY <1>4 DEF DealReturns, TypeOK, RoundInv, PlacingInv, FightersInv, EntriesInv
<1>5. CASE PlaceCard
  <2>. DEFINE hand == cards[turn]
  <2>1. /\ pc = "placeCards" /\ pc' = "placeCards" /\ turn \in Players
        /\ turn' = turn + 1 /\ ~eliminated[turn] /\ eliminated' = eliminated
        /\ hand # << >> /\ roundCards' = Put(roundCards, turn, DrawnFrom(hand, 1))
    BY <1>5 DEF PlaceCard
  <2>2. DrawnFrom(hand, 1) # << >>
    <3>1. hand \in Seq(Cards) /\ Len(hand) \in Nat \ {0}
      BY <2>1, EmptySeq DEF TypeOK
    <3>. HIDE DEF hand
    <3>2. 1 \in 0..Len(hand)
      BY <3>1
    <3>3. Len(DrawnFrom(hand, 1)) = 1
      BY <3>1, <3>2, DrawProperties
    <3>. QED  BY <3>3, EmptySeq
  <2>. HIDE DEF hand
  <2>3. /\ DOMAIN roundCards' = DOMAIN roundCards \cup {turn}
        /\ roundCards'[turn] = DrawnFrom(hand, 1)
        /\ \A p \in DOMAIN roundCards : p # turn => roundCards'[p] = roundCards[p]
    BY <2>1 DEF Put
  <2>4. \A p \in Players : p < turn + 1 <=> p < turn \/ p = turn
    BY <2>1 DEF Players
  <2>5. \A p \in Players :
          p \in DOMAIN roundCards' <=> p < turn' /\ ~eliminated'[p]
    BY <2>1, <2>3, <2>4 DEF RoundInv, PlacingInv
  <2>6. \A p \in DOMAIN roundCards' : roundCards'[p] # << >>
    BY <2>1, <2>2, <2>3 DEF RoundInv, PlacingInv
  <2>. QED  BY <2>1, <2>3, <2>5, <2>6 DEF RoundInv, PlacingInv, FightersInv, EntriesInv
<1>6. CASE PlaceNothing
  <2>1. /\ pc = "placeCards" /\ pc' = "placeCards" /\ turn \in Players
        /\ turn' = turn + 1 /\ eliminated' = [eliminated EXCEPT ![turn] = TRUE]
        /\ roundCards' = roundCards /\ prizeCards' = prizeCards
    BY <1>6 DEF PlaceNothing
  <2>2. \A p \in Players : p < turn + 1 <=> p < turn \/ p = turn
    BY <2>1 DEF Players
  <2>3. ~(turn < turn)
    BY <2>1 DEF Players
  <2>4. \A p \in Players :
          p \in DOMAIN roundCards' <=> p < turn' /\ ~eliminated'[p]
    BY <2>1, <2>2, <2>3 DEF RoundInv, PlacingInv, TypeOK
  <2>. QED  BY <2>1, <2>4 DEF RoundInv, PlacingInv, FightersInv, EntriesInv
<1>7. CASE PlaceReturns
  BY <1>7 DEF PlaceReturns, RoundInv, PlacingInv, FightersInv, EntriesInv
<1>8. CASE RoundWon \/ WarWon
  BY <1>8 DEF RoundWon, WarWon, RoundInv, PlacingInv, FightersInv, EntriesInv
<1>9. CASE GoToWar
  <2>1. /\ pc' = "war" /\ eliminated' = eliminated
        /\ highCardHolders' \in SetToSeqs(HighCardHolders)
    BY <1>9, ContendersExist DEF GoToWar
  <2>2. HighCardHolders \subseteq Players /\ \A p \in HighCardHolders : ~eliminated[p]
    BY DEF HighCardHolders, Contenders, TypeOK
  <2>3. IsFiniteSet(HighCardHolders)
    BY <2>2, PlayersFinite, FS_Subset
  <2>4. /\ highCardHolders' \in Seq(HighCardHolders)
        /\ \A i, j \in DOMAIN highCardHolders' :
             highCardHolders'[i] = highCardHolders'[j] => i = j
    BY <2>1, <2>3, EnumerationProperties
  <2>5. \A i \in DOMAIN highCardHolders' : highCardHolders'[i] \in HighCardHolders
    BY <2>4, LenProperties
  <2>. QED
    BY <2>1, <2>2, <2>4, <2>5 DEF RoundInv, PlacingInv, FightersInv, EntriesInv
<1>10. CASE BeginWar
  <2>1. /\ pc = "war" /\ pc' \in {"gotoWar", "limitedWar"}
        /\ eliminated' = eliminated /\ highCardHolders' = highCardHolders
        /\ DOMAIN roundCards' = {} /\ noSuccessfulDraws' = TRUE
    BY <1>10 DEF BeginWar, NoEntries
  <2>2. FightersInv'
    BY <2>1 DEF RoundInv, FightersInv
  <2>. QED  BY <2>1, <2>2 DEF RoundInv, PlacingInv, EntriesInv
<1>b. ASSUME turn \in DOMAIN highCardHolders
      PROVE  highCardHolders[turn] \in Players
  BY <1>b, LenProperties DEF TypeOK
<1>c. ASSUME NEW w \in Players, NEW k \in 0..Len(cards[w]), Fights(w, k)
      PROVE  /\ w \in DOMAIN roundCards'
             /\ \A p \in DOMAIN roundCards : p \in DOMAIN roundCards'
             /\ \A p \in DOMAIN roundCards' :
                  p # w => p \in DOMAIN roundCards /\ roundCards'[p] = roundCards[p]
             /\ k > 0 => roundCards'[w] # << >>
  <2>. DEFINE hand == cards[w]
  <2>1. roundCards' = Put(roundCards, w, DrawnFrom(hand, k))
    BY <1>c DEF Fights
  <2>2. k > 0 => DrawnFrom(hand, k) # << >>
    <3>1. hand \in Seq(Cards) /\ k \in 0..Len(hand)
      BY DEF TypeOK
    <3>. HIDE DEF hand
    <3>2. Len(DrawnFrom(hand, k)) = k
      BY <3>1, DrawProperties
    <3>. QED  BY <3>1, <3>2, EmptySeq
  <2>. HIDE DEF hand
  <2>. QED  BY <2>1, <2>2 DEF Put
<1>d. DOMAIN roundCards' \subseteq Players
  BY DEF TypeOK
<1>11. CASE GotoWarDraws
  <2>1. PICK w \in Players : w = highCardHolders[turn]
    BY <1>11, <1>b DEF GotoWarDraws, WarTurn
  <2>2. /\ Fights(w, 2) /\ Len(cards[w]) >= 2 /\ eliminated' = eliminated
        /\ pc \in {"gotoWar", "limitedWar"} /\ pc' = pc
        /\ turn \in DOMAIN highCardHolders /\ turn' = turn + 1
        /\ highCardHolders' = highCardHolders
    BY <1>11, <2>1 DEF GotoWarDraws, WarTurn, cardsNeededForWar
  <2>3. 2 \in 0..Len(cards[w])
    BY <2>2, LenProperties DEF TypeOK
  <2>4. /\ w \in DOMAIN roundCards' /\ roundCards'[w] # << >>
        /\ \A p \in DOMAIN roundCards : p \in DOMAIN roundCards'
        /\ \A p \in DOMAIN roundCards' :
             p # w => p \in DOMAIN roundCards /\ roundCards'[p] = roundCards[p]
    BY <1>c, <2>2, <2>3
  <2>. QED  BY <1>d, <2>1, <2>2, <2>4, FightStep
<1>12. CASE GotoWarFails
  <2>1. PICK w \in Players : w = highCardHolders[turn]
    BY <1>12, <1>b DEF GotoWarFails, WarTurn
  <2>2. /\ Fights(w, Len(cards[w])) /\ eliminated' = [eliminated EXCEPT ![w] = TRUE]
        /\ pc \in {"gotoWar", "limitedWar"} /\ pc' = pc
        /\ turn \in DOMAIN highCardHolders /\ turn' = turn + 1
        /\ highCardHolders' = highCardHolders
        /\ noSuccessfulDraws' = noSuccessfulDraws
    BY <1>12, <2>1 DEF GotoWarFails, WarTurn
  <2>3. Len(cards[w]) \in 0..Len(cards[w])
    BY LenProperties DEF TypeOK
  <2>4. /\ \A p \in DOMAIN roundCards : p \in DOMAIN roundCards'
        /\ \A p \in DOMAIN roundCards' :
             p # w => p \in DOMAIN roundCards /\ roundCards'[p] = roundCards[p]
    BY <1>c, <2>2, <2>3
  <2>. QED  BY <1>d, <2>1, <2>2, <2>4, FightStep
<1>13. CASE LimitedWarDraws
  <2>1. PICK w \in Players : w = highCardHolders[turn]
    BY <1>13, <1>b DEF LimitedWarDraws, WarTurn
  <2>2. /\ Fights(w, 1) /\ cards[w] # << >> /\ eliminated' = eliminated
        /\ pc \in {"gotoWar", "limitedWar"} /\ pc' = pc
        /\ turn \in DOMAIN highCardHolders /\ turn' = turn + 1
        /\ highCardHolders' = highCardHolders
    BY <1>13, <2>1 DEF LimitedWarDraws, WarTurn
  <2>3. 1 \in 0..Len(cards[w])
    BY <2>2, LenProperties, EmptySeq DEF TypeOK
  <2>4. /\ w \in DOMAIN roundCards' /\ roundCards'[w] # << >>
        /\ \A p \in DOMAIN roundCards : p \in DOMAIN roundCards'
        /\ \A p \in DOMAIN roundCards' :
             p # w => p \in DOMAIN roundCards /\ roundCards'[p] = roundCards[p]
    BY <1>c, <2>2, <2>3
  <2>. QED  BY <1>d, <2>1, <2>2, <2>4, FightStep
<1>14. CASE LimitedWarFails
  <2>1. PICK w \in Players : w = highCardHolders[turn]
    BY <1>14, <1>b DEF LimitedWarFails, WarTurn
  <2>2. /\ eliminated' = [eliminated EXCEPT ![w] = TRUE]
        /\ pc \in {"gotoWar", "limitedWar"} /\ pc' = pc
        /\ turn \in DOMAIN highCardHolders /\ turn' = turn + 1
        /\ highCardHolders' = highCardHolders /\ roundCards' = roundCards
        /\ noSuccessfulDraws' = noSuccessfulDraws
    BY <1>14, <2>1 DEF LimitedWarFails, WarTurn
  <2>. QED  BY <1>d, <2>1, <2>2, FightStep
<1>15. CASE WarDrawsDone
  <2>1. /\ pc \in {"gotoWar", "limitedWar"}
        /\ pc' = IF noSuccessfulDraws THEN "draw" ELSE "compareWar"
        /\ eliminated' = eliminated /\ roundCards' = roundCards
    BY <1>15 DEF WarDrawsDone
  <2>2. CASE noSuccessfulDraws
    BY <2>1, <2>2 DEF RoundInv, PlacingInv, FightersInv, EntriesInv
  <2>3. CASE ~noSuccessfulDraws
    <3>1. pc' = "compareWar"
      BY <2>1, <2>3
    <3>2. /\ \A p \in DOMAIN roundCards : ~eliminated[p] => roundCards[p] # << >>
          /\ \E p \in DOMAIN roundCards : ~eliminated[p]
      BY <2>1, <2>3 DEF RoundInv, EntriesInv
    <3>. QED  BY <2>1, <3>1, <3>2 DEF RoundInv, PlacingInv, FightersInv, EntriesInv
  <2>. QED  BY <2>2, <2>3
<1>16. CASE SettleDraw
  BY <1>16 DEF SettleDraw, RoundInv, PlacingInv, FightersInv, EntriesInv
<1>17. CASE UpdateGameStatus
  BY <1>17 DEF UpdateGameStatus, RoundInv, PlacingInv, FightersInv, EntriesInv
<1>18. CASE UNCHANGED vars
  BY <1>18 DEF vars, RoundInv, PlacingInv, FightersInv, EntriesInv
<1>. QED
  BY <1>1, <1>2, <1>3, <1>4, <1>5, <1>6, <1>7, <1>8, <1>9, <1>10, <1>11, <1>12,
     <1>13, <1>14, <1>15, <1>16, <1>17, <1>18 DEF Next, Step

\* With at least one sub-deck, comparing the placed cards never stops the
\* program: determineHighCardHolders is only called with a contender who has
\* placed a card, in rounds and in wars of any depth.
THEOREM NeverTraps ==
  ASSUME NumSubDecks > 0
  PROVE  Spec => []NoTrap
<1>1. Init => PilesAtRest /\ RoundInv
  BY DEF Init, PilesAtRest, RoundInv, PlacingInv, FightersInv, EntriesInv
<1>2. TypeOK /\ PilesAtRest /\ [Next]_vars => PilesAtRest'
  BY PilesAtRestStep
<1>3. TypeOK /\ TypeOK' /\ PilesAtRest /\ CardConservation
        /\ EliminatedHoldNothing /\ RoundInv /\ [Next]_vars => RoundInv'
  BY RoundStep
<1>4. RoundInv => NoTrap
  BY DEF RoundInv, PlacingInv, EntriesInv, NoTrap, Contenders
<1>. QED
  BY <1>1, <1>2, <1>3, <1>4, TypeCorrect, CardsConserved,
     EliminatedAreEmptyHanded, PTL DEF Spec

-------------------------------------------------------------------------------
(* A draw is a tie *)

\* The last played card of p is the last one in the entry of p, and lies in the prize.
ShowsLast(p) ==
  /\ roundCards[p] # << >>
  /\ lastPlayedCard[p] = roundCards[p][Len(roundCards[p])]
  /\ lastPlayedCard[p] \in ToSet(prizeCards)

\* Whoever is still in the game and has an entry shows its last card.
EntriesShowLast ==
  pc \in {"placeCards", "compareRound", "gotoWar", "limitedWar", "compareWar"} =>
    \A p \in DOMAIN roundCards : ~eliminated[p] => ShowsLast(p)

\* The players of a war tie, until one of them draws another card.
Tied ==
  pc \in {"war", "draw"} \/ (pc = "limitedWar" /\ noSuccessfulDraws) =>
    \A p \in ToSet(highCardHolders) :
      /\ lastPlayedCard[p] \in ToSet(prizeCards)
      /\ \A q \in ToSet(highCardHolders) :
           lastPlayedCard[q].rank = lastPlayedCard[p].rank

\* Who was asked for cards and had none is out, as long as nobody had any.
FailedAreOut ==
  /\ pc \in {"gotoWar", "limitedWar"} /\ noSuccessfulDraws =>
       \A i \in DOMAIN highCardHolders : i < turn => eliminated[highCardHolders[i]]
  /\ pc = "draw" => \A p \in ToSet(highCardHolders) : eliminated[p]

\* A full war has a player with the cards for it, so that it never ends in a draw.
SomebodyCanFight ==
  pc = "gotoWar" /\ noSuccessfulDraws =>
    \E i \in DOMAIN highCardHolders :
      i >= turn /\ Len(cards[highCardHolders[i]]) >= cardsNeededForWar

TieInv == EntriesShowLast /\ Tied /\ FailedAreOut /\ SomebodyCanFight

\* Cards that are added to the prize are in it, and those that were there stay.
LEMMA PrizeGrows ==
  ASSUME NEW s \in Seq(Cards), NEW t \in Seq(Cards)
  PROVE  /\ ToSet(s) \subseteq ToSet(s \o t) /\ ToSet(t) \subseteq ToSet(s \o t)
         /\ ToSet(s \o t) = ToSet(s) \cup ToSet(t)
<1>1. /\ Len(s) \in Nat /\ DOMAIN s = 1..Len(s)
      /\ Len(t) \in Nat /\ DOMAIN t = 1..Len(t)
      /\ DOMAIN (s \o t) = 1..(Len(s) + Len(t))
      /\ \A i \in 1..(Len(s) + Len(t)) :
           (s \o t)[i] = IF i <= Len(s) THEN s[i] ELSE t[i - Len(s)]
  BY LenProperties, ConcatProperties
<1>2. \A i \in 1..Len(s) : i \in DOMAIN (s \o t) /\ (s \o t)[i] = s[i]
  BY <1>1
<1>3. \A i \in 1..Len(t) : Len(s) + i \in DOMAIN (s \o t) /\ (s \o t)[Len(s) + i] = t[i]
  BY <1>1
<1>4. \A i \in DOMAIN (s \o t) : (s \o t)[i] \in ToSet(s) \cup ToSet(t)
  <2>1. SUFFICES ASSUME NEW i \in DOMAIN (s \o t)
                 PROVE  (s \o t)[i] \in ToSet(s) \cup ToSet(t)
    OBVIOUS
  <2>2. CASE i <= Len(s)
    BY <1>1, <2>1, <2>2 DEF ToSet
  <2>3. CASE ~(i <= Len(s))
    <3>1. i - Len(s) \in DOMAIN t /\ (s \o t)[i] = t[i - Len(s)]
      BY <1>1, <2>1, <2>3
    <3>. QED  BY <3>1 DEF ToSet
  <2>. QED  BY <2>2, <2>3
<1>5. ToSet(s) \subseteq ToSet(s \o t)
  <2>1. \A i \in DOMAIN s : \E j \in DOMAIN (s \o t) : (s \o t)[j] = s[i]
    BY <1>1, <1>2
  <2>. QED  BY <2>1, Zenon DEF ToSet
<1>6. ToSet(t) \subseteq ToSet(s \o t)
  <2>1. \A i \in DOMAIN t : \E j \in DOMAIN (s \o t) : (s \o t)[j] = t[i]
    BY <1>1, <1>3
  <2>. QED  BY <2>1, Zenon DEF ToSet
<1>7. ToSet(s \o t) \subseteq ToSet(s) \cup ToSet(t)
  BY <1>4, Zenon DEF ToSet
<1>. QED  BY <1>5, <1>6, <1>7

\* A player who puts k > 0 cards into the round shows the last of them.
LEMMA FightsShowsLast ==
  ASSUME TypeOK, NEW p \in Players, NEW k \in 0..Len(cards[p]), k > 0,
         roundCards' = Put(roundCards, p, DrawnFrom(cards[p], k)),
         prizeCards' = prizeCards \o DrawnFrom(cards[p], k),
         lastPlayedCard' = [lastPlayedCard EXCEPT ![p] = cards[p][k]]
  PROVE  ShowsLast(p)'
<1>. DEFINE hand == cards[p]
            d == DrawnFrom(hand, k)
<1>1. hand \in Seq(Cards) /\ k \in 0..Len(hand) /\ Len(hand) \in Nat
  BY LenProperties DEF TypeOK
<1>2. d \in Seq(Cards) /\ Len(d) = k /\ d[k] = hand[k]
  <2>. HIDE DEF hand
  <2>. QED  BY <1>1, DrawProperties
<1>3. lastPlayedCard'[p] = hand[k]
  BY DEF TypeOK
<1>4. roundCards'[p] = d /\ prizeCards' = prizeCards \o d /\ prizeCards \in Seq(Cards)
  BY DEF Put, TypeOK
<1>. HIDE DEF hand, d
<1>5. d # << >> /\ k \in DOMAIN d
  BY <1>1, <1>2, EmptySeq, LenProperties
<1>6. d[k] \in ToSet(prizeCards \o d)
  BY <1>2, <1>4, <1>5, PrizeGrows DEF ToSet
<1>. QED  BY <1>2, <1>3, <1>4, <1>5, <1>6 DEF ShowsLast

\* The entries of the others stay as they are.
LEMMA OthersShowLast ==
  ASSUME TypeOK, NEW p \in Players, NEW k \in 0..Len(cards[p]),
         NEW q \in DOMAIN roundCards, q # p, ShowsLast(q),
         roundCards' = Put(roundCards, p, DrawnFrom(cards[p], k)),
         prizeCards' = prizeCards \o DrawnFrom(cards[p], k),
         lastPlayedCard'[q] = lastPlayedCard[q]
  PROVE  ShowsLast(q)'
<1>. DEFINE hand == cards[p]
            d == DrawnFrom(hand, k)
<1>1. hand \in Seq(Cards) /\ k \in 0..Len(hand)
  BY DEF TypeOK
<1>2. d \in Seq(Cards)
  <2>. HIDE DEF hand
  <2>. QED  BY <1>1, DrawProperties
<1>3. roundCards'[q] = roundCards[q]
  BY DEF Put
<1>4. prizeCards' = prizeCards \o d /\ prizeCards \in Seq(Cards)
  BY DEF TypeOK
<1>. HIDE DEF hand, d
<1>5. ToSet(prizeCards) \subseteq ToSet(prizeCards \o d)
  BY <1>2, <1>4, PrizeGrows
<1>. QED  BY <1>3, <1>4, <1>5 DEF ShowsLast

\* A player who draws k > 0 cards in a round or in a war keeps the entries right.
LEMMA DrawingShowsLast ==
  ASSUME TypeOK, NEW p \in Players, NEW k \in 0..Len(cards[p]),
         \A q \in DOMAIN roundCards : ~eliminated[q] => ShowsLast(q),
         roundCards' = Put(roundCards, p, DrawnFrom(cards[p], k)),
         prizeCards' = prizeCards \o DrawnFrom(cards[p], k),
         \/ /\ k > 0 /\ eliminated' = eliminated
            /\ lastPlayedCard' = [lastPlayedCard EXCEPT ![p] = cards[p][k]]
         \/ /\ eliminated' = [eliminated EXCEPT ![p] = TRUE]
            /\ \/ lastPlayedCard' = lastPlayedCard
               \/ lastPlayedCard' = [lastPlayedCard EXCEPT ![p] = cards[p][k]]
  PROVE  \A q \in DOMAIN roundCards' : ~eliminated'[q] => ShowsLast(q)'
<1>1. SUFFICES ASSUME NEW q \in DOMAIN roundCards', ~eliminated'[q]
               PROVE  ShowsLast(q)'
  OBVIOUS
<1>2. DOMAIN roundCards' = DOMAIN roundCards \cup {p}
  BY DEF Put
<1>3. CASE q = p
  <2>1. eliminated'[p] => ~(q = p)
    BY <1>1
  <2>2. /\ k > 0
        /\ lastPlayedCard' = [lastPlayedCard EXCEPT ![p] = cards[p][k]]
    BY <1>1, <1>3 DEF TypeOK
  <2>3. ShowsLast(p)'
    BY <2>2, FightsShowsLast
  <2>. QED  BY <1>3, <2>3
<1>4. CASE q # p
  <2>1. /\ q \in DOMAIN roundCards /\ q \in Players
        /\ ~eliminated[q] /\ lastPlayedCard'[q] = lastPlayedCard[q]
    BY <1>1, <1>2, <1>4 DEF TypeOK
  <2>2. ShowsLast(q)
    BY <2>1
  <2>. QED  BY <1>4, <2>1, <2>2, OthersShowLast
<1>. QED  BY <1>3, <1>4

\* The players with the highest card show cards of one rank.
LEMMA HoldersTie ==
  ASSUME TypeOK, \A p \in DOMAIN roundCards : ~eliminated[p] => ShowsLast(p),
         NEW p \in HighCardHolders, NEW q \in HighCardHolders
  PROVE  /\ lastPlayedCard[p] \in ToSet(prizeCards)
         /\ lastPlayedCard[q].rank = lastPlayedCard[p].rank
<1>1. /\ p \in Contenders /\ q \in Contenders
      /\ PlacedRank(q) <= PlacedRank(p) /\ PlacedRank(p) <= PlacedRank(q)
  BY DEF HighCardHolders
<1>2. ShowsLast(p) /\ ShowsLast(q)
  BY <1>1 DEF Contenders
<1>3. /\ lastPlayedCard[p].rank = PlacedRank(p)
      /\ lastPlayedCard[q].rank = PlacedRank(q)
      /\ lastPlayedCard[p] \in ToSet(prizeCards)
      /\ lastPlayedCard[q] \in ToSet(prizeCards)
  BY <1>2 DEF ShowsLast, PlacedRank
<1>4. \A c \in ToSet(prizeCards) : c.rank \in Int
  <2>1. \A i \in DOMAIN prizeCards : prizeCards[i] \in Cards
    BY LenProperties DEF TypeOK
  <2>2. \A c \in Cards : c.rank \in Int
    BY CardAssumption DEF Cards, CardsOf, Ranks
  <2>. QED  BY <2>1, <2>2 DEF ToSet
<1>5. PlacedRank(p) \in Int /\ PlacedRank(q) \in Int
  BY <1>3, <1>4
<1>. HIDE DEF PlacedRank
<1>6. PlacedRank(p) = PlacedRank(q)
  BY <1>1, <1>5
<1>. QED  BY <1>3, <1>6

\* Every step of the game preserves what makes a draw a tie.
LEMMA TieStep ==
  ASSUME TypeOK, TypeOK', TieInv, [Next]_vars
  PROVE  TieInv'
<1>. USE DEF game, round, flags
<1>. DEFINE resting(m) == m \notin {"placeCards", "compareRound", "war", "gotoWar",
                                    "limitedWar", "compareWar", "draw"}
<1>a. ASSUME resting(pc') PROVE TieInv'
  BY <1>a DEF TieInv, EntriesShowLast, Tied, FailedAreOut, SomebodyCanFight
<1>b. /\ DOMAIN highCardHolders = 1..Len(highCardHolders) /\ Len(highCardHolders) \in Nat
      /\ \A i \in DOMAIN highCardHolders : highCardHolders[i] \in Players
  BY LenProperties DEF TypeOK
<1>c. ASSUME NEW p \in DOMAIN roundCards, ShowsLast(p),
             UNCHANGED <<roundCards, prizeCards, lastPlayedCard>>
      PROVE  ShowsLast(p)'
  BY <1>c DEF ShowsLast
<1>1. CASE StartGame \/ EndGame \/ DealSkips \/ DealCard \/ RoundWon \/ WarWon
           \/ SettleDraw \/ UpdateGameStatus
  BY <1>1, <1>a DEF StartGame, EndGame, DealSkips, DealCard, RoundWon, WarWon,
                    SettleDraw, UpdateGameStatus
<1>2. CASE DealReturns
  BY <1>2, <1>a DEF DealReturns, TypeOK
<1>3. CASE StartRound
  <2>1. pc' = "placeCards" /\ DOMAIN roundCards' = {}
    BY <1>3 DEF StartRound, NoEntries
  <2>. QED
    BY <2>1 DEF TieInv, EntriesShowLast, Tied, FailedAreOut, SomebodyCanFight
<1>4. CASE PlaceCard
  <2>1. PICK p \in Players : p = turn
    BY <1>4 DEF PlaceCard
  <2>2. 1 \in 0..Len(cards[p])
    BY <1>4, <2>1, EmptySeq, LenProperties DEF PlaceCard, TypeOK
  <2>3. \A q \in DOMAIN roundCards : ~eliminated[q] => ShowsLast(q)
    BY <1>4 DEF PlaceCard, TieInv, EntriesShowLast
  <2>4. \A q \in DOMAIN roundCards' : ~eliminated'[q] => ShowsLast(q)'
    <3>1. /\ roundCards' = Put(roundCards, p, DrawnFrom(cards[p], 1))
          /\ prizeCards' = prizeCards \o DrawnFrom(cards[p], 1)
          /\ lastPlayedCard' = [lastPlayedCard EXCEPT ![p] = cards[p][1]]
          /\ 1 > 0 /\ eliminated' = eliminated
      BY <1>4, <2>1 DEF PlaceCard
    <3>. QED  BY <2>2, <2>3, <3>1, DrawingShowsLast
  <2>5. pc' = "placeCards"
    BY <1>4 DEF PlaceCard
  <2>. QED
    BY <2>4, <2>5 DEF TieInv, EntriesShowLast, Tied, FailedAreOut, SomebodyCanFight
<1>5. CASE PlaceNothing \/ PlaceReturns
  <2>1. /\ pc = "placeCards" /\ pc' \in {"placeCards", "compareRound"}
        /\ UNCHANGED <<roundCards, prizeCards, lastPlayedCard>>
        /\ \A p \in Players : ~eliminated'[p] => ~eliminated[p]
    BY <1>5 DEF PlaceNothing, PlaceReturns, TypeOK
  <2>2. \A q \in DOMAIN roundCards' : ~eliminated'[q] => ShowsLast(q)'
    BY <2>1, <1>c DEF TieInv, EntriesShowLast, TypeOK
  <2>. QED
    BY <2>1, <2>2 DEF TieInv, EntriesShowLast, Tied, FailedAreOut, SomebodyCanFight
<1>6. CASE GoToWar
  <2>1. /\ pc' \in {"trap", "war"} /\ UNCHANGED <<prizeCards, lastPlayedCard>>
        /\ highCardHolders' \in SetToSeqs(HighCardHolders)
        /\ \A p \in DOMAIN roundCards : ~eliminated[p] => ShowsLast(p)
    BY <1>6 DEF GoToWar, TieInv, EntriesShowLast
  <2>2. HighCardHolders \subseteq Players
    BY DEF HighCardHolders, Contenders, TypeOK
  <2>3. IsFiniteSet(HighCardHolders)
    BY <2>2, PlayersFinite, FS_Subset
  <2>4. ToSet(highCardHolders') \subseteq HighCardHolders
    <3>1. highCardHolders' \in Seq(HighCardHolders)
      BY <2>1, <2>3, EnumerationProperties
    <3>. QED  BY <3>1, LenProperties DEF ToSet
  <2>5. Tied'
    <3>1. SUFFICES ASSUME NEW p \in ToSet(highCardHolders'), NEW q \in ToSet(highCardHolders')
                   PROVE  /\ lastPlayedCard'[p] \in ToSet(prizeCards')
                          /\ lastPlayedCard'[q].rank = lastPlayedCard'[p].rank
      BY DEF Tied
    <3>2. p \in HighCardHolders /\ q \in HighCardHolders
      BY <2>4
    <3>3. /\ lastPlayedCard[p] \in ToSet(prizeCards)
          /\ lastPlayedCard[q].rank = lastPlayedCard[p].rank
      BY <2>1, <3>2, HoldersTie
    <3>. QED  BY <2>1, <3>3
  <2>. QED  BY <2>1, <2>5 DEF TieInv, EntriesShowLast, FailedAreOut, SomebodyCanFight
<1>7. CASE BeginWar
  <2>1. /\ pc = "war" /\ DOMAIN roundCards' = {} /\ turn' = 1
        /\ UNCHANGED <<cards, prizeCards, lastPlayedCard, highCardHolders>>
        /\ pc' = IF enoughCards' THEN "gotoWar" ELSE "limitedWar"
        /\ enoughCards' = \E i \in DOMAIN highCardHolders :
                            Len(cards[highCardHolders[i]]) >= cardsNeededForWar
    BY <1>7 DEF BeginWar, NoEntries
  <2>2. EntriesShowLast'
    BY <2>1 DEF EntriesShowLast
  <2>3. Tied'
    BY <2>1 DEF TieInv, Tied
  <2>4. FailedAreOut'
    BY <2>1, <1>b DEF FailedAreOut
  <2>5. SomebodyCanFight'
    BY <2>1, <1>b DEF SomebodyCanFight
  <2>. QED  BY <2>2, <2>3, <2>4, <2>5 DEF TieInv
<1>8. CASE GotoWarDraws \/ LimitedWarDraws
  <2>1. PICK p \in Players : p = highCardHolders[turn]
    BY <1>8, <1>b DEF GotoWarDraws, LimitedWarDraws, WarTurn
  <2>2. PICK k \in 1..Len(cards[p]) : Fights(p, k)
    <3>1. Len(cards[p]) \in Nat /\ (cards[p] # << >> => Len(cards[p]) # 0)
      BY EmptySeq, LenProperties DEF TypeOK
    <3>2. CASE GotoWarDraws
      BY <2>1, <3>1, <3>2 DEF GotoWarDraws, cardsNeededForWar
    <3>3. CASE LimitedWarDraws
      BY <2>1, <3>1, <3>3 DEF LimitedWarDraws
    <3>. QED  BY <1>8, <3>2, <3>3
  <2>3. /\ pc \in {"gotoWar", "limitedWar"} /\ pc' = pc /\ ~noSuccessfulDraws'
        /\ eliminated' = eliminated
    BY <1>8 DEF GotoWarDraws, LimitedWarDraws, WarTurn
  <2>4. \A q \in DOMAIN roundCards : ~eliminated[q] => ShowsLast(q)
    BY <2>3 DEF TieInv, EntriesShowLast
  <2>5. k \in 0..Len(cards[p]) /\ k > 0 /\ k # 0
    OBVIOUS
  <2>6. \A q \in DOMAIN roundCards' : ~eliminated'[q] => ShowsLast(q)'
    BY <2>2, <2>3, <2>4, <2>5, DrawingShowsLast DEF Fights
  <2>. QED
    BY <2>3, <2>6 DEF TieInv, EntriesShowLast, Tied, FailedAreOut, SomebodyCanFight
<1>9. CASE GotoWarFails
  <2>1. PICK p \in Players : p = highCardHolders[turn]
    BY <1>9, <1>b DEF GotoWarFails, WarTurn
  <2>2. /\ pc = "gotoWar" /\ pc' = "gotoWar" /\ turn' = turn + 1
        /\ turn \in DOMAIN highCardHolders
        /\ eliminated' = [eliminated EXCEPT ![p] = TRUE]
        /\ Len(cards[p]) < 2 /\ Fights(p, Len(cards[p]))
        /\ UNCHANGED <<highCardHolders, noSuccessfulDraws>>
    BY <1>9, <2>1 DEF GotoWarFails, WarTurn, cardsNeededForWar
  <2>3. Len(cards[p]) \in 0..Len(cards[p])
    BY LenProperties DEF TypeOK
  <2>4. \A q \in DOMAIN roundCards : ~eliminated[q] => ShowsLast(q)
    BY <2>2 DEF TieInv, EntriesShowLast
  <2>5. EntriesShowLast'
    <3>1. \A q \in DOMAIN roundCards' : ~eliminated'[q] => ShowsLast(q)'
      BY <2>2, <2>3, <2>4, DrawingShowsLast DEF Fights
    <3>. QED  BY <2>2, <3>1 DEF EntriesShowLast
  <2>6. FailedAreOut'
    <3>1. \A i \in DOMAIN highCardHolders : i < turn + 1 => i < turn \/ i = turn
      BY <1>b, <2>2
    <3>. QED  BY <1>b, <2>1, <2>2, <3>1 DEF TieInv, FailedAreOut, TypeOK
  <2>7. SomebodyCanFight'
    <3>1. SUFFICES ASSUME noSuccessfulDraws
                   PROVE  \E i \in DOMAIN highCardHolders :
                            i >= turn + 1 /\ Len(cards'[highCardHolders[i]]) >= 2
      BY <2>2 DEF SomebodyCanFight, cardsNeededForWar
    <3>2. PICK i \in DOMAIN highCardHolders :
                 i >= turn /\ Len(cards[highCardHolders[i]]) >= 2
      BY <2>2, <3>1 DEF TieInv, SomebodyCanFight, cardsNeededForWar
    <3>3. highCardHolders[i] # p
      BY <2>2, <2>3, <3>2
    <3>4. i >= turn + 1
      BY <1>b, <2>1, <2>2, <3>2, <3>3
    <3>5. cards'[highCardHolders[i]] = cards[highCardHolders[i]]
      BY <1>b, <2>2, <3>3 DEF Fights, TypeOK
    <3>. QED  BY <3>2, <3>4, <3>5
  <2>. QED  BY <2>2, <2>5, <2>6, <2>7 DEF TieInv, Tied
<1>10. CASE LimitedWarFails
  <2>1. PICK p \in Players : p = highCardHolders[turn]
    BY <1>10, <1>b DEF LimitedWarFails, WarTurn
  <2>2. /\ pc = "limitedWar" /\ pc' = "limitedWar" /\ turn' = turn + 1
        /\ turn \in DOMAIN highCardHolders
        /\ eliminated' = [eliminated EXCEPT ![p] = TRUE]
        /\ UNCHANGED <<roundCards, prizeCards, lastPlayedCard, highCardHolders,
                       noSuccessfulDraws>>
    BY <1>10, <2>1 DEF LimitedWarFails, WarTurn
  <2>3. EntriesShowLast'
    <3>1. \A q \in DOMAIN roundCards' : ~eliminated'[q] => ShowsLast(q)'
      BY <2>2, <1>c DEF TieInv, EntriesShowLast, TypeOK
    <3>. QED  BY <2>2, <3>1 DEF EntriesShowLast
  <2>4. FailedAreOut'
    <3>1. \A i \in DOMAIN highCardHolders : i < turn + 1 => i < turn \/ i = turn
      BY <1>b, <2>2
    <3>. QED  BY <1>b, <2>1, <2>2, <3>1 DEF TieInv, FailedAreOut, TypeOK
  <2>5. Tied'
    BY <2>2 DEF TieInv, Tied
  <2>. QED  BY <2>2, <2>3, <2>4, <2>5 DEF TieInv, SomebodyCanFight
<1>11. CASE WarDrawsDone
  <2>1. /\ pc \in {"gotoWar", "limitedWar"} /\ turn \notin DOMAIN highCardHolders
        /\ pc' = IF noSuccessfulDraws THEN "draw" ELSE "compareWar"
        /\ UNCHANGED <<eliminated, roundCards, prizeCards, lastPlayedCard,
                       highCardHolders>>
    BY <1>11 DEF WarDrawsDone
  <2>2. \A i \in DOMAIN highCardHolders : i < turn /\ ~(i >= turn)
    BY <2>1, <1>b DEF TypeOK
  <2>3. CASE noSuccessfulDraws
    <3>1. pc = "limitedWar" /\ pc' = "draw"
      BY <2>1, <2>2, <2>3 DEF TieInv, SomebodyCanFight
    <3>2. \A p \in ToSet(highCardHolders) : eliminated[p]
      BY <2>2, <2>3, <3>1 DEF TieInv, FailedAreOut, ToSet
    <3>3. Tied' /\ FailedAreOut'
      BY <2>1, <2>3, <3>1, <3>2 DEF TieInv, Tied, FailedAreOut
    <3>. QED  BY <3>1, <3>3 DEF TieInv, EntriesShowLast, SomebodyCanFight
  <2>4. CASE ~noSuccessfulDraws
    <3>1. pc' = "compareWar"
      BY <2>1, <2>4
    <3>2. \A q \in DOMAIN roundCards' : ~eliminated'[q] => ShowsLast(q)'
      BY <2>1, <1>c DEF TieInv, EntriesShowLast
    <3>. QED
      BY <3>1, <3>2 DEF TieInv, EntriesShowLast, Tied, FailedAreOut, SomebodyCanFight
  <2>. QED  BY <2>3, <2>4
<1>12. CASE UNCHANGED vars
  <2>1. \A p \in DOMAIN roundCards : ShowsLast(p) => ShowsLast(p)'
    BY <1>12, <1>c DEF vars
  <2>2. EntriesShowLast'
    BY <1>12, <2>1 DEF vars, TieInv, EntriesShowLast
  <2>3. Tied' /\ FailedAreOut' /\ SomebodyCanFight'
    BY <1>12 DEF vars, TieInv, Tied, FailedAreOut, SomebodyCanFight
  <2>. QED  BY <2>2, <2>3 DEF TieInv
<1>. QED
  BY <1>1, <1>2, <1>3, <1>4, <1>5, <1>6, <1>7, <1>8, <1>9, <1>10, <1>11, <1>12
     DEF Next, Step

\* When war throws GameEvent.draw, for any number of players and any deck, all
\* its players are out and tie with cards of this round's prize.
THEOREM DrawsAreTies == Spec => []DrawIsTie
<1>1. Init => TieInv
  BY DEF Init, TieInv, EntriesShowLast, Tied, FailedAreOut, SomebodyCanFight
<1>2. TypeOK /\ TypeOK' /\ TieInv /\ [Next]_vars => TieInv'
  BY TieStep
<1>3. TieInv => DrawIsTie
  BY DEF TieInv, Tied, FailedAreOut, DrawIsTie
<1>. QED  BY <1>1, <1>2, <1>3, TypeCorrect, PTL DEF Spec

-------------------------------------------------------------------------------
(* The first deal *)

\* Before the first deal nobody has cards, and nobody is out until it is over.
FirstDealInv ==
  ~gameover =>
    /\ pc = "idle" => \A p \in Players : cards[p] = << >>
    /\ pc = "idle" \/ (pc = "dealCards" /\ caller = "startGame")
         => \A p \in Players : ~eliminated[p]

\* The lead in cards of the players who had their turn.
Ahead(p, t) == IF p < t THEN 1 ELSE 0

\* A card dealt in turn keeps the deal even.
LEMMA DealCardBalanced ==
  ASSUME TypeOK, TypeOK', DealCard,
         \A p, q \in Players : Len(cards[p]) - Len(cards[q]) = Ahead(p, turn) - Ahead(q, turn)
  PROVE  \A p, q \in Players :
           Len(cards'[p]) - Len(cards'[q]) = Ahead(p, turn') - Ahead(q, turn')
<1>1. PICK t \in Players : t = turn
  BY DEF DealCard, TypeOK
<1>2. \A p \in Players : Len(cards[p]) \in Nat
  BY LenProperties DEF TypeOK
<1>3. \A p \in Players : Len(cards'[p]) = IF p = t THEN Len(cards[p]) + 1 ELSE Len(cards[p])
  <2>1. /\ cards'[t] = cards[t] \o DrawnFrom(gameDeck, 1)
        /\ \A p \in Players : p # t => cards'[p] = cards[p]
    BY <1>1 DEF DealCard, TypeOK
  <2>2. 1 \in 0..Len(gameDeck) /\ gameDeck \in Seq(Cards)
    BY EmptySeq, LenProperties DEF DealCard, TypeOK
  <2>3. DrawnFrom(gameDeck, 1) \in Seq(Cards) /\ Len(DrawnFrom(gameDeck, 1)) = 1
    BY <2>2, DrawProperties
  <2>4. Len(cards'[t]) = Len(cards[t]) + 1
    <3>. DEFINE hand == cards[t]
                d == DrawnFrom(gameDeck, 1)
    <3>1. hand \in Seq(Cards) /\ d \in Seq(Cards)
      BY <2>3 DEF TypeOK
    <3>2. Len(d) = 1 /\ cards'[t] = hand \o d
      BY <2>1, <2>3
    <3>. HIDE DEF hand, d
    <3>3. Len(hand \o d) = Len(hand) + Len(d)
      BY <3>1, ConcatProperties
    <3>. QED  BY <3>2, <3>3 DEF hand
  <2>. QED  BY <2>1, <2>4
<1>4. Players = 1..NumPlayers /\ NumPlayers \in Nat
  BY WarAssumption DEF Players
<1>5. turn' = IF t = NumPlayers THEN 1 ELSE t + 1
  BY <1>1 DEF DealCard, NextInTurn
<1>6. SUFFICES ASSUME NEW p \in Players, NEW q \in Players
               PROVE  Len(cards'[p]) - Len(cards'[q]) = Ahead(p, turn') - Ahead(q, turn')
  OBVIOUS
<1>7. Len(cards[p]) - Len(cards[q]) = Ahead(p, t) - Ahead(q, t)
  BY <1>1, <1>6
<1>. DEFINE m == Len(cards[p])
            n == Len(cards[q])
<1>8. /\ m \in Nat /\ n \in Nat /\ m - n = Ahead(p, t) - Ahead(q, t)
      /\ Len(cards'[p]) = IF p = t THEN m + 1 ELSE m
      /\ Len(cards'[q]) = IF q = t THEN n + 1 ELSE n
      /\ p \in 1..NumPlayers /\ q \in 1..NumPlayers /\ t \in 1..NumPlayers
  BY <1>2, <1>3, <1>4, <1>6, <1>7
<1>. HIDE DEF m, n
<1>9. CASE t = NumPlayers
  <2>1. turn' = 1
    BY <1>5, <1>9
  <2>. QED  BY <1>4, <1>8, <1>9, <2>1 DEF Ahead
<1>10. CASE t # NumPlayers
  <2>1. turn' = t + 1
    BY <1>5, <1>10
  <2>. QED  BY <1>4, <1>8, <2>1 DEF Ahead
<1>. QED  BY <1>9, <1>10

\* Every step preserves the state of the first deal.
LEMMA FirstDealStep ==
  ASSUME TypeOK, TypeOK', GameoverAtRest, FirstDealInv, DealBalanced, [Next]_vars
  PROVE  FirstDealInv' /\ DealBalanced'
<1>. USE DEF game, round, flags, FirstDealInv
<1>1. CASE StartGame
  <2>1. FirstDealInv'
    BY <1>1 DEF StartGame
  <2>2. \A p \in Players : ~gameover => Len(cards'[p]) = 0 /\ ~(p < 1)
    BY <1>1, EmptySeq DEF StartGame, Players
  <2>. QED  BY <1>1, <2>1, <2>2 DEF StartGame, DealBalanced
<1>2. CASE StartRound \/ EndGame
  <2>1. pc' \in {"placeCards", "idle"} /\ (pc' = "idle" => gameover')
    BY <1>2 DEF StartRound, EndGame
  <2>. QED  BY <2>1 DEF DealBalanced
<1>3. CASE DealSkips
  BY <1>3 DEF DealSkips, DealBalanced, TypeOK
<1>4. CASE DealCard
  <2>1. FirstDealInv'
    BY <1>4 DEF DealCard
  <2>2. SUFFICES ASSUME caller = "startGame", ~gameover
                 PROVE  DealBalanced'
    BY <1>4 DEF DealCard, DealBalanced
  <2>3. \A p, q \in Players : Len(cards[p]) - Len(cards[q]) = Ahead(p, turn) - Ahead(q, turn)
    BY <1>4, <2>2 DEF DealCard, DealBalanced, Ahead
  <2>4. \A p, q \in Players :
          Len(cards'[p]) - Len(cards'[q]) = Ahead(p, turn') - Ahead(q, turn')
    BY <1>4, <2>3, DealCardBalanced
  <2>. QED  BY <2>1, <2>4 DEF DealBalanced, Ahead
<1>5. CASE DealReturns
  BY <1>5 DEF DealReturns, DealBalanced, TypeOK
<1>6. CASE PlaceCard \/ PlaceNothing \/ PlaceReturns
  BY <1>6 DEF PlaceCard, PlaceNothing, PlaceReturns, DealBalanced
<1>7. CASE RoundWon \/ WarWon \/ GoToWar \/ BeginWar
  BY <1>7 DEF RoundWon, WarWon, GoToWar, BeginWar, DealBalanced
<1>8. CASE GotoWarDraws \/ GotoWarFails
  BY <1>8 DEF GotoWarDraws, GotoWarFails, WarTurn, DealBalanced
<1>9. CASE LimitedWarDraws \/ LimitedWarFails \/ WarDrawsDone
  BY <1>9 DEF LimitedWarDraws, LimitedWarFails, WarTurn, WarDrawsDone, DealBalanced
<1>10. CASE SettleDraw
  BY <1>10 DEF SettleDraw, DealBalanced
<1>11. CASE UpdateGameStatus
  BY <1>11 DEF UpdateGameStatus, DealBalanced
<1>12. CASE UNCHANGED vars
  BY <1>12 DEF vars, DealBalanced
<1>. QED
  BY <1>1, <1>2, <1>3, <1>4, <1>5, <1>6, <1>7, <1>8, <1>9, <1>10, <1>11, <1>12
     DEF Next, Step

\* dealCards splits a deck of any size evenly between any number of players: after
\* every card of the first deal the players whose turn it was are one card ahead.
THEOREM FirstDealIsBalanced == Spec => []DealBalanced
<1>1. Init => FirstDealInv /\ DealBalanced /\ PilesAtRest /\ GameoverAtRest
  BY DEF Init, FirstDealInv, DealBalanced, PilesAtRest, GameoverAtRest
<1>2. TypeOK /\ PilesAtRest /\ [Next]_vars => PilesAtRest'
  BY PilesAtRestStep
<1>3. TypeOK /\ PilesAtRest /\ GameoverAtRest /\ [Next]_vars => GameoverAtRest'
  BY GameoverStep
<1>4. TypeOK /\ TypeOK' /\ GameoverAtRest /\ FirstDealInv /\ DealBalanced /\ [Next]_vars
        => FirstDealInv' /\ DealBalanced'
  BY FirstDealStep
<1>. QED  BY <1>1, <1>2, <1>3, <1>4, TypeCorrect, PTL DEF Spec

-------------------------------------------------------------------------------
(* The winner that is announced *)

\* Between rounds the winner of the last one is in the game; a draw has no winner.
WinnerInv ==
  /\ pc \in {"idle", "dealCards", "startGame", "updateGameStatus"} /\ roundWinner # Nil
       => ~eliminated[roundWinner]
  /\ pc = "draw" => roundWinner = Nil

LEMMA WinnerStep ==
  ASSUME TypeOK, WinnerInv, [Next]_vars
  PROVE  WinnerInv'
<1>. USE DEF game, round, flags, WinnerInv
<1>1. CASE StartGame \/ StartRound \/ EndGame
  BY <1>1 DEF StartGame, StartRound, EndGame
<1>2. CASE DealSkips \/ DealCard
  BY <1>2 DEF DealSkips, DealCard
<1>3. CASE DealReturns
  BY <1>3 DEF DealReturns, TypeOK
<1>4. CASE PlaceCard \/ PlaceNothing \/ PlaceReturns
  BY <1>4 DEF PlaceCard, PlaceNothing, PlaceReturns
<1>5. CASE RoundWon \/ WarWon
  <2>1. PICK p \in Players : HighCardHolders = {p} /\ TakesPrize(p)
    BY <1>5 DEF RoundWon, WarWon
  <2>2. ~eliminated[p]
    BY <2>1 DEF HighCardHolders, Contenders
  <2>3. eliminated' = eliminated \/ \E q \in Players : eliminated' = [eliminated EXCEPT ![q] = FALSE]
    BY <1>5 DEF RoundWon, WarWon
  <2>4. roundWinner' = p /\ ~eliminated'[p] /\ pc' = "updateGameStatus"
    BY <1>5, <2>1, <2>2, <2>3 DEF RoundWon, WarWon, TakesPrize, TypeOK
  <2>. QED  BY <2>4
<1>6. CASE GoToWar \/ BeginWar
  BY <1>6 DEF GoToWar, BeginWar
<1>7. CASE GotoWarDraws \/ GotoWarFails
  BY <1>7 DEF GotoWarDraws, GotoWarFails, WarTurn
<1>8. CASE LimitedWarDraws \/ LimitedWarFails \/ WarDrawsDone
  BY <1>8 DEF LimitedWarDraws, LimitedWarFails, WarTurn, WarDrawsDone
<1>9. CASE SettleDraw
  <2>1. CASE \E p \in Players : HighSuitHolders = {p}
    <3>1. PICK p \in Players : TakesPrize(p) /\ eliminated' = [eliminated EXCEPT ![p] = FALSE]
      BY <1>9, <2>1 DEF SettleDraw
    <3>2. roundWinner' = p /\ ~eliminated'[p] /\ pc' = "updateGameStatus"
      BY <1>9, <2>1, <3>1 DEF SettleDraw, TakesPrize, TypeOK
    <3>. QED  BY <3>2
  <2>2. CASE ~ \E p \in Players : HighSuitHolders = {p}
    BY <1>9, <2>2 DEF SettleDraw
  <2>. QED  BY <2>1, <2>2
<1>10. CASE UpdateGameStatus
  BY <1>10 DEF UpdateGameStatus
<1>11. CASE UNCHANGED vars
  BY <1>11 DEF vars
<1>. QED
  BY <1>1, <1>2, <1>3, <1>4, <1>5, <1>6, <1>7, <1>8, <1>9, <1>10, <1>11
     DEF Next, Step

\* The winner that startGame announces is the player who is left, whatever rounds,
\* wars, draws and redeals came before.
THEOREM AnnouncementIsRight == Spec => []AnnouncedIsSurvivor
<1>1. Init => WinnerInv
  BY DEF Init, WinnerInv
<1>2. TypeOK /\ WinnerInv /\ [Next]_vars => WinnerInv'
  BY WinnerStep
<1>3. TypeOK /\ WinnerInv /\ SoleSurvivor => AnnouncedIsSurvivor
  BY DEF TypeOK, WinnerInv, SoleSurvivor, AnnouncedIsSurvivor, NotEliminated
<1>. QED  BY <1>1, <1>2, <1>3, TypeCorrect, SurvivorHoldsAll, PTL DEF Spec

-------------------------------------------------------------------------------
(* The game implements Ownership *)

\* Several players fight a war, so that no draw has a sole player with a suit.
SeveralFight ==
  pc \in {"war", "gotoWar", "limitedWar", "draw"} =>
    \A p \in Players : ToSet(highCardHolders) # {p}

LEMMA SeveralStep ==
  ASSUME TypeOK, SeveralFight, [Next]_vars
  PROVE  SeveralFight'
<1>. USE DEF game, round, flags, SeveralFight
<1>1. CASE StartGame \/ StartRound \/ EndGame \/ DealSkips \/ DealCard
  BY <1>1 DEF StartGame, StartRound, EndGame, DealSkips, DealCard
<1>2. CASE DealReturns
  BY <1>2 DEF DealReturns, TypeOK
<1>3. CASE PlaceCard \/ PlaceNothing \/ PlaceReturns \/ RoundWon \/ WarWon
  BY <1>3 DEF PlaceCard, PlaceNothing, PlaceReturns, RoundWon, WarWon
<1>4. CASE GoToWar
  <2>1. /\ highCardHolders' \in SetToSeqs(HighCardHolders)
        /\ \A p \in Players : HighCardHolders # {p}
    BY <1>4 DEF GoToWar
  <2>2. HighCardHolders \subseteq Players
    BY DEF HighCardHolders, Contenders, TypeOK
  <2>3. IsFiniteSet(HighCardHolders)
    BY <2>2, PlayersFinite, FS_Subset
  <2>4. ToSet(highCardHolders') = HighCardHolders
    <3>1. /\ highCardHolders' \in Seq(HighCardHolders)
          /\ \A x \in HighCardHolders : \E i \in DOMAIN highCardHolders' : highCardHolders'[i] = x
      BY <2>1, <2>3, EnumerationProperties
    <3>2. \A i \in DOMAIN highCardHolders' : highCardHolders'[i] \in HighCardHolders
      BY <3>1, LenProperties
    <3>. QED  BY <3>1, <3>2 DEF ToSet
  <2>. QED  BY <2>1, <2>4
<1>5. CASE BeginWar \/ WarDrawsDone
  BY <1>5 DEF BeginWar, WarDrawsDone
<1>6. CASE GotoWarDraws \/ GotoWarFails \/ LimitedWarDraws \/ LimitedWarFails
  BY <1>6 DEF GotoWarDraws, GotoWarFails, LimitedWarDraws, LimitedWarFails, WarTurn
<1>7. CASE SettleDraw \/ UpdateGameStatus
  BY <1>7 DEF SettleDraw, UpdateGameStatus
<1>8. CASE UNCHANGED vars
  BY <1>8 DEF vars
<1>. QED
  BY <1>1, <1>2, <1>3, <1>4, <1>5, <1>6, <1>7, <1>8 DEF Next, Step

\* When every card lies in exactly one place, the owner is that place.
PlaceOf(piles, c) == CHOOSE i \in Piles : \E j \in DOMAIN piles[i] : piles[i][j] = c

LEMMA PlaceIsOwner ==
  ASSUME NEW q \in [Piles -> Seq(Cards)], NothingLost(q), NothingDuplicated(q),
         NEW c \in Cards
  PROVE  /\ PlaceOf(q, c) \in Piles
         /\ \A i \in Piles : PlaceOf(q, c) = i <=> c \in ToSet(q[i])
<1>1. \E i \in Piles : \E j \in DOMAIN q[i] : q[i][j] = c
  BY DEF NothingLost
<1>2. PlaceOf(q, c) \in Piles /\ \E j \in DOMAIN q[PlaceOf(q, c)] : q[PlaceOf(q, c)][j] = c
  BY <1>1 DEF PlaceOf
<1>3. \A i \in Piles : c \in ToSet(q[i]) <=> \E j \in DOMAIN q[i] : q[i][j] = c
  BY DEF ToSet
<1>4. ASSUME NEW i \in Piles, \E j \in DOMAIN q[i] : q[i][j] = c
      PROVE  PlaceOf(q, c) = i
  <2>. HIDE DEF PlaceOf
  <2>. QED  BY <1>2, <1>4 DEF NothingDuplicated
<1>. HIDE DEF PlaceOf
<1>. QED  BY <1>2, <1>3, <1>4

\* The first k cards of a pile and the others.
LEMMA DrawSplits ==
  ASSUME NEW s \in Seq(Cards), NEW k \in 0..Len(s)
  PROVE  /\ \A c \in ToSet(s) : c \in ToSet(DrawnFrom(s, k)) \/ c \in ToSet(LeftAfter(s, k))
         /\ ToSet(DrawnFrom(s, k)) \subseteq ToSet(s)
<1>1. /\ DOMAIN s = 1..Len(s) /\ Len(s) \in Nat
      /\ DOMAIN DrawnFrom(s, k) = 1..k
      /\ DOMAIN LeftAfter(s, k) = 1..(Len(s) - k)
      /\ \A i \in 1..k : DrawnFrom(s, k)[i] = s[i]
      /\ \A i \in 1..(Len(s) - k) : LeftAfter(s, k)[i] = s[k + i]
  <2>1. /\ DrawnFrom(s, k) \in Seq(Cards) /\ Len(DrawnFrom(s, k)) = k
        /\ LeftAfter(s, k) \in Seq(Cards) /\ Len(LeftAfter(s, k)) = Len(s) - k
        /\ \A i \in 1..k : DrawnFrom(s, k)[i] = s[i]
        /\ \A i \in 1..(Len(s) - k) : LeftAfter(s, k)[i] = s[k + i]
    BY DrawProperties
  <2>. QED  BY <2>1, LenProperties
<1>2. ASSUME NEW i \in DOMAIN s
      PROVE  s[i] \in ToSet(DrawnFrom(s, k)) \/ s[i] \in ToSet(LeftAfter(s, k))
  <2>1. CASE i <= k
    BY <1>1, <1>2, <2>1 DEF ToSet
  <2>2. CASE ~(i <= k)
    <3>1. i - k \in 1..(Len(s) - k) /\ k + (i - k) = i
      BY <1>1, <1>2, <2>2
    <3>2. LeftAfter(s, k)[i - k] = s[i]
      BY <1>1, <3>1
    <3>. QED  BY <1>1, <3>1, <3>2 DEF ToSet
  <2>. QED  BY <2>1, <2>2
<1>3. \A i \in DOMAIN DrawnFrom(s, k) : i \in DOMAIN s /\ DrawnFrom(s, k)[i] = s[i]
  BY <1>1
<1>4. ToSet(DrawnFrom(s, k)) \subseteq ToSet(s)
  BY <1>3, Zenon DEF ToSet
<1>5. \A c \in ToSet(s) : \E i \in DOMAIN s : c = s[i]
  BY Zenon DEF ToSet
<1>. QED  BY <1>2, <1>4, <1>5

\* The piles hold every card once.
Conserved(q) == q \in [Piles -> Seq(Cards)] /\ NothingLost(q) /\ NothingDuplicated(q)

\* The top k cards of pile a go to the end of pile b.
MoveOf(q, r, a, b, k) ==
  /\ a # b /\ k \in 0..Len(q[a])
  /\ r[a] = LeftAfter(q[a], k) /\ r[b] = q[b] \o DrawnFrom(q[a], k)
  /\ \A i \in Piles \ {a, b} : r[i] = q[i]

\* Cards that move change their owner, and no other card does.
OwnersFollow(q, r, a, b, k) ==
  \A c \in Cards :
    /\ c \in ToSet(DrawnFrom(q[a], k)) => PlaceOf(r, c) = b
    /\ c \notin ToSet(DrawnFrom(q[a], k)) => PlaceOf(r, c) = PlaceOf(q, c)

LEMMA OwnersMove ==
  ASSUME NEW q, NEW r, NEW a \in Piles, NEW b \in Piles, NEW k,
         Conserved(q), Conserved(r), MoveOf(q, r, a, b, k)
  PROVE  OwnersFollow(q, r, a, b, k)
<1>. USE DEF Conserved, MoveOf, OwnersFollow
<1>. TAKE c \in Cards
<1>. DEFINE s == q[a]
            d == DrawnFrom(s, k)
            t == q[b]
<1>1. s \in Seq(Cards) /\ t \in Seq(Cards) /\ k \in 0..Len(s)
  OBVIOUS
<1>2. /\ d \in Seq(Cards)
      /\ \A x \in ToSet(s) : x \in ToSet(d) \/ x \in ToSet(LeftAfter(s, k))
  <2>. HIDE DEF s
  <2>. QED  BY <1>1, DrawProperties, DrawSplits
<1>3. /\ r[b] = t \o d /\ r[a] = LeftAfter(s, k)
  OBVIOUS
<1>. HIDE DEF s, d, t
<1>4. ToSet(t \o d) = ToSet(t) \cup ToSet(d)
  BY <1>1, <1>2, PrizeGrows
<1>5. PICK o \in Piles : o = PlaceOf(q, c)
  BY PlaceIsOwner
<1>6. c \in ToSet(q[o])
  BY <1>5, PlaceIsOwner
<1>7. CASE c \in ToSet(d)
  <2>1. c \in ToSet(r[b])
    BY <1>3, <1>4, <1>7
  <2>2. PlaceOf(r, c) = b
    BY <2>1, PlaceIsOwner
  <2>. QED  BY <1>7, <2>2 DEF d, s
<1>8. CASE c \notin ToSet(d)
  <2>1. c \in ToSet(r[o])
    <3>1. CASE o = a
      BY <1>2, <1>3, <1>6, <1>8, <3>1 DEF s
    <3>2. CASE o = b
      BY <1>3, <1>4, <1>6, <3>2 DEF t
    <3>3. CASE o \in Piles \ {a, b}
      BY <1>6, <3>3
    <3>. QED  BY <3>1, <3>2, <3>3
  <2>2. PlaceOf(r, c) = o
    BY <2>1, PlaceIsOwner
  <2>. QED  BY <1>5, <1>8, <2>2 DEF d, s
<1>. QED  BY <1>7, <1>8

LEMMA PilesTyped ==
  /\ TypeOK => pile \in [Piles -> Seq(Cards)]
  /\ TypeOK' => pile' \in [Piles -> Seq(Cards)]
  BY DEF pile, TypeOK

\* The cards at a place are those of the pile.
LEMMA TableAt ==
  ASSUME TypeOK, CardConservation, NEW i \in Piles
  PROVE  Table!At(i) = ToSet(pile[i])
<1>. DEFINE q == pile
<1>1. q \in [Piles -> Seq(Cards)] /\ NothingLost(q) /\ NothingDuplicated(q)
  BY PilesTyped DEF CardConservation
<1>2. \A c \in Cards : OwnerOf(c) = PlaceOf(q, c)
  BY DEF OwnerOf, PlaceOf
<1>. HIDE DEF q
<1>3. \A c \in Cards : PlaceOf(q, c) = i <=> c \in ToSet(q[i])
  BY <1>1, PlaceIsOwner
<1>4. ToSet(q[i]) \subseteq Cards
  BY <1>1, LenProperties DEF ToSet
<1>5. Table!At(i) = {c \in Cards : OwnerOf(c) = i}
  BY DEF Table!At
<1>6. Table!At(i) = ToSet(q[i])
  BY <1>2, <1>3, <1>4, <1>5
<1>. QED  BY <1>6 DEF q

\* A move of cards between piles is one of owners.
LEMMA TableMoves ==
  ASSUME TypeOK, TypeOK', CardConservation, CardConservation',
         NEW a \in Piles, NEW b \in Piles, NEW k, Moves(a, b, k)
  PROVE  Table!Moves(ToSet(DrawnFrom(pile[a], k)), b)
<1>. DEFINE q == pile
            r == pile'
<1>1. Conserved(q) /\ Conserved(r)
  BY PilesTyped DEF CardConservation, NothingLost, NothingDuplicated, Conserved
<1>2. MoveOf(q, r, a, b, k)
  BY DEF Moves, MoveOf
<1>3. \A c \in Cards : OwnerOf(c) = PlaceOf(q, c) /\ OwnerOf(c)' = PlaceOf(r, c)
  BY DEF OwnerOf, PlaceOf
<1>. HIDE DEF q, r
<1>4. OwnersFollow(q, r, a, b, k)
  BY <1>1, <1>2, OwnersMove
<1>5. \A c \in Cards :
        OwnerOf(c)' = IF c \in ToSet(DrawnFrom(q[a], k)) THEN b ELSE OwnerOf(c)
  BY <1>3, <1>4 DEF OwnersFollow
<1>. QED  BY <1>5 DEF Table!Moves, q

\* Nothing moves.
LEMMA TableStays ==
  ASSUME UNCHANGED <<gameDeck, cards, prizeCards>>
  PROVE  UNCHANGED [c \in Cards |-> OwnerOf(c)]
  BY DEF OwnerOf, pile

\* Taking a whole pile.
LEMMA TableMovesAll ==
  ASSUME TypeOK, TypeOK', CardConservation, CardConservation',
         NEW a \in Piles, NEW b \in Piles, Moves(a, b, Len(pile[a]))
  PROVE  Table!Moves(Table!At(a), b)
<1>1. DrawnFrom(pile[a], Len(pile[a])) = pile[a]
  <2>. DEFINE s == pile[a]
  <2>1. s \in Seq(Cards)
    BY PilesTyped
  <2>. HIDE DEF s
  <2>2. DrawnFrom(s, Len(s)) = s
    BY <2>1, DrawAll
  <2>. QED  BY <2>2 DEF s
<1>2. Table!At(a) = ToSet(pile[a])
  BY TableAt
<1>3. Table!Moves(ToSet(DrawnFrom(pile[a], Len(pile[a]))), b)
  BY TableMoves
<1>. QED  BY <1>1, <1>2, <1>3

\* A player in the game who puts k > 0 cards into the prize stakes them.
LEMMA TableStakes ==
  ASSUME TypeOK, TypeOK', CardConservation, CardConservation', ~gameover,
         NEW p \in Players, ~eliminated[p], NEW k \in 1..Len(cards[p]),
         Moves(p, Prize, k), UNCHANGED <<eliminated, gameover>>
  PROVE  Table!Next
<1>. DEFINE hand == cards[p]
            S == ToSet(DrawnFrom(hand, k))
<1>1. hand \in Seq(Cards) /\ k \in 0..Len(hand) /\ k \in 1..Len(hand) /\ pile[p] = hand
  BY PileValues DEF TypeOK
<1>2. S \subseteq ToSet(hand) /\ S # {}
  <2>. HIDE DEF hand
  <2>1. S \subseteq ToSet(hand)
    BY <1>1, DrawSplits
  <2>2. DrawnFrom(hand, k) \in Seq(Cards) /\ Len(DrawnFrom(hand, k)) = k
    BY <1>1, DrawProperties
  <2>3. 1 \in DOMAIN DrawnFrom(hand, k)
    BY <1>1, <2>2, LenProperties
  <2>. QED  BY <2>1, <2>3 DEF ToSet
<1>3. Table!At(p) = ToSet(hand)
  BY <1>1, TableAt, PileValues
<1>4. Table!Moves(S, Prize)
  BY <1>1, TableMoves, PileValues
<1>5. Table!Stakes = Prize /\ Table!Players = Players
  BY DEF Table!Stakes, Table!Players, Prize, Players
<1>6. Table!Stake(p)
  <2>. HIDE DEF S
  <2>. QED  BY <1>2, <1>3, <1>4, <1>5 DEF Table!Stake
<1>. QED  BY <1>5, <1>6 DEF Table!Next

\* A player who goes out hands in the whole hand.
LEMMA TableLeaves ==
  ASSUME TypeOK, TypeOK', CardConservation, CardConservation', ~gameover,
         NEW p \in Players, ~eliminated[p],
         Moves(p, Prize, Len(pile[p])), eliminated' = [eliminated EXCEPT ![p] = TRUE],
         UNCHANGED gameover
  PROVE  Table!Next
<1>1. Table!Moves(Table!At(p), Prize)
  BY TableMovesAll, PileValues
<1>2. Table!Stakes = Prize /\ Table!Players = Players
  BY DEF Table!Stakes, Table!Players, Prize, Players
<1>3. {q \in Players : eliminated'[q]} = {q \in Players : eliminated[q]} \cup {p}
  BY DEF TypeOK
<1>4. Table!Leave(p)
  BY <1>1, <1>2, <1>3 DEF Table!Leave
<1>. QED  BY <1>2, <1>4 DEF Table!Next

\* A player without cards goes out.
LEMMA TableLeavesEmpty ==
  ASSUME TypeOK, TypeOK', CardConservation, CardConservation', ~gameover,
         NEW p \in Players, cards[p] = << >>,
         eliminated' = [eliminated EXCEPT ![p] = TRUE],
         UNCHANGED <<gameDeck, cards, prizeCards, gameover>>
  PROVE  [Table!Next]_(Table!vars)
<1>1. CASE eliminated[p]
  <2>1. UNCHANGED eliminated
    BY <1>1 DEF TypeOK
  <2>. QED  BY <2>1, TableStays DEF Table!vars
<1>2. CASE ~eliminated[p]
  <2>1. /\ DrawnFrom(<< >>, 0) = << >> /\ LeftAfter(<< >>, 0) = << >>
        /\ prizeCards \o << >> = prizeCards /\ Len(<< >>) = 0
    BY EmptySeq, DrawAll, ConcatEmptySeq DEF TypeOK
  <2>2. /\ pile[p] = << >> /\ pile'[p] = << >> /\ p # Prize
        /\ p \in Piles /\ Prize \in Piles
        /\ pile[Prize] = prizeCards /\ pile'[Prize] = prizeCards
        /\ \A i \in Piles : pile'[i] = pile[i]
    BY PileValues
  <2>3. Len(pile[p]) = 0 /\ 0 \in 0..Len(pile[p])
    BY <2>1, <2>2
  <2>4. /\ pile'[p] = LeftAfter(pile[p], 0)
        /\ pile'[Prize] = pile[Prize] \o DrawnFrom(pile[p], 0)
    BY <2>1, <2>2
  <2>5. Moves(p, Prize, Len(pile[p]))
    BY <2>2, <2>3, <2>4 DEF Moves
  <2>. QED  BY <1>2, <2>5, TableLeaves
<1>. QED  BY <1>1, <1>2

\* A player in the game takes the prize.
LEMMA TableTakes ==
  ASSUME TypeOK, TypeOK', CardConservation, CardConservation', ~gameover,
         NEW p \in Players, ~eliminated[p], prizeCards # << >>,
         TakesPrize(p), UNCHANGED <<gameDeck, eliminated, gameover>>
  PROVE  Table!Next
<1>1. Moves(Prize, p, Len(pile[Prize]))
  BY TakesPrizeMoves, PileValues
<1>2. Table!Moves(Table!At(Prize), p)
  BY <1>1, TableMovesAll, PileValues
<1>3. Table!At(Prize) # {}
  <2>1. Table!At(Prize) = ToSet(prizeCards)
    BY TableAt, PileValues
  <2>2. 1 \in DOMAIN prizeCards
    BY LenProperties, EmptySeq DEF TypeOK
  <2>. QED  BY <2>1, <2>2 DEF ToSet
<1>4. Table!Stakes = Prize /\ Table!Players = Players
  BY DEF Table!Stakes, Table!Players, Prize, Players
<1>5. Table!Take(p)
  BY <1>2, <1>3, <1>4 DEF Table!Take
<1>. QED  BY <1>4, <1>5 DEF Table!Next

\* Every step of the code is a step of the abstract game, or leaves it as it is.
LEMMA TableStep ==
  ASSUME TypeOK, TypeOK', CardConservation, CardConservation', EliminatedHoldNothing,
         PilesAtRest, GameoverAtRest, TieInv, SeveralFight, SoleSurvivor', [Next]_vars
  PROVE  [Table!Next]_(Table!vars)
<1>. USE DEF game, round, flags
<1>a. ASSUME UNCHANGED <<gameDeck, cards, prizeCards, eliminated, gameover>>
      PROVE  [Table!Next]_(Table!vars)
  BY <1>a, TableStays DEF Table!vars
<1>b. pc \notin {"startGame", "idle", "dealCards"} => ~gameover
  BY DEF GameoverAtRest
<1>c. Table!Stakes = Prize /\ Table!DeckPlace = 0 /\ Table!Players = Players
  BY DEF Table!Stakes, Table!DeckPlace, Table!Players, Prize, Players
<1>d. \A p \in Players : Len(cards[p]) \in Nat /\ (cards[p] # << >> <=> Len(cards[p]) # 0)
  BY EmptySeq, LenProperties DEF TypeOK
<1>1. CASE StartGame \/ EndGame \/ DealSkips \/ DealReturns \/ PlaceReturns
           \/ GoToWar \/ BeginWar \/ WarDrawsDone \/ UNCHANGED vars
  BY <1>1, <1>a DEF StartGame, EndGame, DealSkips, DealReturns, PlaceReturns,
                    GoToWar, BeginWar, WarDrawsDone, vars
<1>2. CASE StartRound
  BY <1>2, <1>a DEF StartRound, PilesAtRest
<1>3. CASE DealCard
  <2>1. PICK p \in Players : p = turn
    BY <1>3 DEF DealCard, TypeOK
  <2>2. /\ cards'[p] = cards[p] \o DrawnFrom(gameDeck, 1)
        /\ \A q \in Players \ {p} : cards'[q] = cards[q]
        /\ gameDeck' = LeftAfter(gameDeck, 1) /\ gameDeck # << >>
        /\ UNCHANGED <<prizeCards, eliminated, gameover>> /\ ~eliminated[p]
    BY <1>3, <2>1 DEF DealCard, TypeOK
  <2>3. 1 \in 0..Len(gameDeck) /\ Len(gameDeck) \in Nat /\ gameDeck \in Seq(Cards)
    BY <2>2, EmptySeq DEF TypeOK
  <2>4. Moves(0, p, 1)
    BY <2>2, <2>3, PileValues DEF Moves
  <2>5. Table!Moves(ToSet(DrawnFrom(gameDeck, 1)), p)
    BY <2>4, TableMoves, PileValues
  <2>6. ToSet(DrawnFrom(gameDeck, 1)) = {gameDeck[1]}
    <3>1. /\ DrawnFrom(gameDeck, 1) \in Seq(Cards) /\ Len(DrawnFrom(gameDeck, 1)) = 1
          /\ \A i \in 1..1 : DrawnFrom(gameDeck, 1)[i] = gameDeck[i]
      BY <2>3, DrawProperties
    <3>2. DOMAIN DrawnFrom(gameDeck, 1) = {1}
      BY <3>1, LenProperties
    <3>. QED  BY <3>1, <3>2 DEF ToSet
  <2>7. gameDeck[1] \in Table!At(0)
    <3>1. Table!At(0) = ToSet(gameDeck)
      BY TableAt, PileValues
    <3>2. 1 \in DOMAIN gameDeck
      BY <2>3, LenProperties
    <3>. QED  BY <3>1, <3>2 DEF ToSet
  <2>8. ~gameover
    BY <2>2 DEF GameoverAtRest
  <2>9. Table!Deal(p)
    BY <1>c, <2>2, <2>5, <2>6, <2>7 DEF Table!Deal
  <2>. QED  BY <1>c, <2>8, <2>9 DEF Table!Next
<1>4. CASE PlaceCard
  <2>1. PICK p \in Players : p = turn
    BY <1>4 DEF PlaceCard
  <2>2. /\ ~eliminated[p] /\ cards[p] # << >> /\ ~gameover
        /\ UNCHANGED <<eliminated, gameover>>
    BY <1>4, <1>b, <2>1 DEF PlaceCard
  <2>3. 1 \in 0..Len(cards[p]) /\ 1 \in 1..Len(cards[p])
    BY <1>d, <2>2
  <2>4. Moves(p, Prize, 1)
    BY <1>4, <2>1, <2>3, FightsMoves DEF PlaceCard
  <2>. QED  BY <2>2, <2>3, <2>4, TableStakes
<1>5. CASE PlaceNothing
  <2>1. PICK p \in Players : p = turn
    BY <1>5 DEF PlaceNothing
  <2>2. /\ cards[p] = << >> /\ eliminated' = [eliminated EXCEPT ![p] = TRUE] /\ ~gameover
        /\ UNCHANGED <<gameDeck, cards, prizeCards, gameover>>
    BY <1>5, <1>b, <2>1 DEF PlaceNothing, EliminatedHoldNothing
  <2>. QED  BY <2>2, TableLeavesEmpty
<1>6. CASE RoundWon \/ WarWon
  <2>1. PICK p \in Players :
          /\ HighCardHolders = {p} /\ TakesPrize(p)
          /\ \/ eliminated' = eliminated
             \/ eliminated' = [eliminated EXCEPT ![p] = FALSE]
    BY <1>6 DEF RoundWon, WarWon
  <2>2. p \in DOMAIN roundCards /\ ~eliminated[p]
    BY <2>1 DEF HighCardHolders, Contenders
  <2>3. UNCHANGED <<gameDeck, eliminated, gameover>> /\ ~gameover
    BY <1>6, <1>b, <2>1, <2>2 DEF RoundWon, WarWon, TypeOK
  <2>4. prizeCards # << >>
    <3>1. lastPlayedCard[p] \in ToSet(prizeCards)
      BY <1>6, <2>2 DEF RoundWon, WarWon, TieInv, EntriesShowLast, ShowsLast
    <3>. QED  BY <3>1 DEF ToSet
  <2>. QED  BY <2>1, <2>2, <2>3, <2>4, TableTakes
<1>7. CASE GotoWarDraws \/ LimitedWarDraws
  <2>1. PICK p \in Players : p = highCardHolders[turn]
    BY <1>7, LenProperties DEF GotoWarDraws, LimitedWarDraws, WarTurn, TypeOK
  <2>2. PICK k \in 1..Len(cards[p]) : Fights(p, k)
    <3>1. CASE GotoWarDraws
      BY <2>1, <1>d, <3>1 DEF GotoWarDraws, cardsNeededForWar
    <3>2. CASE LimitedWarDraws
      BY <2>1, <1>d, <3>2 DEF LimitedWarDraws
    <3>. QED  BY <1>7, <3>1, <3>2
  <2>3. UNCHANGED <<gameDeck, eliminated, gameover>> /\ ~gameover
    BY <1>7, <1>b DEF GotoWarDraws, LimitedWarDraws, WarTurn
  <2>4. ~eliminated[p] /\ k \in 0..Len(cards[p])
    BY <1>d, <2>2 DEF EliminatedHoldNothing
  <2>5. Moves(p, Prize, k)
    BY <2>2, <2>3, <2>4, FightsMoves DEF Fights
  <2>. QED  BY <2>2, <2>3, <2>4, <2>5, TableStakes
<1>8. CASE GotoWarFails
  <2>1. PICK p \in Players : p = highCardHolders[turn]
    BY <1>8, LenProperties DEF GotoWarFails, WarTurn, TypeOK
  <2>2. /\ Fights(p, Len(cards[p])) /\ eliminated' = [eliminated EXCEPT ![p] = TRUE]
        /\ UNCHANGED <<gameDeck, gameover>> /\ ~gameover
    BY <1>8, <1>b, <2>1 DEF GotoWarFails, WarTurn
  <2>3. Len(cards[p]) \in 0..Len(cards[p])
    BY <1>d
  <2>4. Moves(p, Prize, Len(pile[p]))
    BY <2>2, <2>3, FightsMoves, PileValues DEF Fights
  <2>5. CASE ~eliminated[p]
    BY <2>2, <2>4, <2>5, TableLeaves
  <2>6. CASE eliminated[p]
    <3>1. cards[p] = << >>
      BY <2>6 DEF EliminatedHoldNothing
    <3>2. Len(cards[p]) = 0
      BY <1>d, <3>1
    <3>3. /\ prizeCards' = prizeCards \o DrawnFrom(<< >>, 0)
          /\ cards' = [cards EXCEPT ![p] = LeftAfter(<< >>, 0)]
      BY <2>2, <3>1, <3>2 DEF Fights
    <3>4. /\ DrawnFrom(<< >>, 0) = << >> /\ LeftAfter(<< >>, 0) = << >>
          /\ prizeCards \o << >> = prizeCards
      BY EmptySeq, DrawAll, ConcatEmptySeq DEF TypeOK
    <3>5. UNCHANGED <<cards, prizeCards, eliminated>>
      BY <2>2, <2>6, <3>1, <3>3, <3>4 DEF TypeOK
    <3>. QED  BY <1>a, <2>2, <3>5
  <2>. QED  BY <2>5, <2>6
<1>9. CASE LimitedWarFails
  <2>1. PICK p \in Players : p = highCardHolders[turn]
    BY <1>9, LenProperties DEF LimitedWarFails, WarTurn, TypeOK
  <2>2. /\ cards[p] = << >> /\ eliminated' = [eliminated EXCEPT ![p] = TRUE] /\ ~gameover
        /\ UNCHANGED <<gameDeck, cards, prizeCards, gameover>>
    BY <1>9, <1>b, <2>1 DEF LimitedWarFails, WarTurn, EliminatedHoldNothing
  <2>. QED  BY <2>2, TableLeavesEmpty
<1>10. CASE SettleDraw
  <2>1. /\ pc = "draw" /\ \A p \in ToSet(highCardHolders) : eliminated[p]
        /\ \A p \in ToSet(highCardHolders) : lastPlayedCard[p] # Nil
    <3>1. ToSet(prizeCards) \subseteq Cards
      BY LenProperties DEF TypeOK, ToSet
    <3>. QED  BY <1>10, <3>1, WarAssumption DEF SettleDraw, TieInv, Tied, FailedAreOut
  <2>2. HighSuitHolders = ToSet(highCardHolders)
    BY <2>1 DEF HighSuitHolders, Drawn
  <2>3. ~ \E p \in Players : HighSuitHolders = {p}
    BY <2>1, <2>2 DEF SeveralFight
  <2>4. /\ gameDeck = << >> /\ gameDeck' = prizeCards /\ prizeCards' = << >>
        /\ UNCHANGED <<cards, eliminated, gameover>> /\ ~gameover
    BY <1>10, <1>b, <2>3 DEF SettleDraw, PilesAtRest
  <2>5. /\ DrawnFrom(prizeCards, Len(prizeCards)) = prizeCards
        /\ LeftAfter(prizeCards, Len(prizeCards)) = << >>
        /\ Len(prizeCards) \in 0..Len(prizeCards)
        /\ << >> \o prizeCards = prizeCards
    BY DrawAll, LenProperties, ConcatEmptySeq DEF TypeOK
  <2>6. Moves(Prize, 0, Len(pile[Prize]))
    BY <2>4, <2>5, PileValues DEF Moves
  <2>7. Table!Moves(Table!At(Prize), 0)
    BY <2>6, TableMovesAll, PileValues
  <2>8. Table!At(0) = {}
    <3>1. Table!At(0) = ToSet(gameDeck)
      BY TableAt, PileValues
    <3>. QED  BY <2>4, <3>1 DEF ToSet
  <2>9. Table!Return
    BY <1>c, <2>4, <2>7, <2>8 DEF Table!Return
  <2>. QED  BY <2>4, <2>9 DEF Table!Next
<1>11. CASE UpdateGameStatus
  <2>1. UNCHANGED <<gameDeck, cards, prizeCards, eliminated>> /\ ~gameover
    BY <1>11, <1>b DEF UpdateGameStatus
  <2>2. CASE ~gameover'
    <3>1. gameover' = gameover
      BY <2>1, <2>2 DEF TypeOK
    <3>. QED  BY <1>a, <2>1, <3>1
  <2>3. CASE gameover'
    <3>1. PICK p \in Players : NotEliminated' = {p} /\ ToSet(cards'[p]) = Cards
      BY <2>3 DEF SoleSurvivor
    <3>2. {q \in Players : eliminated[q]} = Players \ {p}
      BY <2>1, <3>1 DEF NotEliminated, TypeOK
    <3>3. Table!At(p) = Cards
      BY <2>1, <3>1, TableAt, PileValues
    <3>4. UNCHANGED [c \in Cards |-> OwnerOf(c)]
      BY <2>1, TableStays
    <3>5. gameover' = TRUE
      BY <2>3 DEF TypeOK
    <3>6. Table!Finish
      BY <1>c, <2>1, <3>2, <3>3, <3>4, <3>5 DEF Table!Finish
    <3>. QED  BY <2>1, <3>6 DEF Table!Next
  <2>. QED  BY <2>2, <2>3
<1>. QED
  BY <1>1, <1>2, <1>3, <1>4, <1>5, <1>6, <1>7, <1>8, <1>9, <1>10, <1>11 DEF Next, Step

\* The game of the code, for any number of players and any deck, is a game in the sense
\* of Ownership: cards change hands only by its rules, nobody comes back into the game,
\* and it ends once, with one owner of all cards.
THEOREM ImplementsOwnership == Spec => OwnershipRules
<1>1. Init => Table!Init
  <2>1. SUFFICES ASSUME Init PROVE Table!Init
    OBVIOUS
  <2>. DEFINE q == pile
  <2>2. /\ gameDeck \in Seq(Cards)
        /\ \A c \in Cards : \E i \in DOMAIN gameDeck : gameDeck[i] = c
    BY <2>1, CardsFinite, EnumerationProperties DEF Init
  <2>3. \A i \in Piles : i # 0 => pile[i] = << >>
    BY <2>1, PileValues DEF Init
  <2>4. \A c \in Cards : OwnerOf(c) = 0
    <3>1. TAKE c \in Cards
    <3>2. \E j \in DOMAIN pile[0] : pile[0][j] = c
      BY <2>2, PileValues
    <3>3. \A i \in Piles : (\E j \in DOMAIN pile[i] : pile[i][j] = c) => i = 0
      BY <2>3
    <3>. QED  BY <3>2, <3>3, PileValues DEF OwnerOf
  <2>5. {p \in Players : eliminated[p]} = {} /\ gameover = FALSE
    BY <2>1 DEF Init
  <2>. QED  BY <2>4, <2>5 DEF Table!Init, Table!DeckPlace
<1>2. Init => PilesAtRest /\ GameoverAtRest /\ TieInv /\ SeveralFight
  BY DEF Init, PilesAtRest, GameoverAtRest, TieInv, EntriesShowLast, Tied, FailedAreOut,
         SomebodyCanFight, SeveralFight
<1>3. TypeOK /\ PilesAtRest /\ [Next]_vars => PilesAtRest'
  BY PilesAtRestStep
<1>4. TypeOK /\ PilesAtRest /\ GameoverAtRest /\ [Next]_vars => GameoverAtRest'
  BY GameoverStep
<1>5. TypeOK /\ TypeOK' /\ TieInv /\ [Next]_vars => TieInv'
  BY TieStep
<1>6. TypeOK /\ SeveralFight /\ [Next]_vars => SeveralFight'
  BY SeveralStep
<1>7. TypeOK /\ TypeOK' /\ CardConservation /\ CardConservation' /\ EliminatedHoldNothing
        /\ PilesAtRest /\ GameoverAtRest /\ TieInv /\ SeveralFight /\ SoleSurvivor'
        /\ [Next]_vars => [Table!Next]_(Table!vars)
  BY TableStep
<1>. QED
  BY <1>1, <1>2, <1>3, <1>4, <1>5, <1>6, <1>7, TypeCorrect, CardsConserved,
     EliminatedAreEmptyHanded, SurvivorHoldsAll, PTL
     DEF Spec, OwnershipRules, Table!Spec

-------------------------------------------------------------------------------
(* A second game between the same players *)

\* The cards on the table are those of the games begun so far.
RematchCards ==
  /\ match \in {1, 2}
  /\ NothingDuplicated(pile)
  /\ \A c \in Cards : InSome(pile, c) <=> c \in InPlay

\* What a game needs of its players to be played to its end
RematchInv ==
  /\ TypeOK /\ PilesAtRest /\ GameoverAtRest /\ EliminatedHoldNothing
  /\ RematchCards

\* The deck of a game has every card of its copy once.
LEMMA NewDeckProperties ==
  ASSUME NEW copy, NEW f \in NewDecks(copy)
  PROVE  /\ f \in Seq(Cards)
         /\ \A i, j \in DOMAIN f : f[i] = f[j] => i = j
         /\ \A c \in Cards : (\E i \in DOMAIN f : f[i] = c) <=> c.copy = copy
<1>. DEFINE S == {c \in Cards : c.copy = copy}
<1>1. S \subseteq Cards /\ IsFiniteSet(S)
  BY CardsFinite, FS_Subset
<1>2. f \in SetToSeqs(S)
  BY DEF NewDecks
<1>3. /\ f \in Seq(S)
      /\ \A i, j \in DOMAIN f : f[i] = f[j] => i = j
      /\ \A x \in S : \E i \in DOMAIN f : f[i] = x
  <2>. HIDE DEF S
  <2>. QED  BY <1>1, <1>2, EnumerationProperties
<1>4. f \in Seq(Cards)
  BY <1>1, <1>3, SeqMonotonic
<1>5. \A i \in DOMAIN f : f[i] \in S
  <2>. HIDE DEF S
  <2>. QED  BY <1>3, LenProperties
<1>. QED  BY <1>3, <1>4, <1>5

LEMMA RematchBegins ==
  ASSUME RematchInit
  PROVE  RematchInv
<1>1. /\ gameDeck \in Seq(Cards)
      /\ \A i, j \in DOMAIN gameDeck : gameDeck[i] = gameDeck[j] => i = j
      /\ \A c \in Cards : (\E i \in DOMAIN gameDeck : gameDeck[i] = c) <=> c.copy = 1
  BY NewDeckProperties DEF RematchInit
<1>2. TypeOK
  <2>1. turn \in Players /\ turn \in Nat \ {0}
    BY WarAssumption DEF RematchInit, Players
  <2>2. DOMAIN roundCards = {}
    BY DEF RematchInit, NoEntries
  <2>3. << >> \in Seq(Cards) /\ << >> \in Seq(Players)
    BY EmptySeq
  <2>. QED  BY <1>1, <2>1, <2>2, <2>3 DEF RematchInit, TypeOK, Methods
<1>3. PilesAtRest /\ GameoverAtRest /\ EliminatedHoldNothing
  BY DEF RematchInit, PilesAtRest, GameoverAtRest, EliminatedHoldNothing
<1>4. \A i \in Piles : i # 0 => pile[i] = << >>
  BY PileValues DEF RematchInit
<1>5. \A c \in Cards : InSome(pile, c) <=> c.copy = 1
  BY <1>1, <1>4, PileValues DEF InSome
<1>6. \A c \in Cards : c.copy \in Nat \ {0}
  BY WarAssumption DEF Cards, CardsOf
<1>7. \A c \in Cards : InSome(pile, c) <=> c \in InPlay
  BY <1>5, <1>6 DEF InPlay, RematchInit
<1>8. NothingDuplicated(pile)
  BY <1>1, <1>4, PileValues DEF NothingDuplicated
<1>. QED  BY <1>2, <1>3, <1>7, <1>8 DEF RematchInv, RematchCards, RematchInit

LEMMA PlayKeeps ==
  ASSUME RematchInv, [Play]_<<vars, match>>
  PROVE  RematchInv'
<1>1. [Next]_vars /\ UNCHANGED match
  BY DEF Play
<1>2. TypeOK' /\ PilesAtRest' /\ GameoverAtRest' /\ EliminatedHoldNothing'
  BY <1>1, TypeStep, PilesAtRestStep, GameoverStep, EliminatedStep DEF RematchInv
<1>3. Conserves
  BY <1>1, <1>2, ConservationStep DEF RematchInv, RematchCards
<1>4. InPlay' = InPlay
  BY <1>1 DEF InPlay
<1>5. RematchCards'
  BY <1>1, <1>3, <1>4 DEF RematchInv, RematchCards, Conserves, InSome, NothingDuplicated
<1>. QED  BY <1>2, <1>5 DEF RematchInv

\* The second game adds its deck to the cards that the winner of the first one has.
LEMMA NewGameKeeps ==
  ASSUME RematchInv, NewGame, EliminatedHoldNothing', eliminated' \in [Players -> BOOLEAN],
         lastPlayedCard' \in [Players -> Cards \cup {Nil}]
  PROVE  RematchInv'
<1>. USE DEF round, flags
<1>1. /\ gameDeck' \in Seq(Cards)
      /\ \A i, j \in DOMAIN gameDeck' : gameDeck'[i] = gameDeck'[j] => i = j
      /\ \A c \in Cards : (\E i \in DOMAIN gameDeck' : gameDeck'[i] = c) <=> c.copy = 2
  <2>1. PICK f \in NewDecks(2) : gameDeck' = f
    BY DEF NewGame
  <2>. QED  BY <2>1, NewDeckProperties
<1>2. TypeOK'
  BY <1>1 DEF RematchInv, TypeOK, NewGame
<1>3. PilesAtRest' /\ GameoverAtRest'
  BY DEF RematchInv, PilesAtRest, GameoverAtRest, NewGame
<1>4. /\ pile[0] = << >>
      /\ \A i \in Piles : i # 0 => pile'[i] = pile[i]
  BY PileValues DEF RematchInv, GameoverAtRest, NewGame
<1>5. \A i \in Piles : pile[i] \in Seq(Cards)
  BY PileValues DEF RematchInv, TypeOK
<1>6. \A c \in Cards : c.copy \in Nat \ {0}
  BY WarAssumption DEF Cards, CardsOf
<1>7. \A i \in Piles : \A j \in DOMAIN pile[i] : pile[i][j] \in Cards /\ pile[i][j].copy = 1
  <2>1. SUFFICES ASSUME NEW i \in Piles, NEW j \in DOMAIN pile[i]
                 PROVE  pile[i][j] \in Cards /\ pile[i][j].copy = 1
    OBVIOUS
  <2>2. PICK s \in Seq(Cards) : s = pile[i]
    BY <1>5
  <2>3. PICK c \in Cards : c = pile[i][j]
    BY <2>2, LenProperties
  <2>4. c \in InPlay
    BY <2>3 DEF RematchInv, RematchCards, InSome
  <2>. QED  BY <2>3, <2>4, <1>6 DEF InPlay, NewGame
<1>8. \A c \in Cards : InSome(pile', c) <=> InSome(pile, c) \/ c.copy = 2
  <2>1. SUFFICES ASSUME NEW c \in Cards PROVE InSome(pile', c) <=> InSome(pile, c) \/ c.copy = 2
    OBVIOUS
  <2>2. ASSUME InSome(pile', c) PROVE InSome(pile, c) \/ c.copy = 2
    <3>1. PICK i \in Piles : \E j \in DOMAIN pile'[i] : pile'[i][j] = c
      BY <2>2 DEF InSome
    <3>. QED  BY <1>1, <1>4, <3>1, PileValues DEF InSome
  <2>3. ASSUME InSome(pile, c) PROVE InSome(pile', c)
    <3>1. PICK i \in Piles : \E j \in DOMAIN pile[i] : pile[i][j] = c
      BY <2>3 DEF InSome
    <3>2. i # 0
      BY <1>4, <3>1
    <3>. QED  BY <1>4, <3>1, <3>2 DEF InSome
  <2>4. ASSUME c.copy = 2 PROVE InSome(pile', c)
    BY <1>1, <2>4, PileValues DEF InSome
  <2>. QED  BY <2>2, <2>3, <2>4
<1>9. \A c \in Cards : InSome(pile', c) <=> c \in InPlay'
  <2>1. match = 1 /\ match' = 2
    BY DEF NewGame
  <2>2. \A c \in Cards : c \in InPlay <=> c.copy <= 1
    BY <2>1 DEF InPlay
  <2>3. \A c \in Cards : c \in InPlay' <=> c.copy <= 2
    BY <2>1 DEF InPlay
  <2>4. \A c \in Cards : InSome(pile, c) <=> c.copy <= 1
    BY <2>2 DEF RematchInv, RematchCards
  <2>. QED  BY <1>6, <1>8, <2>3, <2>4
<1>10. NothingDuplicated(pile')
  <2>1. SUFFICES ASSUME NEW i \in Piles, NEW k \in Piles,
                        NEW j \in DOMAIN pile'[i], NEW l \in DOMAIN pile'[k],
                        pile'[i][j] = pile'[k][l]
                 PROVE  i = k /\ j = l
    BY DEF NothingDuplicated
  <2>2. CASE i = 0 /\ k = 0
    BY <1>1, <2>1, <2>2, PileValues
  <2>3. CASE i # 0 /\ k # 0
    BY <1>4, <2>1, <2>3 DEF RematchInv, RematchCards, NothingDuplicated
  <2>4. ASSUME NEW m \in DOMAIN gameDeck', gameDeck'[m] \in Cards PROVE gameDeck'[m].copy = 2
    BY <1>1, <2>4
  <2>5. CASE i = 0 /\ k # 0
    BY <1>4, <1>7, <2>1, <2>4, <2>5, PileValues
  <2>6. CASE i # 0 /\ k = 0
    BY <1>4, <1>7, <2>1, <2>4, <2>6, PileValues
  <2>. QED  BY <2>2, <2>3, <2>5, <2>6
<1>11. RematchCards'
  BY <1>9, <1>10 DEF RematchCards, NewGame, InSome, NothingDuplicated
<1>. QED  BY <1>2, <1>3, <1>11 DEF RematchInv

LEMMA SharedKeeps ==
  ASSUME RematchInv, WithTournamentPlayers
  PROVE  RematchInv'
<1>1. EliminatedHoldNothing' /\ eliminated' \in [Players -> BOOLEAN]
  BY DEF WithTournamentPlayers, NewGame, RematchInv, EliminatedHoldNothing, TypeOK
<1>2. lastPlayedCard' \in [Players -> Cards \cup {Nil}]
  BY DEF WithTournamentPlayers, RematchInv, TypeOK
<1>. QED  BY <1>1, <1>2, NewGameKeeps DEF WithTournamentPlayers

LEMMA ConvertedKeeps ==
  ASSUME RematchInv, WithPlayers
  PROVE  RematchInv'
<1>1. EliminatedHoldNothing' /\ eliminated' \in [Players -> BOOLEAN]
  BY DEF WithPlayers, EliminatedHoldNothing
<1>2. lastPlayedCard' \in [Players -> Cards \cup {Nil}]
  BY DEF WithPlayers
<1>. QED  BY <1>1, <1>2, NewGameKeeps DEF WithPlayers

\* At the end of a game the one player left has every card in play.
LEMMA RematchInvConserves ==
  ASSUME RematchInv
  PROVE  RematchConserves
<1>1. \A c \in Cards : (\E i \in Piles : c \in ToSet(pile[i])) <=> c \in InPlay
  <2>1. \A c : InSome(pile, c) <=> \E i \in Piles : c \in ToSet(pile[i])
    BY DEF InSome, ToSet
  <2>. QED  BY <2>1 DEF RematchInv, RematchCards
<1>2. ASSUME gameover
      PROVE  \E p \in Players : NotEliminated = {p} /\ ToSet(cards[p]) = InPlay
  <2>1. PICK p \in Players : NotEliminated = {p}
    BY <1>2 DEF RematchInv, GameoverAtRest
  <2>2. \A i \in Piles : i # p => pile[i] = << >>
    <3>1. gameDeck = << >> /\ prizeCards = << >>
      BY <1>2 DEF RematchInv, GameoverAtRest, PilesAtRest
    <3>2. \A q \in Players : q # p => cards[q] = << >>
      BY <2>1 DEF RematchInv, NotEliminated, EliminatedHoldNothing
    <3>. QED  BY <3>1, <3>2, PileValues
  <2>3. \A c \in Cards : c \in ToSet(cards[p]) <=> c \in InPlay
    BY <1>1, <2>2, PileValues DEF ToSet
  <2>4. \A c \in ToSet(cards[p]) : c \in Cards
    BY LenProperties DEF RematchInv, TypeOK, ToSet
  <2>5. ToSet(cards[p]) = InPlay
    BY <2>3, <2>4 DEF InPlay
  <2>. QED  BY <2>1, <2>5
<1>. QED  BY <1>1, <1>2 DEF RematchConserves, RematchInv, RematchCards

\* Two games between the same players keep the cards of both decks, each once, and the
\* winner of the second has them all, whether the second game shares the player objects
\* of the first (who are eliminated or not, as the first game left them) or converts them.
THEOREM RematchesConserve == SharedSpec \/ ConvertedSpec => []RematchConserves
<1>1. RematchInit => RematchInv
  BY RematchBegins
<1>2. RematchInv /\ [SharedNext]_<<vars, match>> => RematchInv'
  BY PlayKeeps, SharedKeeps DEF SharedNext
<1>3. RematchInv /\ [ConvertedNext]_<<vars, match>> => RematchInv'
  BY PlayKeeps, ConvertedKeeps DEF ConvertedNext
<1>4. RematchInv => RematchConserves
  BY RematchInvConserves
<1>. QED  BY <1>1, <1>2, <1>3, <1>4, PTL DEF SharedSpec, ConvertedSpec

-------------------------------------------------------------------------------
(* Players shared by games and clients *)

CONSTANTS MaxObjects, Games, WarGames, RosterCards
VARIABLES heap, players

Roster == INSTANCE Roster WITH Card <- RosterCards

Object ==
  [class : {"Player", "TournamentPlayer"}, id : Nat, cards : SUBSET RosterCards,
   lastPlayedCard : SUBSET RosterCards, eliminated : BOOLEAN]

\* The objects that a game of War knows are TournamentPlayers.
RosterInv ==
  /\ heap \in Seq(Object)
  /\ DOMAIN players = Games
  /\ \A g \in WarGames : \A id \in DOMAIN players[g] :
       /\ players[g][id] \in 1..Len(heap)
       /\ heap[players[g][id]].class = "TournamentPlayer"

\* What an object that a game makes keeps of the one it is made of
LEMMA ConvertedIsObject ==
  ASSUME NEW object \in Object
  PROVE  /\ Roster!Converted(object) \in Object /\ Roster!Copied(object) \in Object
         /\ Roster!Converted(object).class = "TournamentPlayer"
BY DEF Object, Roster!Converted, Roster!Copied

\* Objects are never moved: a longer heap knows the players of every game.
LEMMA HeapGrows ==
  ASSUME RosterInv, NEW object \in Object, heap' = Append(heap, object), UNCHANGED players
  PROVE  RosterInv'
BY DEF RosterInv

\* A step of a game on a player, and addToCards
LEMMA ObjectChanges ==
  ASSUME RosterInv, NEW r \in 1..Len(heap), NEW object \in Object, object.class = heap[r].class,
         heap' = [heap EXCEPT ![r] = object], UNCHANGED players
  PROVE  RosterInv'
<1>1. heap' \in Seq(Object) /\ Len(heap') = Len(heap)
  BY DEF RosterInv
<1>2. \A q \in 1..Len(heap) : heap'[q].class = heap[q].class
  BY DEF RosterInv
<1>. QED BY <1>1, <1>2 DEF RosterInv

LEMMA GameStepKeeps ==
  ASSUME RosterInv, Roster!RosterAssumption, NEW g \in WarGames, NEW id \in DOMAIN players[g],
         Roster!Eliminates(g, id) \/ \E c \in RosterCards : Roster!Deals(g, id, c) \/ Roster!Draws(g, id, c)
  PROVE  /\ RosterInv'
         /\ \A r \in 1..Len(heap) : heap[r].class = "Player" => heap'[r] = heap[r]
<1>1. PICK r \in 1..Len(heap) : r = players[g][id] /\ heap[r].class = "TournamentPlayer"
  BY DEF RosterInv
<1>2. heap[r] \in Object /\ heap \in Seq(Object)
  BY <1>1 DEF RosterInv
<1>a. UNCHANGED players
  BY DEF Roster!Eliminates, Roster!Deals, Roster!Draws
<1>3. \E object \in Object : object.class = heap[r].class /\ heap' = [heap EXCEPT ![r] = object]
  <2>1. CASE Roster!Eliminates(g, id)
    <3>1. [heap[r] EXCEPT !.eliminated = TRUE] \in Object
      BY <1>2 DEF Object
    <3>2. heap' = [heap EXCEPT ![r] = [heap[r] EXCEPT !.eliminated = TRUE]]
      BY <1>1, <1>2, <2>1 DEF Roster!Eliminates
    <3>3. [heap[r] EXCEPT !.eliminated = TRUE].class = heap[r].class
      BY <1>2 DEF Object
    <3>. QED BY <3>1, <3>2, <3>3
  <2>2. ASSUME NEW c \in RosterCards, Roster!Deals(g, id, c)
        PROVE  \E object \in Object :
                 object.class = heap[r].class /\ heap' = [heap EXCEPT ![r] = object]
    <3>1. [heap[r] EXCEPT !.cards = @ \cup {c}] \in Object
      BY <1>2 DEF Object
    <3>2. heap' = [heap EXCEPT ![r] = [heap[r] EXCEPT !.cards = @ \cup {c}]]
      BY <1>1, <1>2, <2>2 DEF Roster!Deals
    <3>3. [heap[r] EXCEPT !.cards = @ \cup {c}].class = heap[r].class
      BY <1>2 DEF Object
    <3>. QED BY <3>1, <3>2, <3>3
  <2>3. ASSUME NEW c \in RosterCards, Roster!Draws(g, id, c)
        PROVE  \E object \in Object :
                 object.class = heap[r].class /\ heap' = [heap EXCEPT ![r] = object]
    <3>1. PICK fewer \in Object : fewer = [heap[r] EXCEPT !.cards = @ \ {c}]
      <4>1. [heap[r] EXCEPT !.cards = @ \ {c}] \in Object
        BY <1>2 DEF Object
      <4>. QED BY <4>1
    <3>2. PICK one \in Object : one = [fewer EXCEPT !.lastPlayedCard = {c}]
      <4>1. [fewer EXCEPT !.lastPlayedCard = {c}] \in Object
        BY DEF Object
      <4>. QED BY <4>1
    <3>3. one.class = heap[r].class
      BY <1>2, <3>1, <3>2 DEF Object
    <3>4. PICK h \in Seq(Object) : h = [heap EXCEPT ![r] = fewer]
      <4>1. [heap EXCEPT ![r] = fewer] \in Seq(Object)
        BY <1>2
      <4>. QED BY <4>1
    <3>5. heap' = [h EXCEPT ![r].lastPlayedCard = {c}]
      BY <1>1, <1>2, <2>3, <3>1, <3>4 DEF Roster!Draws
    <3>6. heap' = [heap EXCEPT ![r] = one]
      <4>1. h[r] = fewer /\ DOMAIN h = DOMAIN heap /\ r \in DOMAIN h
        BY <1>2, <3>4
      <4>2. heap' = [h EXCEPT ![r] = one]
        BY <3>2, <3>5, <4>1
      <4>. QED BY <3>4, <4>1, <4>2
    <3>. QED BY <3>3, <3>6
  <2>. QED BY <2>1, <2>2, <2>3
<1>4. PICK object \in Object : object.class = heap[r].class /\ heap' = [heap EXCEPT ![r] = object]
  BY <1>3
<1>5. RosterInv'
  BY <1>a, <1>4, ObjectChanges
<1>6. \A q \in 1..Len(heap) : q # r => heap'[q] = heap[q]
  BY <1>4 DEF RosterInv
<1>. QED BY <1>1, <1>5, <1>6

LEMMA ClientStepKeeps ==
  ASSUME RosterInv, Roster!RosterAssumption, Roster!ClientStep
  PROVE  RosterInv'
<1>1. ASSUME NEW class \in {"Player", "TournamentPlayer"}, Roster!NewPlayer(class)
      PROVE  RosterInv'
  <2>1. Len(heap) + 1 \in Nat
    BY DEF RosterInv
  <2>2. Roster!Fresh(class) \in Object
    BY <2>1 DEF Roster!Fresh, Object
  <2>. QED BY <1>1, <2>2, HeapGrows DEF Roster!NewPlayer
<1>2. ASSUME NEW r \in Roster!Objects, Roster!Copy(r)
      PROVE  RosterInv'
  <2>1. heap[r] \in Object
    BY DEF RosterInv, Roster!Objects
  <2>. QED BY <1>2, <2>1, ConvertedIsObject, HeapGrows DEF Roster!Copy
<1>3. ASSUME NEW r \in Roster!Objects, NEW c \in RosterCards, Roster!GivesCard(r, c)
      PROVE  RosterInv'
  <2>1. r \in 1..Len(heap) /\ heap[r] \in Object
    BY DEF RosterInv, Roster!Objects
  <2>2. PICK object \in Object : object = [heap[r] EXCEPT !.cards = @ \cup {c}]
    <3>1. [heap[r] EXCEPT !.cards = @ \cup {c}] \in Object
      BY <2>1 DEF Object
    <3>. QED BY <3>1
  <2>3. object.class = heap[r].class
    BY <2>1, <2>2 DEF Object
  <2>4. heap' = [heap EXCEPT ![r] = object] /\ UNCHANGED players
    BY <1>3, <2>1, <2>2 DEF Roster!GivesCard
  <2>. QED BY <2>1, <2>3, <2>4, ObjectChanges
<1>4. ASSUME NEW g \in Games, NEW r \in Roster!Objects, Roster!AddPlayer(g, r)
      PROVE  RosterInv'
  <2>1. r \in 1..Len(heap) /\ heap[r] \in Object
    BY DEF RosterInv, Roster!Objects
  <2>2. CASE g \in WarGames /\ heap[r].class # "TournamentPlayer"
    <3>1. PICK object \in Object : object = Roster!Converted(heap[r])
                                   /\ object.class = "TournamentPlayer"
      BY <2>1, ConvertedIsObject
    <3>2. /\ heap' = Append(heap, object)
          /\ players' = [players EXCEPT ![g] = Roster!Put(@, heap[r].id, Len(heap) + 1)]
      BY <1>4, <2>2, <3>1 DEF Roster!AddPlayer
    <3>3. /\ heap' \in Seq(Object) /\ Len(heap') = Len(heap) + 1
          /\ heap'[Len(heap) + 1] = object
          /\ \A q \in 1..Len(heap) : heap'[q] = heap[q]
      BY <3>2 DEF RosterInv
    <3>4. ASSUME NEW h \in WarGames, NEW id \in DOMAIN players'[h]
          PROVE  players'[h][id] \in 1..Len(heap') /\ heap'[players'[h][id]].class = "TournamentPlayer"
      <4>1. CASE h = g /\ id = heap[r].id
        BY <3>1, <3>2, <3>3, <4>1 DEF RosterInv, Roster!Put
      <4>2. CASE ~(h = g /\ id = heap[r].id)
        <5>1. id \in DOMAIN players[h] /\ players'[h][id] = players[h][id]
          BY <3>2, <3>4, <4>2 DEF RosterInv, Roster!Put
        <5>2. players[h][id] \in 1..Len(heap) /\ heap[players[h][id]].class = "TournamentPlayer"
          BY <5>1 DEF RosterInv
        <5>. QED BY <3>3, <5>1, <5>2 DEF RosterInv
      <4>. QED BY <4>1, <4>2
    <3>. QED BY <3>2, <3>3, <3>4 DEF RosterInv
  <2>3. CASE ~(g \in WarGames /\ heap[r].class # "TournamentPlayer")
    <3>1. /\ players' = [players EXCEPT ![g] = Roster!Put(@, heap[r].id, r)] /\ UNCHANGED heap
          /\ g \in WarGames => heap[r].class = "TournamentPlayer"
      BY <1>4, <2>3 DEF Roster!AddPlayer
    <3>2. ASSUME NEW h \in WarGames, NEW id \in DOMAIN players'[h]
          PROVE  players'[h][id] \in 1..Len(heap) /\ heap[players'[h][id]].class = "TournamentPlayer"
      <4>1. CASE h = g /\ id = heap[r].id
        BY <2>1, <3>1, <4>1 DEF RosterInv, Roster!Put
      <4>2. CASE ~(h = g /\ id = heap[r].id)
        <5>1. id \in DOMAIN players[h] /\ players'[h][id] = players[h][id]
          BY <3>1, <3>2, <4>2 DEF RosterInv, Roster!Put
        <5>. QED BY <5>1 DEF RosterInv
      <4>. QED BY <4>1, <4>2
    <3>. QED BY <3>1, <3>2 DEF RosterInv
  <2>. QED BY <2>2, <2>3
<1>5. ASSUME NEW g \in Games, NEW r \in Roster!Objects, NEW s \in Roster!Objects,
             Roster!WarWithPlayers(g, r, s)
      PROVE  RosterInv'
  <2>1. heap[r] \in Object /\ heap[s] \in Object
    BY DEF RosterInv, Roster!Objects
  <2>2. PICK one \in Object : one = Roster!Converted(heap[r]) /\ one.class = "TournamentPlayer"
    BY <2>1, ConvertedIsObject
  <2>3. PICK two \in Object : two = Roster!Converted(heap[s]) /\ two.class = "TournamentPlayer"
    BY <2>1, ConvertedIsObject
  <2>4. heap' = Append(Append(heap, one), two)
    BY <1>5, <2>2, <2>3 DEF Roster!WarWithPlayers
  <2>5. /\ heap' \in Seq(Object) /\ Len(heap') = Len(heap) + 2
        /\ heap'[Len(heap) + 1] = one /\ heap'[Len(heap) + 2] = two
        /\ \A q \in 1..Len(heap) : heap'[q] = heap[q]
    BY <2>4 DEF RosterInv
  <2>6. players' = [players EXCEPT ![g] =
          Roster!Added(heap[r].id, Len(heap) + 1, heap[s].id, Len(heap) + 2)]
    BY <1>5 DEF Roster!WarWithPlayers
  <2>7. ASSUME NEW h \in WarGames, NEW id \in DOMAIN players'[h]
        PROVE  players'[h][id] \in 1..Len(heap') /\ heap'[players'[h][id]].class = "TournamentPlayer"
    <3>1. CASE h = g
      <4>1. players'[h][id] \in {Len(heap) + 1, Len(heap) + 2}
        BY <2>6, <2>7, <3>1 DEF RosterInv, Roster!Put, Roster!Added
      <4>. QED BY <2>2, <2>3, <2>5, <4>1 DEF RosterInv
    <3>2. CASE h # g
      <4>1. id \in DOMAIN players[h] /\ players'[h][id] = players[h][id]
        BY <2>6, <2>7, <3>2 DEF RosterInv
      <4>2. players[h][id] \in 1..Len(heap) /\ heap[players[h][id]].class = "TournamentPlayer"
        BY <4>1 DEF RosterInv
      <4>. QED BY <2>5, <4>1, <4>2 DEF RosterInv
    <3>. QED BY <3>1, <3>2
  <2>. QED BY <2>5, <2>6, <2>7 DEF RosterInv
<1>6. ASSUME NEW g \in Games, NEW r \in Roster!Objects, NEW s \in Roster!Objects,
             Roster!GameWithPlayers(g, r, s)
      PROVE  RosterInv'
  <2>1. r \in 1..Len(heap) /\ s \in 1..Len(heap)
    BY DEF RosterInv, Roster!Objects
  <2>. QED BY <1>6, <2>1 DEF Roster!GameWithPlayers, RosterInv, Roster!Put, Roster!Added
<1>. QED BY <1>1, <1>2, <1>3, <1>4, <1>5, <1>6 DEF Roster!ClientStep

\* A game of War plays with objects of its own: whatever players clients make, copy, give
\* cards and add to any number of games, dealing, drawing and eliminating leave every
\* plain Player as it is.
THEOREM PlainPlayersAreSpared ==
  ASSUME Roster!RosterAssumption
  PROVE  Roster!Spec => Roster!PlayersAreNotPlayedWith
<1>1. Roster!Init => RosterInv
  <2>. SUFFICES ASSUME Roster!Init PROVE RosterInv
    OBVIOUS
  <2>1. \A g \in WarGames : DOMAIN players[g] = {}
    BY DEF Roster!Init, Roster!RosterAssumption
  <2>. QED BY <2>1 DEF Roster!Init, RosterInv
<1>2. RosterInv /\ [Roster!Next]_(Roster!vars) => RosterInv'
  <2>1. ASSUME RosterInv, Roster!GameStep PROVE RosterInv'
    BY <2>1, GameStepKeeps DEF Roster!GameStep
  <2>2. ASSUME RosterInv, UNCHANGED Roster!vars PROVE RosterInv'
    BY <2>2 DEF RosterInv, Roster!vars
  <2>. QED BY <2>1, <2>2, ClientStepKeeps DEF Roster!Next
<1>3. RosterInv /\ [Roster!Next]_(Roster!vars) => [Roster!OnlyOwnPlayers]_(Roster!vars)
  <2>1. ASSUME RosterInv PROVE Roster!OnlyOwnPlayers
    <3>1. ASSUME Roster!GameStep, NEW r \in Roster!Objects, heap[r].class = "Player"
          PROVE  heap'[r] = heap[r]
      <4>1. r \in 1..Len(heap)
        BY <2>1 DEF RosterInv, Roster!Objects
      <4>. QED BY <2>1, <3>1, <4>1, GameStepKeeps DEF Roster!GameStep
    <3>. QED BY <3>1 DEF Roster!OnlyOwnPlayers
  <2>. QED BY <2>1
<1>. QED BY <1>1, <1>2, <1>3, PTL DEF Roster!Spec, Roster!PlayersAreNotPlayedWith

===============================================================================

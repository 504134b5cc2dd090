------------------------------- MODULE DeckProofs -------------------------------
(***************************************************************************)
(* Theorems about Deck.                                                    *)
(***************************************************************************)
EXTENDS Deck, FiniteSetTheorems, SequenceTheorems, WellFoundedInduction, TLAPS

-------------------------------------------------------------------------------
(* The facts about numbers that the proofs rest on *)

\* Every set of natural numbers has a least one.  This is how statements about loops
\* and searches are proved for arrays of any length: by a least counterexample.
LEMMA LeastNumber ==
  ASSUME NEW S, S \subseteq Nat, S # {}
  PROVE  \E m \in S : \A k \in S : m <= k
<1>. DEFINE less == {pair \in Nat \X Nat : pair[1] < pair[2]}
<1>1. IsWellFoundedOn(less, Nat)
  BY NatLessThanWellFounded DEF OpToRel
<1>2. PICK m \in S : \A k \in S : ~(<<k, m>> \in less)
  <2>. HIDE DEF less
  <2>. QED  BY <1>1, WFMin
<1>3. ASSUME NEW k \in S PROVE m <= k
  <2>1. k \in Nat /\ m \in Nat /\ <<k, m>> \in Nat \X Nat /\ ~(<<k, m>> \in less)
    BY <1>2
  <2>2. ~(k < m)
    BY <2>1
  <2>. QED  BY <2>1, <2>2
<1>. QED  BY <1>3

LEMMA MinOfTwo ==
  ASSUME NEW a \in Int, NEW b \in Int
  PROVE  Min({a, b}) = IF a <= b THEN a ELSE b
BY DEF Min

LEMMA MaxOfTwo ==
  ASSUME NEW a \in Int, NEW b \in Int
  PROVE  Max({a, b}) = IF a >= b THEN a ELSE b
BY DEF Max

\* Quotient and remainder exist, and are unique.
LEMMA Division ==
  ASSUME NEW d \in Nat \ {0}, NEW k \in Nat
  PROVE  /\ k \div d \in Nat /\ k % d \in 0..(d - 1)
         /\ k = d * (k \div d) + (k % d)
OBVIOUS

LEMMA DivisionUnique ==
  ASSUME NEW d \in Nat \ {0}, NEW q \in Nat, NEW r \in 0..(d - 1)
  PROVE  (d * q + r) \div d = q /\ (d * q + r) % d = r
<1>. DEFINE k == d * q + r
<1>0. k \in Nat
  OBVIOUS
<1>1. /\ k \div d \in Nat /\ k % d \in 0..(d - 1)
      /\ k = d * (k \div d) + (k % d)
  BY <1>0, Division
<1>. DEFINE p == k \div d
            s == k % d
<1>2. d * q + r = d * p + s /\ p \in Nat /\ s \in 0..(d - 1)
  BY <1>1
<1>. HIDE DEF p, s
<1>3. ~(p < q)
  <2>1. SUFFICES ASSUME p < q PROVE FALSE
    OBVIOUS
  <2>2. PICK e \in Nat : q = p + 1 + e
    <3>1. q - p - 1 \in Nat /\ q = p + 1 + (q - p - 1)
      BY <1>2, <2>1
    <3>. QED BY <3>1
  <2>3. d * q = d * p + d + d * e
    BY <2>2, <1>2
  <2>4. d * e >= 0 /\ d * e \in Int /\ d * p \in Int
    BY <1>2
  <2>. QED BY <2>3, <2>4, <1>2
<1>4. ~(q < p)
  <2>1. SUFFICES ASSUME q < p PROVE FALSE
    OBVIOUS
  <2>2. PICK e \in Nat : p = q + 1 + e
    <3>1. p - q - 1 \in Nat /\ p = q + 1 + (p - q - 1)
      BY <1>2, <2>1
    <3>. QED BY <3>1
  <2>3. d * p = d * q + d + d * e
    BY <2>2, <1>2
  <2>4. d * e >= 0 /\ d * e \in Int /\ d * q \in Int
    BY <1>2
  <2>. QED BY <2>3, <2>4, <1>2
<1>5. p = q
  BY <1>2, <1>3, <1>4
<1>6. s = r
  BY <1>2, <1>5
<1>. QED BY <1>5, <1>6 DEF p, s
\* The three digits of a number below n times A times B: two of radix A and B, and the
\* rest.  They determine it, and all combinations occur.
Positional(A, B, n) ==
  /\ \A k \in 0..(n * (A * B) - 1) :
       /\ k % A \in 0..(A - 1) /\ (k \div A) % B \in 0..(B - 1)
       /\ k \div (A * B) \in 0..(n - 1)
  /\ \A k, l \in Nat :
       /\ k % A = l % A /\ (k \div A) % B = (l \div A) % B
       /\ k \div (A * B) = l \div (A * B)
       => k = l
  /\ \A a \in 0..(A - 1), b \in 0..(B - 1), c \in 0..(n - 1) :
       \E k \in 0..(n * (A * B) - 1) :
         k % A = a /\ (k \div A) % B = b /\ k \div (A * B) = c

LEMMA Digits ==
  ASSUME NEW A \in Nat \ {0}, NEW B \in Nat \ {0}, NEW n \in Nat
  PROVE  Positional(A, B, n)
<1>. DEFINE Has(k, a, b, c) == k = A * (B * c + b) + a
<1>0. A * B \in Nat \ {0}
  OBVIOUS
<1>1. ASSUME NEW a \in 0..(A - 1), NEW b \in 0..(B - 1), NEW c \in Nat,
             NEW k, Has(k, a, b, c)
      PROVE  /\ k \in Nat /\ k = (A * B) * c + (A * b + a) /\ A * b + a \in 0..(A * B - 1)
             /\ k % A = a /\ (k \div A) % B = b /\ k \div (A * B) = c
  <2>. DEFINE q == B * c + b
              r == A * b + a
  <2>1. q \in Nat /\ k \in Nat /\ r \in Nat /\ k = A * q + a
    BY <1>1
  <2>2. k \div A = q /\ k % A = a
    <3>. HIDE DEF q
    <3>. QED  BY <2>1, DivisionUnique
  <2>3. q % B = b
    BY DivisionUnique
  <2>4. k = (A * B) * c + r
    BY <1>1
  <2>5. r \in 0..(A * B - 1)
    <3>1. PICK e \in Nat : B = b + 1 + e
      <4>1. B - b - 1 \in Nat /\ B = b + 1 + (B - b - 1)
        OBVIOUS
      <4>. QED  BY <4>1
    <3>2. A * B = A * b + A + A * e
      BY <3>1
    <3>3. A * e >= 0 /\ A * e \in Int /\ A * b \in Int
      BY <3>1
    <3>. QED  BY <2>1, <3>2, <3>3
  <2>6. k \div (A * B) = c
    <3>1. ((A * B) * c + r) \div (A * B) = c
      <4>. HIDE DEF r
      <4>. QED  BY <1>0, <2>5, DivisionUnique
    <3>. QED  BY <2>4, <3>1
  <2>. QED  BY <2>1, <2>2, <2>3, <2>4, <2>5, <2>6
<1>2. ASSUME NEW k \in Nat
      PROVE  \E a \in 0..(A - 1), b \in 0..(B - 1), c \in Nat : Has(k, a, b, c)
  <2>1. /\ k \div A \in Nat /\ k % A \in 0..(A - 1) /\ k = A * (k \div A) + (k % A)
    BY Division
  <2>. DEFINE q == k \div A
  <2>2. /\ q \div B \in Nat /\ q % B \in 0..(B - 1) /\ q = B * (q \div B) + (q % B)
    <3>. HIDE DEF q
    <3>1. q \in Nat
      BY <2>1 DEF q
    <3>. QED  BY <3>1, Division
  <2>. QED  BY <2>1, <2>2
<1>3. ASSUME NEW k \in 0..(n * (A * B) - 1)
      PROVE  /\ k % A \in 0..(A - 1) /\ (k \div A) % B \in 0..(B - 1)
             /\ k \div (A * B) \in 0..(n - 1)
  <2>1. k \in Nat
    BY <1>0
  <2>2. PICK a \in 0..(A - 1), b \in 0..(B - 1), c \in Nat : Has(k, a, b, c)
    BY <1>2, <2>1
  <2>3. /\ k = (A * B) * c + (A * b + a) /\ A * b + a \in 0..(A * B - 1)
        /\ k % A = a /\ (k \div A) % B = b /\ k \div (A * B) = c
    <3>. HIDE DEF Has
    <3>. QED  BY <1>1, <2>2
  <2>4. c < n
    <3>1. SUFFICES ASSUME c >= n PROVE FALSE
      BY <2>2
    <3>2. PICK e \in Nat : c = n + e
      <4>1. c - n \in Nat /\ c = n + (c - n)
        BY <3>1, <2>2
      <4>. QED  BY <4>1
    <3>. DEFINE D == A * B
    <3>3. D * c = n * D + D * e /\ D * e >= 0 /\ D * c \in Int /\ n * D \in Int
      <4>1. D \in Nat
        BY <1>0
      <4>. HIDE DEF D
      <4>. QED  BY <3>2, <4>1
    <3>4. k >= D * c /\ k < n * D /\ D * e \in Int
      BY <2>3, <2>2, <1>0, <3>2
    <3>. QED  BY <3>3, <3>4
  <2>. QED  BY <2>2, <2>3, <2>4
<1>4. ASSUME NEW k \in Nat, NEW l \in Nat,
             k % A = l % A, (k \div A) % B = (l \div A) % B, k \div (A * B) = l \div (A * B)
      PROVE  k = l
  <2>1. PICK a \in 0..(A - 1), b \in 0..(B - 1), c \in Nat : Has(k, a, b, c)
    BY <1>2
  <2>2. PICK f \in 0..(A - 1), g \in 0..(B - 1), h \in Nat : Has(l, f, g, h)
    BY <1>2
  <2>3. k % A = a /\ (k \div A) % B = b /\ k \div (A * B) = c
    <3>. HIDE DEF Has
    <3>. QED  BY <1>1, <2>1
  <2>4. l % A = f /\ (l \div A) % B = g /\ l \div (A * B) = h
    <3>. HIDE DEF Has
    <3>. QED  BY <1>1, <2>2
  <2>. QED  BY <1>4, <2>1, <2>2, <2>3, <2>4
<1>5. ASSUME NEW a \in 0..(A - 1), NEW b \in 0..(B - 1), NEW c \in 0..(n - 1)
      PROVE  \E k \in 0..(n * (A * B) - 1) :
               k % A = a /\ (k \div A) % B = b /\ k \div (A * B) = c
  <2>. DEFINE k == A * (B * c + b) + a
              D == A * B
  <2>1. /\ k \in Nat /\ k = D * c + (A * b + a) /\ A * b + a \in 0..(D - 1)
        /\ k % A = a /\ (k \div A) % B = b /\ k \div (A * B) = c
    <3>1. c \in Nat /\ Has(k, a, b, c)
      OBVIOUS
    <3>. HIDE DEF k, Has
    <3>. QED  BY <1>1, <3>1
  <2>2. k < n * D
    <3>1. PICK e \in Nat : n = c + 1 + e
      <4>1. n - c - 1 \in Nat /\ n = c + 1 + (n - c - 1)
        OBVIOUS
      <4>. QED  BY <4>1
    <3>2. D \in Nat
      BY <1>0
    <3>3. n * D = D * c + D + D * e /\ D * e >= 0 /\ D * c \in Int /\ D * e \in Int
      <4>. HIDE DEF D
      <4>. QED  BY <3>1, <3>2
    <3>. HIDE DEF D, k
    <3>. QED  BY <2>1, <3>2, <3>3
  <2>3. k \in 0..(n * (A * B) - 1)
    <3>1. n * D \in Int
      BY <1>0
    <3>. HIDE DEF k
    <3>. QED  BY <2>1, <2>2, <3>1
  <2>. HIDE DEF k
  <2>. QED  BY <2>1, <2>3
<1>. QED  BY <1>3, <1>4, <1>5 DEF Positional

-------------------------------------------------------------------------------
(* Decks that are made *)

\* A sequence that has every card of a set once.
Lists(s, S) ==
  /\ s \in Seq(S)
  /\ \A i, j \in DOMAIN s : s[i] = s[j] => i = j
  /\ \A c \in S : \E i \in DOMAIN s : s[i] = c

\* Loops that number the cards by suit, rank and copy, each combination once, make a
\* complete deck.
Numbering(suit, rank, copy, N, n) ==
  /\ suit \in [0..(N - 1) -> 0..(NumSuits - 1)]
  /\ rank \in [0..(N - 1) -> 0..(NumRanks - 1)]
  /\ copy \in [0..(N - 1) -> 0..(n - 1)]
  /\ \A k, l \in 0..(N - 1) :
       suit[k] = suit[l] /\ rank[k] = rank[l] /\ copy[k] = copy[l] => k = l
  /\ \A a \in 0..(NumSuits - 1), b \in 0..(NumRanks - 1), c \in 0..(n - 1) :
       \E k \in 0..(N - 1) : suit[k] = a /\ rank[k] = b /\ copy[k] = c

LEMMA NumberedIsComplete ==
  ASSUME NEW n \in Nat, NEW N \in Nat, NEW suit, NEW rank, NEW copy,
         Numbering(suit, rank, copy, N, n),
         NEW s,
         s = [i \in 1..N |-> [suit |-> 1 + suit[i - 1], rank |-> 2 + rank[i - 1],
                              copy |-> 1 + copy[i - 1]]]
  PROVE  Lists(s, CardsOf(n))
<1>1. NumSuits \in Nat \ {0} /\ NumRanks \in Nat \ {0}
  BY CardAssumption
<1>a. /\ \A x \in 0..(NumSuits - 1) : x \in Int /\ 1 + x \in 1..NumSuits
      /\ \A x \in 0..(NumRanks - 1) : x \in Int /\ 2 + x \in 2..(NumRanks + 1)
      /\ \A x \in 0..(n - 1) : x \in Int /\ 1 + x \in 1..n
  BY <1>1
<1>b. \A x, y \in Int : (1 + x = 1 + y => x = y) /\ (2 + x = 2 + y => x = y)
  OBVIOUS
<1>2. \A i \in 1..N :
        /\ i - 1 \in 0..(N - 1) /\ suit[i - 1] \in 0..(NumSuits - 1)
        /\ rank[i - 1] \in 0..(NumRanks - 1) /\ copy[i - 1] \in 0..(n - 1)
  BY DEF Numbering
<1>3. ASSUME NEW i \in 1..N PROVE s[i] \in CardsOf(n)
  <2>1. s[i] = [suit |-> 1 + suit[i - 1], rank |-> 2 + rank[i - 1], copy |-> 1 + copy[i - 1]]
    OBVIOUS
  <2>2. /\ 1 + suit[i - 1] \in 1..NumSuits /\ 2 + rank[i - 1] \in 2..(NumRanks + 1)
        /\ 1 + copy[i - 1] \in 1..n
    BY <1>a, <1>2
  <2>. QED  BY <2>1, <2>2 DEF CardsOf, Suits, Ranks
<1>4. s \in Seq(CardsOf(n)) /\ DOMAIN s = 1..N
  BY <1>3
<1>5. ASSUME NEW i \in 1..N, NEW j \in 1..N, s[i] = s[j] PROVE i = j
  <2>0. /\ s[i].suit = 1 + suit[i - 1] /\ s[j].suit = 1 + suit[j - 1]
        /\ s[i].rank = 2 + rank[i - 1] /\ s[j].rank = 2 + rank[j - 1]
        /\ s[i].copy = 1 + copy[i - 1] /\ s[j].copy = 1 + copy[j - 1]
    OBVIOUS
  <2>1. /\ 1 + suit[i - 1] = 1 + suit[j - 1] /\ 2 + rank[i - 1] = 2 + rank[j - 1]
        /\ 1 + copy[i - 1] = 1 + copy[j - 1]
    BY <1>5, <2>0
  <2>2. suit[i - 1] = suit[j - 1] /\ rank[i - 1] = rank[j - 1] /\ copy[i - 1] = copy[j - 1]
    <3>1. /\ suit[i - 1] \in Int /\ suit[j - 1] \in Int /\ rank[i - 1] \in Int
          /\ rank[j - 1] \in Int /\ copy[i - 1] \in Int /\ copy[j - 1] \in Int
      BY <1>a, <1>2
    <3>. QED  BY <1>b, <2>1, <3>1
  <2>3. i - 1 = j - 1
    BY <1>2, <2>2 DEF Numbering
  <2>. QED  BY <2>3
<1>6. ASSUME NEW c \in CardsOf(n) PROVE \E i \in 1..N : s[i] = c
  <2>1. /\ c.suit - 1 \in 0..(NumSuits - 1) /\ c.rank - 2 \in 0..(NumRanks - 1)
        /\ c.copy - 1 \in 0..(n - 1)
        /\ c = [suit |-> 1 + (c.suit - 1), rank |-> 2 + (c.rank - 2), copy |-> 1 + (c.copy - 1)]
    <3>1. /\ c = [suit |-> c.suit, rank |-> c.rank, copy |-> c.copy]
          /\ c.suit \in 1..NumSuits /\ c.rank \in 2..(NumRanks + 1) /\ c.copy \in 1..n
      BY DEF CardsOf, Suits, Ranks
    <3>2. /\ c.suit = 1 + (c.suit - 1) /\ c.rank = 2 + (c.rank - 2)
          /\ c.copy = 1 + (c.copy - 1)
      BY <1>1, <3>1
    <3>3. /\ c.suit - 1 \in 0..(NumSuits - 1) /\ c.rank - 2 \in 0..(NumRanks - 1)
          /\ c.copy - 1 \in 0..(n - 1)
      BY <1>1, <3>1
    <3>. QED  BY <3>1, <3>2, <3>3
  <2>2. PICK k \in 0..(N - 1) :
          suit[k] = c.suit - 1 /\ rank[k] = c.rank - 2 /\ copy[k] = c.copy - 1
    BY <2>1 DEF Numbering
  <2>3. k + 1 \in 1..N /\ (k + 1) - 1 = k
    OBVIOUS
  <2>4. s[k + 1] = c
    BY <2>1, <2>2, <2>3
  <2>. QED  BY <2>3, <2>4
<1>. QED  BY <1>4, <1>5, <1>6 DEF Lists

\* The nested loops of createDeck make every card once, in either order.
LEMMA CreatedIsComplete ==
  ASSUME NEW n \in Nat
  PROVE  Lists(createDeck(n), CardsOf(n)) /\ Lists(staticCreateDeck(n), CardsOf(n))
<1>. DEFINE D == NumSuits * NumRanks
            N == n * D
<1>1. NumSuits \in Nat \ {0} /\ NumRanks \in Nat \ {0}
  BY CardAssumption
<1>2. N \in Nat /\ D = NumRanks * NumSuits
  BY <1>1
<1>3. Positional(NumSuits, NumRanks, n) /\ Positional(NumRanks, NumSuits, n)
  BY <1>1, Digits
<1>4. \A i \in 1..N : i - 1 \in 0..(N - 1)
  BY <1>2
<1>5. 0..(N - 1) \subseteq Nat
  BY <1>2
<1>6. Lists(createDeck(n), CardsOf(n))
  <2>. DEFINE suit == [k \in 0..(N - 1) |-> k % NumSuits]
              rank == [k \in 0..(N - 1) |-> (k \div NumSuits) % NumRanks]
              copy == [k \in 0..(N - 1) |-> k \div D]
  <2>1. createDeck(n) = [i \in 1..N |-> [suit |-> 1 + suit[i - 1], rank |-> 2 + rank[i - 1],
                                         copy |-> 1 + copy[i - 1]]]
    <3>. HIDE DEF N, D
    <3>1. createDeck(n) = [i \in 1..N |-> [suit |-> 1 + ((i - 1) % NumSuits),
                             rank |-> 2 + (((i - 1) \div NumSuits) % NumRanks),
                             copy |-> 1 + ((i - 1) \div D)]]
      BY DEF createDeck, defaultDeckSize, N, D
    <3>. QED  BY <1>4, <3>1
  <2>2. \A k \in 0..(N - 1) : /\ suit[k] \in 0..(NumSuits - 1)
                               /\ rank[k] \in 0..(NumRanks - 1) /\ copy[k] \in 0..(n - 1)
    BY <1>3 DEF Positional
  <2>3. \A k, l \in 0..(N - 1) :
          suit[k] = suit[l] /\ rank[k] = rank[l] /\ copy[k] = copy[l] => k = l
    BY <1>3, <1>5 DEF Positional
  <2>4. \A a \in 0..(NumSuits - 1), b \in 0..(NumRanks - 1), c \in 0..(n - 1) :
          \E k \in 0..(N - 1) : suit[k] = a /\ rank[k] = b /\ copy[k] = c
    BY <1>3 DEF Positional
  <2>5. /\ suit \in [0..(N - 1) -> 0..(NumSuits - 1)]
        /\ rank \in [0..(N - 1) -> 0..(NumRanks - 1)] /\ copy \in [0..(N - 1) -> 0..(n - 1)]
    BY <2>2
  <2>. HIDE DEF suit, rank, copy, N
  <2>6. Numbering(suit, rank, copy, N, n)
    BY <2>3, <2>4, <2>5 DEF Numbering
  <2>7. N \in Nat
    BY <1>2
  <2>. HIDE DEF D
  <2>8. ASSUME NEW s, s = [i \in 1..N |-> [suit |-> 1 + suit[i - 1], rank |-> 2 + rank[i - 1],
                                           copy |-> 1 + copy[i - 1]]]
        PROVE  Lists(s, CardsOf(n))
    BY <2>6, <2>7, <2>8, NumberedIsComplete
  <2>. QED  BY <2>1, <2>8
<1>7. Lists(staticCreateDeck(n), CardsOf(n))
  <2>. DEFINE suit == [k \in 0..(N - 1) |-> (k \div NumRanks) % NumSuits]
              rank == [k \in 0..(N - 1) |-> k % NumRanks]
              copy == [k \in 0..(N - 1) |-> k \div D]
  <2>0. Positional(NumRanks, NumSuits, n) /\ NumRanks * NumSuits = D
    BY <1>2, <1>3
  <2>1. staticCreateDeck(n) =
          [i \in 1..N |-> [suit |-> 1 + suit[i - 1], rank |-> 2 + rank[i - 1],
                           copy |-> 1 + copy[i - 1]]]
    <3>. HIDE DEF N, D
    <3>1. staticCreateDeck(n) = [i \in 1..N |->
                                  [suit |-> 1 + (((i - 1) \div NumRanks) % NumSuits),
                                   rank |-> 2 + ((i - 1) % NumRanks),
                                   copy |-> 1 + ((i - 1) \div D)]]
      BY DEF staticCreateDeck, defaultDeckSize, N, D
    <3>. QED  BY <1>4, <3>1
  <2>. HIDE DEF D
  <2>2. \A k \in 0..(N - 1) : /\ suit[k] \in 0..(NumSuits - 1)
                               /\ rank[k] \in 0..(NumRanks - 1) /\ copy[k] \in 0..(n - 1)
    BY <2>0 DEF Positional
  <2>3. \A k, l \in 0..(N - 1) :
          suit[k] = suit[l] /\ rank[k] = rank[l] /\ copy[k] = copy[l] => k = l
    BY <2>0, <1>5 DEF Positional
  <2>4. \A a \in 0..(NumSuits - 1), b \in 0..(NumRanks - 1), c \in 0..(n - 1) :
          \E k \in 0..(N - 1) : suit[k] = a /\ rank[k] = b /\ copy[k] = c
    BY <2>0 DEF Positional
  <2>5. /\ suit \in [0..(N - 1) -> 0..(NumSuits - 1)]
        /\ rank \in [0..(N - 1) -> 0..(NumRanks - 1)] /\ copy \in [0..(N - 1) -> 0..(n - 1)]
    BY <2>2
  <2>. HIDE DEF suit, rank, copy, N
  <2>6. Numbering(suit, rank, copy, N, n)
    BY <2>3, <2>4, <2>5 DEF Numbering
  <2>7. N \in Nat
    BY <1>2
  <2>. HIDE DEF D
  <2>8. ASSUME NEW s, s = [i \in 1..N |-> [suit |-> 1 + suit[i - 1], rank |-> 2 + rank[i - 1],
                                           copy |-> 1 + copy[i - 1]]]
        PROVE  Lists(s, CardsOf(n))
    BY <2>6, <2>7, <2>8, NumberedIsComplete
  <2>. QED  BY <2>1, <2>8
<1>. QED  BY <1>6, <1>7

-------------------------------------------------------------------------------
(* The loops over an array *)

\* Array.firstIndex(of:) finds an index of an array, wherever the card is in it.
LEMMA FirstIndexExists ==
  ASSUME NEW s, NEW n \in Nat, DOMAIN s = 1..n, NEW i \in 1..n
  PROVE  FirstIndexOf(s[i], s) \in 1..n
<1>. DEFINE same == {j \in 1..n : SameCard(s[j], s[i])}
<1>1. i \in same /\ same \subseteq Nat
  BY DEF SameCard
<1>2. PICK m \in same : \A j \in same : m <= j
  <2>. HIDE DEF same
  <2>. QED  BY <1>1, LeastNumber
<1>3. m \in 1..n /\ SameCard(s[m], s[i]) /\ \A j \in 1..(m - 1) : ~SameCard(s[j], s[i])
  <2>1. m \in 1..n /\ SameCard(s[m], s[i])
    BY <1>2
  <2>2. ASSUME NEW j \in 1..(m - 1), SameCard(s[j], s[i]) PROVE FALSE
    <3>1. j \in 1..n /\ ~(m <= j)
      BY <2>1
    <3>. QED  BY <1>2, <2>2, <3>1
  <2>. QED  BY <2>1, <2>2
<1>. QED  BY <1>3 DEF FirstIndexOf

\* The loop of determineHighestRank, as a function of the iterations done.
IsHighest(h, s, n) ==
  h = [i \in 0..n |-> IF i = 0 THEN 2 ELSE IF h[i - 1] < s[i].rank THEN s[i].rank
                                                                    ELSE h[i - 1]]

LEMMA HighestExists ==
  ASSUME NEW s, NEW n \in Nat
  PROVE  \E h : IsHighest(h, s, n)
<1>. DEFINE undone == {m \in Nat : ~\E h : IsHighest(h, s, m)}
<1>1. SUFFICES ASSUME undone # {} PROVE FALSE
  OBVIOUS
<1>2. PICK m \in undone : \A k \in undone : m <= k
  <2>1. undone \subseteq Nat
    OBVIOUS
  <2>. HIDE DEF undone
  <2>. QED  BY <1>1, <2>1, LeastNumber
<1>3. m \in Nat /\ ~\E h : IsHighest(h, s, m)
  BY <1>2
<1>4. CASE m = 0
  <2>. DEFINE h == [i \in 0..0 |-> 2]
  <2>1. IsHighest(h, s, 0)
    BY DEF IsHighest
  <2>. QED  BY <1>3, <1>4, <2>1
<1>5. CASE m # 0
  <2>1. m - 1 \in Nat /\ ~(m <= m - 1)
    BY <1>3, <1>5
  <2>2. PICK g : IsHighest(g, s, m - 1)
    BY <1>2, <2>1
  <2>3. /\ \A i \in 0..(m - 1) : g[i] = IF i = 0 THEN 2
                                   ELSE IF g[i - 1] < s[i].rank THEN s[i].rank ELSE g[i - 1]
    BY <2>2 DEF IsHighest
  <2>. DEFINE last == IF g[m - 1] < s[m].rank THEN s[m].rank ELSE g[m - 1]
              h == [i \in 0..m |-> IF i = m THEN last ELSE g[i]]
  <2>4. ASSUME NEW i \in 0..m
        PROVE  h[i] = IF i = 0 THEN 2 ELSE IF h[i - 1] < s[i].rank THEN s[i].rank ELSE h[i - 1]
    <3>1. CASE i = 0
      BY <1>5, <2>1, <2>3, <3>1
    <3>2. CASE i # 0
      <4>1. i - 1 \in 0..m /\ i - 1 # m /\ h[i - 1] = g[i - 1]
        BY <1>3, <3>2
      <4>2. CASE i = m
        BY <1>5, <4>1, <4>2
      <4>3. CASE i # m
        <5>1. i \in 0..(m - 1) /\ h[i] = g[i]
          BY <1>3, <4>3
        <5>. QED  BY <2>3, <3>2, <4>1, <5>1
      <4>. QED  BY <4>2, <4>3
    <3>. QED  BY <3>1, <3>2
  <2>5. h = [i \in 0..m |-> IF i = 0 THEN 2 ELSE IF h[i - 1] < s[i].rank THEN s[i].rank
                                                                         ELSE h[i - 1]]
    <3>1. h = [i \in 0..m |-> h[i]]
      OBVIOUS
    <3>. HIDE DEF h
    <3>. QED  BY <2>4, <3>1
  <2>6. IsHighest(h, s, m)
    <3>. HIDE DEF h
    <3>. QED  BY <2>5 DEF IsHighest
  <2>. QED  BY <1>3, <2>6
<1>. QED  BY <1>4, <1>5

\* After i iterations highest is the greatest rank of the first i cards, or two.
LEMMA HighestSoFar ==
  ASSUME NEW s, NEW n \in Nat, \A i \in 1..n : s[i].rank \in Int,
         NEW h, IsHighest(h, s, n)
  PROVE  \A i \in 0..n :
           /\ h[i] \in Int /\ (h[i] = 2 \/ \E j \in 1..i : h[i] = s[j].rank)
           /\ \A j \in 1..i : s[j].rank <= h[i]
<1>. DEFINE Good(i) == /\ h[i] \in Int /\ (h[i] = 2 \/ \E j \in 1..i : h[i] = s[j].rank)
                       /\ \A j \in 1..i : s[j].rank <= h[i]
            bad == {i \in 0..n : ~Good(i)}
<1>0. \A i \in 0..n : h[i] = IF i = 0 THEN 2
                             ELSE IF h[i - 1] < s[i].rank THEN s[i].rank ELSE h[i - 1]
  BY DEF IsHighest
<1>1. SUFFICES ASSUME bad # {} PROVE FALSE
  OBVIOUS
<1>2. PICK m \in bad : \A k \in bad : m <= k
  <2>1. bad \subseteq Nat
    OBVIOUS
  <2>. HIDE DEF bad
  <2>. QED  BY <1>1, <2>1, LeastNumber
<1>3. m \in 0..n /\ ~Good(m)
  BY <1>2
<1>4. m # 0
  <2>1. SUFFICES ASSUME m = 0 PROVE Good(0)
    BY <1>3
  <2>. QED  BY <1>0
<1>5. m - 1 \in 0..n /\ m \in 1..n /\ ~(m <= m - 1)
  BY <1>3, <1>4
<1>6. Good(m - 1)
  <2>. HIDE DEF Good
  <2>. QED  BY <1>2, <1>5
<1>7. h[m] = IF h[m - 1] < s[m].rank THEN s[m].rank ELSE h[m - 1]
  BY <1>0, <1>3, <1>4
<1>8. s[m].rank \in Int /\ \A j \in 1..m : j = m \/ j \in 1..(m - 1)
  BY <1>5
<1>9. Good(m)
  <2>1. CASE h[m - 1] < s[m].rank
    <3>1. h[m] = s[m].rank
      BY <1>7, <2>1
    <3>2. \A j \in 1..(m - 1) : j \in 1..n
      BY <1>5
    <3>3. \A j \in 1..m : s[j].rank <= h[m]
      BY <1>6, <1>8, <2>1, <3>1, <3>2
    <3>. QED  BY <1>5, <1>8, <3>1, <3>3
  <2>2. CASE ~(h[m - 1] < s[m].rank)
    <3>1. h[m] = h[m - 1]
      BY <1>7, <2>2
    <3>2. \A j \in 1..m : s[j].rank <= h[m]
      BY <1>6, <1>8, <2>2, <3>1
    <3>3. \A j \in 1..(m - 1) : j \in 1..m
      BY <1>5
    <3>. QED  BY <1>6, <3>1, <3>2, <3>3
  <2>. QED  BY <2>1, <2>2
<1>. QED  BY <1>3, <1>9

\* determineHighestRank returns the greatest rank of an array that is not empty.
LEMMA HighestIsMax ==
  ASSUME NEW s, NEW n \in Nat, n > 0, DOMAIN s = 1..n, n = Len(s),
         \A i \in 1..n : s[i].rank \in Int /\ s[i].rank >= 2
  PROVE  determineHighestRank(s) = Max({s[i].rank : i \in DOMAIN s})
<1>. DEFINE h == CHOOSE h : IsHighest(h, s, Len(s))
            ranks == {s[i].rank : i \in DOMAIN s}
<1>1. IsHighest(h, s, n)
  BY HighestExists
<1>2. determineHighestRank(s) = h[Len(s)]
  BY DEF determineHighestRank, IsHighest
<1>. HIDE DEF h
<1>3. /\ h[n] \in Int /\ (h[n] = 2 \/ \E j \in 1..n : h[n] = s[j].rank)
      /\ \A j \in 1..n : s[j].rank <= h[n]
  BY <1>1, HighestSoFar
<1>4. h[n] \in ranks
  <2>1. CASE h[n] = 2
    <3>1. 1 \in 1..n /\ s[1].rank <= 2 /\ s[1].rank \in Int /\ s[1].rank >= 2
      BY <1>3, <2>1
    <3>2. s[1].rank = 2
      BY <3>1
    <3>. QED  BY <2>1, <3>1, <3>2
  <2>. QED  BY <1>3, <2>1
<1>5. \A y \in ranks : y \in Int /\ h[n] >= y
  BY <1>3
<1>. HIDE DEF ranks
<1>6. ASSUME NEW x \in ranks, \A y \in ranks : x >= y PROVE x = h[n]
  BY <1>3, <1>4, <1>5, <1>6
<1>7. Max(ranks) = h[n]
  BY <1>4, <1>5, <1>6 DEF Max
<1>. QED  BY <1>2, <1>7 DEF ranks

-------------------------------------------------------------------------------
(* Moving cards between two arrays *)

LEMMA ConcatParts ==
  ASSUME NEW S, NEW d \in Seq(S), NEW t \in Seq(S)
  PROVE  /\ IsInjective(d \o t) <=>
              /\ IsInjective(d) /\ IsInjective(t)
              /\ \A i \in DOMAIN d, j \in DOMAIN t : d[i] # t[j]
         /\ ToSet(d \o t) = ToSet(d) \cup ToSet(t)
<1>. DEFINE m == Len(d)
            n == Len(t)
            u == d \o t
<1>1. /\ m \in Nat /\ n \in Nat /\ DOMAIN d = 1..m /\ DOMAIN t = 1..n
  BY LenProperties
<1>2. /\ u \in Seq(S) /\ Len(u) = m + n
      /\ \A i \in 1..(m + n) : u[i] = IF i <= m THEN d[i] ELSE t[i - m]
  BY ConcatProperties
<1>3. DOMAIN u = 1..(m + n)
  BY <1>2, LenProperties
<1>. HIDE DEF u, m, n
<1>4. \A i \in 1..m : i \in 1..(m + n) /\ u[i] = d[i]
  BY <1>1, <1>2
<1>5. \A j \in 1..n : m + j \in 1..(m + n) /\ u[m + j] = t[j]
  <2>. SUFFICES ASSUME NEW j \in 1..n PROVE m + j \in 1..(m + n) /\ u[m + j] = t[j]
    OBVIOUS
  <2>1. m + j \in 1..(m + n) /\ ~(m + j <= m) /\ (m + j) - m = j
    BY <1>1
  <2>. QED  BY <1>2, <2>1
<1>6. \A i \in 1..(m + n) : i \in 1..m \/ \E j \in 1..n : i = m + j
  <2>. SUFFICES ASSUME NEW i \in 1..(m + n), i \notin 1..m PROVE \E j \in 1..n : i = m + j
    OBVIOUS
  <2>1. i - m \in 1..n /\ i = m + (i - m)
    BY <1>1
  <2>. QED  BY <2>1
<1>7. ToSet(u) = ToSet(d) \cup ToSet(t)
  <2>1. ASSUME NEW x \in ToSet(u) PROVE x \in ToSet(d) \cup ToSet(t)
    <3>1. PICK i \in 1..(m + n) : x = u[i]
      BY <1>3 DEF ToSet
    <3>2. CASE i \in 1..m
      BY <1>1, <1>4, <3>1, <3>2 DEF ToSet
    <3>3. ASSUME NEW j \in 1..n, i = m + j PROVE x \in ToSet(t)
      BY <1>1, <1>5, <3>1, <3>3 DEF ToSet
    <3>. QED  BY <1>6, <3>2, <3>3
  <2>2. ToSet(d) \subseteq ToSet(u)
    BY <1>1, <1>3, <1>4 DEF ToSet
  <2>3. ToSet(t) \subseteq ToSet(u)
    BY <1>1, <1>3, <1>5 DEF ToSet
  <2>. QED  BY <2>1, <2>2, <2>3
<1>8. ASSUME IsInjective(u)
      PROVE  /\ IsInjective(d) /\ IsInjective(t)
             /\ \A i \in DOMAIN d, j \in DOMAIN t : d[i] # t[j]
  <2>1. \A i, j \in 1..(m + n) : u[i] = u[j] => i = j
    BY <1>3, <1>8 DEF IsInjective
  <2>2. \A i, j \in 1..m : d[i] = d[j] => i = j
    BY <1>4, <2>1
  <2>3. \A i, j \in 1..n : t[i] = t[j] => i = j
    <3>. SUFFICES ASSUME NEW i \in 1..n, NEW j \in 1..n, t[i] = t[j] PROVE i = j
      OBVIOUS
    <3>1. m + i = m + j
      BY <1>5, <2>1
    <3>. QED  BY <1>1, <3>1
  <2>4. ASSUME NEW i \in 1..m, NEW j \in 1..n, d[i] = t[j] PROVE FALSE
    <3>1. i = m + j
      BY <1>4, <1>5, <2>1, <2>4
    <3>. QED  BY <1>1, <3>1
  <2>. QED  BY <1>1, <2>2, <2>3, <2>4 DEF IsInjective
<1>9. ASSUME IsInjective(d), IsInjective(t), \A i \in DOMAIN d, j \in DOMAIN t : d[i] # t[j]
      PROVE  IsInjective(u)
  <2>. SUFFICES ASSUME NEW i \in 1..(m + n), NEW j \in 1..(m + n), u[i] = u[j] PROVE i = j
    BY <1>3 DEF IsInjective
  <2>1. CASE i \in 1..m /\ j \in 1..m
    BY <1>1, <1>4, <1>9, <2>1 DEF IsInjective
  <2>2. ASSUME i \in 1..m, NEW l \in 1..n, j = m + l PROVE FALSE
    BY <1>1, <1>4, <1>5, <1>9, <2>2
  <2>3. ASSUME j \in 1..m, NEW l \in 1..n, i = m + l PROVE FALSE
    BY <1>1, <1>4, <1>5, <1>9, <2>3
  <2>4. ASSUME NEW k \in 1..n, i = m + k, NEW l \in 1..n, j = m + l PROVE i = j
    BY <1>1, <1>5, <1>9, <2>4 DEF IsInjective
  <2>. QED  BY <1>6, <2>1, <2>2, <2>3, <2>4
<1>. QED  BY <1>7, <1>8, <1>9 DEF u

\* Cards drawn from the top of t go to the end of d: together they are the same array.
LEMMA DrawKeeps ==
  ASSUME NEW S, NEW d \in Seq(S), NEW t \in Seq(S), NEW k \in 0..Len(t)
  PROVE  /\ d \o DrawnFrom(t, k) \in Seq(S) /\ LeftAfter(t, k) \in Seq(S)
         /\ Len(LeftAfter(t, k)) = Len(t) - k
         /\ (d \o DrawnFrom(t, k)) \o LeftAfter(t, k) = d \o t
<1>1. Len(t) \in Nat /\ \A i \in 1..Len(t) : t[i] \in S
  BY LenProperties
<1>2. DrawnFrom(t, k) \in Seq(S)
  <2>1. \A i \in 1..k : t[i] \in S
    BY <1>1
  <2>. QED  BY <1>1, <2>1, SubSeqProperties DEF DrawnFrom
<1>3. LeftAfter(t, k) \in Seq(S) /\ Len(LeftAfter(t, k)) = Len(t) - k
  <2>1. k + 1 \in Int /\ Len(t) \in Int /\ \A i \in (k + 1)..Len(t) : t[i] \in S
    BY <1>1
  <2>2. /\ SubSeq(t, k + 1, Len(t)) \in Seq(S)
        /\ Len(SubSeq(t, k + 1, Len(t))) = IF k + 1 <= Len(t) THEN Len(t) - (k + 1) + 1 ELSE 0
    BY <2>1, SubSeqProperties
  <2>. QED  BY <1>1, <2>2 DEF LeftAfter
<1>4. DrawnFrom(t, k) \o LeftAfter(t, k) = t
  <2>1. 1 \in 1..(Len(t) + 1) /\ k \in (1 - 1)..Len(t) /\ Len(t) \in k..Len(t)
    BY <1>1
  <2>2. SubSeq(t, 1, k) \o SubSeq(t, k + 1, Len(t)) = SubSeq(t, 1, Len(t))
    BY <2>1, ConcatAdjacentSubSeq
  <2>. QED  BY <2>2, SubSeqFull DEF DrawnFrom, LeftAfter
<1>5. (d \o DrawnFrom(t, k)) \o LeftAfter(t, k) = d \o t
  <2>1. (d \o DrawnFrom(t, k)) \o LeftAfter(t, k) = d \o (DrawnFrom(t, k) \o LeftAfter(t, k))
    <3>. DEFINE x == DrawnFrom(t, k)
                y == LeftAfter(t, k)
    <3>1. x \in Seq(S) /\ y \in Seq(S)
      BY <1>2, <1>3
    <3>. HIDE DEF x, y
    <3>2. (d \o x) \o y = d \o (x \o y)
      BY <3>1, ConcatAssociative
    <3>. QED  BY <3>2 DEF x, y
  <2>. QED  BY <1>4, <2>1
<1>6. d \o DrawnFrom(t, k) \in Seq(S)
  BY <1>2, ConcatProperties
<1>. QED  BY <1>3, <1>5, <1>6

\* A card taken out of the middle of t goes to the end of d: together they have the same
\* cards, each as often as before.
LEMMA TakeKeeps ==
  ASSUME NEW S, NEW d \in Seq(S), NEW t \in Seq(S), NEW at \in 1..Len(t)
  PROVE  /\ Append(d, t[at]) \in Seq(S) /\ RemoveAt(t, at) \in Seq(S)
         /\ Len(RemoveAt(t, at)) = Len(t) - 1
         /\ IsInjective(d \o t) => IsInjective(Append(d, t[at]) \o RemoveAt(t, at))
         /\ ToSet(Append(d, t[at]) \o RemoveAt(t, at)) = ToSet(d \o t)
<1>. DEFINE m == Len(d)
            n == Len(t)
            a == SubSeq(t, 1, at - 1)
            b == SubSeq(t, at + 1, n)
            e == Append(d, t[at])
            u == RemoveAt(t, at)
<1>1. /\ m \in Nat /\ n \in Nat /\ DOMAIN d = 1..m /\ DOMAIN t = 1..n
      /\ \A i \in 1..n : t[i] \in S
  BY LenProperties
<1>2. a \in Seq(S) /\ Len(a) = at - 1 /\ \A i \in 1..(at - 1) : a[i] = t[i]
  <2>1. at - 1 \in Int /\ 1 \in Int /\ \A i \in 1..(at - 1) : t[i] \in S
    BY <1>1
  <2>2. /\ a \in Seq(S) /\ Len(a) = IF 1 <= at - 1 THEN (at - 1) - 1 + 1 ELSE 0
        /\ \A i \in 1..((at - 1) - 1 + 1) : a[i] = t[1 + i - 1]
    BY <2>1, SubSeqProperties
  <2>3. /\ (at - 1) - 1 + 1 = at - 1 /\ \A i \in 1..(at - 1) : 1 + i - 1 = i
    BY <1>1
  <2>. HIDE DEF a
  <2>. QED  BY <1>1, <2>2, <2>3
<1>3. b \in Seq(S) /\ Len(b) = n - at /\ \A i \in 1..(n - at) : b[i] = t[at + i]
  <2>1. at + 1 \in Int /\ n \in Int /\ \A i \in (at + 1)..n : t[i] \in S
    BY <1>1
  <2>2. /\ b \in Seq(S) /\ Len(b) = IF at + 1 <= n THEN n - (at + 1) + 1 ELSE 0
        /\ \A i \in 1..(n - (at + 1) + 1) : b[i] = t[(at + 1) + i - 1]
    <3>. DEFINE p == at + 1
    <3>1. p \in Int /\ n \in Int /\ \A i \in p..n : t[i] \in S
      BY <2>1
    <3>. HIDE DEF p, n
    <3>2. /\ SubSeq(t, p, n) \in Seq(S)
          /\ Len(SubSeq(t, p, n)) = IF p <= n THEN n - p + 1 ELSE 0
          /\ \A i \in 1..(n - p + 1) : SubSeq(t, p, n)[i] = t[p + i - 1]
      BY <3>1, SubSeqProperties
    <3>. QED  BY <3>2 DEF p
  <2>3. n - (at + 1) + 1 = n - at /\ \A i \in 1..(n - at) : (at + 1) + i - 1 = at + i
    BY <1>1
  <2>. HIDE DEF b, n
  <2>. QED  BY <1>1, <2>2, <2>3
<1>4. u = a \o b
  BY DEF RemoveAt
<1>5. u \in Seq(S) /\ Len(u) = n - 1
  <2>1. u \in Seq(S) /\ Len(u) = (at - 1) + (n - at)
    <3>. HIDE DEF a, b, u, n
    <3>1. a \o b \in Seq(S) /\ Len(a \o b) = Len(a) + Len(b)
      BY <1>2, <1>3, ConcatProperties
    <3>. QED  BY <1>2, <1>3, <1>4, <3>1
  <2>. HIDE DEF u, n
  <2>. QED  BY <1>1, <2>1
<1>6. ToSet(u) = ToSet(a) \cup ToSet(b) /\ (IsInjective(u) <=>
        IsInjective(a) /\ IsInjective(b) /\ \A i \in DOMAIN a, j \in DOMAIN b : a[i] # b[j])
  <2>. HIDE DEF a, b, u
  <2>. QED  BY <1>2, <1>3, <1>4, ConcatParts
<1>7. e \in Seq(S) /\ Len(e) = m + 1 /\ e[m + 1] = t[at] /\ \A i \in 1..m : e[i] = d[i]
  BY <1>1
<1>8. DOMAIN e = 1..(m + 1) /\ DOMAIN a = 1..(at - 1) /\ DOMAIN b = 1..(n - at)
  BY <1>2, <1>3, <1>7, LenProperties
<1>. HIDE DEF a, b, e, u, m, n
<1>9. /\ \A i \in 1..(at - 1) : i \in 1..n /\ i # at
      /\ \A i \in 1..(n - at) : at + i \in 1..n /\ at + i # at
      /\ \A i \in 1..n : i = at \/ i \in 1..(at - 1) \/ \E j \in 1..(n - at) : i = at + j
  <2>0. at \in 1..n
    BY DEF n
  <2>1. ASSUME NEW i \in 1..n, i # at, i \notin 1..(at - 1)
        PROVE  \E j \in 1..(n - at) : i = at + j
    <3>1. i - at \in 1..(n - at) /\ i = at + (i - at)
      BY <1>1, <2>0, <2>1
    <3>. QED  BY <3>1
  <2>. QED  BY <1>1, <2>0, <2>1
<1>10. ToSet(t) = ToSet(u) \cup {t[at]}
  <2>0. at \in 1..n
    BY DEF n
  <2>1. ToSet(a) \subseteq ToSet(t) /\ ToSet(b) \subseteq ToSet(t) /\ t[at] \in ToSet(t)
    <3>1. ToSet(a) \subseteq ToSet(t)
      BY <1>1, <1>2, <1>8, <1>9 DEF ToSet
    <3>2. \A i \in 1..(n - at) : b[i] \in ToSet(t)
      BY <1>1, <1>3, <1>9 DEF ToSet
    <3>3. ToSet(b) \subseteq ToSet(t)
      BY <1>8, <3>2 DEF ToSet
    <3>. QED  BY <1>1, <2>0, <3>1, <3>3 DEF ToSet
  <2>2. ASSUME NEW x \in ToSet(t) PROVE x \in ToSet(a) \/ x \in ToSet(b) \/ x = t[at]
    <3>1. PICK i \in 1..n : x = t[i]
      BY <1>1 DEF ToSet
    <3>2. CASE i \in 1..(at - 1)
      BY <1>2, <1>8, <3>1, <3>2 DEF ToSet
    <3>3. ASSUME NEW j \in 1..(n - at), i = at + j PROVE x \in ToSet(b)
      BY <1>3, <1>8, <3>1, <3>3 DEF ToSet
    <3>. QED  BY <1>9, <3>1, <3>2, <3>3
  <2>. QED  BY <1>6, <2>1, <2>2
<1>11. ToSet(e) = ToSet(d) \cup {t[at]}
  <2>1. \A i \in 1..(m + 1) : i \in 1..m \/ i = m + 1
    BY <1>1
  <2>2. m + 1 \in 1..(m + 1) /\ \A i \in 1..m : i \in 1..(m + 1)
    BY <1>1
  <2>. QED  BY <1>1, <1>7, <1>8, <2>1, <2>2 DEF ToSet
<1>12. ToSet(e \o u) = ToSet(d \o t)
  <2>1. ToSet(e \o u) = ToSet(e) \cup ToSet(u)
    BY <1>5, <1>7, ConcatParts
  <2>2. ToSet(d \o t) = ToSet(d) \cup ToSet(t)
    BY ConcatParts
  <2>. QED  BY <1>10, <1>11, <2>1, <2>2
<1>13. ASSUME IsInjective(d \o t) PROVE IsInjective(e \o u)
  <2>0. at \in 1..n
    BY DEF n
  <2>1. IsInjective(d) /\ IsInjective(t) /\ \A i \in DOMAIN d, j \in DOMAIN t : d[i] # t[j]
    BY <1>13, ConcatParts
  <2>2. IsInjective(u)
    <3>1. IsInjective(a)
      BY <1>1, <1>2, <1>8, <1>9, <2>1 DEF IsInjective
    <3>2. IsInjective(b)
      <4>. SUFFICES ASSUME NEW i \in 1..(n - at), NEW j \in 1..(n - at), b[i] = b[j]
                    PROVE  i = j
        BY <1>8 DEF IsInjective
      <4>1. at + i = at + j
        <5>1. at + i \in 1..n /\ at + j \in 1..n
          BY <1>9
        <5>2. t[at + i] = t[at + j]
          BY <1>3
        <5>. QED  BY <1>1, <2>1, <5>1, <5>2 DEF IsInjective
      <4>. QED  BY <1>1, <2>0, <4>1
    <3>3. ASSUME NEW i \in 1..(at - 1), NEW j \in 1..(n - at), a[i] = b[j] PROVE FALSE
      <4>1. i = at + j
        BY <1>1, <1>2, <1>3, <1>9, <2>1, <3>3 DEF IsInjective
      <4>. QED  BY <1>1, <2>0, <4>1
    <3>. QED  BY <1>6, <1>8, <3>1, <3>2, <3>3
  <2>3. t[at] \notin ToSet(u)
    <3>1. \A i \in 1..(at - 1) : a[i] # t[at]
      BY <1>1, <1>2, <1>9, <2>0, <2>1 DEF IsInjective
    <3>2. \A i \in 1..(n - at) : b[i] # t[at]
      BY <1>1, <1>3, <1>9, <2>0, <2>1 DEF IsInjective
    <3>. QED  BY <1>6, <1>8, <3>1, <3>2 DEF ToSet
  <2>4. \A x \in ToSet(d) : x \notin ToSet(t)
    BY <2>1 DEF ToSet
  <2>5. IsInjective(e)
    <3>. SUFFICES ASSUME NEW i \in 1..(m + 1), NEW j \in 1..(m + 1), e[i] = e[j] PROVE i = j
      BY <1>8 DEF IsInjective
    <3>1. (i \in 1..m \/ i = m + 1) /\ (j \in 1..m \/ j = m + 1)
      BY <1>1
    <3>2. \A k \in 1..m : d[k] # t[at]
      BY <1>1, <2>0, <2>1
    <3>. QED  BY <1>1, <1>7, <2>1, <3>1, <3>2 DEF IsInjective
  <2>6. \A x \in ToSet(e) : x \notin ToSet(u)
    BY <1>10, <1>11, <2>3, <2>4
  <2>7. \A i \in DOMAIN e, j \in DOMAIN u : e[i] # u[j]
    BY <2>6 DEF ToSet
  <2>. QED  BY <1>5, <1>7, <2>2, <2>5, <2>7, ConcatParts
<1>. QED  BY <1>5, <1>7, <1>12, <1>13 DEF e, u, n

\* A shuffle that has every card of an array once has them as the array had them.
LEMMA ShuffleKeeps ==
  ASSUME NEW S, NEW d \in Seq(S), NEW t \in Seq(S), IsInjective(d \o t),
         NEW u \in SetToSeqs(ToSet(t))
  PROVE  u \in Seq(S) /\ IsInjective(d \o u) /\ ToSet(d \o u) = ToSet(d \o t)
<1>. DEFINE T == ToSet(t)
            n == Cardinality(T)
<1>1. Len(t) \in Nat /\ DOMAIN t = 1..Len(t) /\ t \in [1..Len(t) -> S]
  BY LenProperties
<1>2. IsFiniteSet(T)
  <2>1. t \in Surjection(1..Len(t), T)
    BY <1>1 DEF Surjection, ToSet
  <2>2. IsFiniteSet(1..Len(t))
    BY <1>1, FS_Interval
  <2>. HIDE DEF T
  <2>. QED  BY <2>1, <2>2, FS_Surjection
<1>. HIDE DEF T
<1>3. n \in Nat
  BY <1>2, FS_CardinalityType
<1>4. u \in [1..n -> T] /\ \A i, j \in 1..n : i # j => u[i] # u[j]
  BY DEF SetToSeqs, T
<1>5. u \in Injection(1..n, T)
  BY <1>4 DEF Injection, IsInjective
<1>6. Cardinality(1..n) = n /\ IsFiniteSet(1..n)
  BY <1>3, FS_Interval
<1>7. u \in Surjection(1..n, T)
  BY <1>2, <1>5, <1>6, FS_Injection
<1>8. ToSet(u) = T /\ IsInjective(u)
  BY <1>4, <1>7 DEF Surjection, ToSet, IsInjective
<1>9. T \subseteq S
  BY <1>1 DEF T, ToSet
<1>10. u \in Seq(S)
  BY <1>3, <1>4, <1>9
<1>11. IsInjective(d) /\ \A i \in DOMAIN d, j \in DOMAIN t : d[i] # t[j]
  BY ConcatParts
<1>12. \A i \in DOMAIN d, j \in DOMAIN u : d[i] # u[j]
  <2>1. \A i \in DOMAIN d : d[i] \notin T
    BY <1>11 DEF T, ToSet
  <2>2. \A j \in DOMAIN u : u[j] \in T
    BY <1>8 DEF ToSet
  <2>. QED  BY <2>1, <2>2
<1>13. IsInjective(d \o u)
  BY <1>8, <1>10, <1>11, <1>12, ConcatParts
<1>14. ToSet(d \o u) = ToSet(d) \cup T /\ ToSet(d \o t) = ToSet(d) \cup T
  BY <1>8, <1>10, ConcatParts DEF T
<1>. QED  BY <1>10, <1>13, <1>14

-------------------------------------------------------------------------------
(* A deck is sound *)

\* What the locals of a call say while it runs: outside of drawRandomCards nothing is
\* left to draw, a draw that is going to fail has the whole deck left to draw, and no
\* error is on record before a loop has ended.
CallInv ==
  /\ pc # "drawRandomCards" => toDraw = 0 /\ failing = FALSE
  /\ pc = "drawRandomCards" /\ failing => toDraw = Len(decks)
  /\ pc # "ready" => thrown = "none"

DeckInv == TypeOK /\ DeckComplete /\ ErrorMeansDrawnOut /\ CallInv

LEMMA InitIsSound == Init => DeckInv
<1>. SUFFICES ASSUME Init PROVE DeckInv
  OBVIOUS
<1>1. CardsOf(0) = {}
  BY DEF CardsOf
<1>2. << >> \in Seq(CardsOf(0)) /\ Len(<< >>) = 0 /\ << >> \o << >> = << >>
  OBVIOUS
<1>3. 0 \in 0..maxNumSubDecks /\ 0 \in 0..(maxNumSubDecks + 1)
  BY DeckAssumption
<1>4. TypeOK
  <2>1. /\ form \in {"method", "static"} /\ numSubDecks = 0 /\ decks = << >> /\ drawn = << >>
        /\ thrown = "none" /\ pc = "ready" /\ tempDeck = << >> /\ toDraw = 0 /\ failing = FALSE
    BY DEF Init, minNumSubDecks
  <2>2. numSubDecks \in 0..(IF form = "method" THEN maxNumSubDecks ELSE maxNumSubDecks + 1)
    BY <1>3, <2>1
  <2>3. toDraw \in 0..Len(decks)
    BY <1>2, <2>1
  <2>4. decks \in Seq(CardsOf(numSubDecks))
    BY <1>2, <2>1
  <2>. QED  BY <2>1, <2>2, <2>3, <2>4 DEF TypeOK, minNumSubDecks
<1>5. DeckComplete
  BY <1>1, <1>2 DEF Init, DeckComplete, IsInjective, ToSet
<1>. QED  BY <1>4, <1>5 DEF Init, DeckInv, ErrorMeansDrawnOut, CallInv

\* A call that leaves the deck and what was drawn from it as an array of the same cards.
LEMMA SameCardsSame ==
  ASSUME TypeOK, DeckComplete, UNCHANGED numSubDecks, drawn' \o decks' = drawn \o decks
  PROVE  DeckComplete'
BY DEF DeckComplete

LEMMA CreateIsSound ==
  ASSUME DeckInv, NEW n \in Requests, NEW shuffled \in BOOLEAN, CreateDeck(n, shuffled)
  PROVE  DeckInv'
<1>. DEFINE m == numSubDecks'
<1>1. n \in Int /\ -1 <= n /\ n <= maxNumSubDecks + 1 /\ maxNumSubDecks \in Nat
  BY DeckAssumption DEF Requests
<1>2. /\ AllowedNumSubDecks(n) \in 0..maxNumSubDecks
      /\ StaticSubDecks(n) \in 0..(maxNumSubDecks + 1)
  <2>1. Min({n, maxNumSubDecks}) = IF n <= maxNumSubDecks THEN n ELSE maxNumSubDecks
    BY <1>1, MinOfTwo
  <2>2. AllowedNumSubDecks(n) = IF Min({n, maxNumSubDecks}) >= 0 THEN Min({n, maxNumSubDecks})
                                                                 ELSE 0
    BY <1>1, <2>1, MaxOfTwo DEF AllowedNumSubDecks, minNumSubDecks
  <2>3. StaticSubDecks(n) = IF n >= 0 THEN n ELSE 0
    BY <1>1, MaxOfTwo DEF StaticSubDecks, minNumSubDecks
  <2>. QED  BY <1>1, <2>1, <2>2, <2>3
<1>3. /\ m \in 0..(IF form' = "method" THEN maxNumSubDecks ELSE maxNumSubDecks + 1)
      /\ m \in Nat
  <2>1. form' = form /\ form \in {"method", "static"}
    BY DEF CreateDeck, DeckInv, TypeOK
  <2>2. m = IF form = "method" THEN AllowedNumSubDecks(n) ELSE StaticSubDecks(n)
    BY DEF CreateDeck
  <2>. HIDE DEF m
  <2>. QED  BY <1>1, <1>2, <2>1, <2>2
<1>. HIDE DEF m
<1>4. Lists(decks', CardsOf(m))
  <2>1. Lists(createDeck(m), CardsOf(m)) /\ Lists(staticCreateDeck(m), CardsOf(m))
    BY <1>3, CreatedIsComplete
  <2>. QED  BY <2>1 DEF CreateDeck, m
<1>5. /\ drawn' = << >> /\ thrown' = "none" /\ pc' \in {"ready", "shuffle"}
      /\ tempDeck' \in {decks', << >>} /\ form' = form
      /\ toDraw' = 0 /\ failing' = FALSE
  BY DEF CreateDeck, DeckInv, CallInv
<1>6. << >> \in Seq(CardsOf(m)) /\ decks' \in Seq(CardsOf(m)) /\ Len(decks') \in Nat
  BY <1>4, LenProperties DEF Lists
<1>7. TypeOK'
  <2>1. toDraw' \in 0..Len(decks')
    BY <1>5, <1>6
  <2>. QED  BY <1>3, <1>5, <1>6, <2>1 DEF DeckInv, TypeOK, minNumSubDecks, m
<1>8. DeckComplete'
  <2>1. drawn' \o decks' = decks'
    BY <1>5, <1>6, ConcatEmptySeq
  <2>2. IsInjective(decks') /\ ToSet(decks') = CardsOf(m)
    <3>1. DOMAIN decks' = 1..Len(decks') /\ \A i \in 1..Len(decks') : decks'[i] \in CardsOf(m)
      BY <1>6, LenProperties
    <3>. QED  BY <1>4, <3>1 DEF Lists, IsInjective, ToSet
  <2>. QED  BY <2>1, <2>2 DEF DeckComplete, m
<1>. QED  BY <1>5, <1>7, <1>8 DEF DeckInv, ErrorMeansDrawnOut, CallInv

\* One iteration of the random draws takes a card of the deck, wherever it is.
LEMMA PickIsSound ==
  ASSUME TypeOK, DeckComplete, PicksRandomCard, UNCHANGED numSubDecks
  PROVE  /\ DeckComplete' /\ Len(decks') = Len(decks) - 1 /\ Len(decks) \in Nat
         /\ decks' \in Seq(CardsOf(numSubDecks)) /\ drawn' \in Seq(CardsOf(numSubDecks))
<1>. DEFINE S == CardsOf(numSubDecks)
<1>1. decks \in Seq(S) /\ drawn \in Seq(S)
  BY DEF TypeOK
<1>. HIDE DEF S
<1>2. Len(decks) \in Nat /\ DOMAIN decks = 1..Len(decks)
  BY <1>1, LenProperties
<1>3. PICK i \in DOMAIN decks :
        /\ drawn' = Append(drawn, decks[FirstIndexOf(decks[i], decks)])
        /\ decks' = RemoveAt(decks, FirstIndexOf(decks[i], decks))
  BY DEF PicksRandomCard
<1>. DEFINE at == FirstIndexOf(decks[i], decks)
<1>4. at \in 1..Len(decks)
  BY <1>2, FirstIndexExists
<1>5. drawn' = Append(drawn, decks[at]) /\ decks' = RemoveAt(decks, at)
  BY <1>3
<1>. HIDE DEF at
<1>6. /\ drawn' \in Seq(S) /\ decks' \in Seq(S) /\ Len(decks') = Len(decks) - 1
      /\ IsInjective(drawn \o decks) => IsInjective(drawn' \o decks')
      /\ ToSet(drawn' \o decks') = ToSet(drawn \o decks)
  BY <1>1, <1>4, <1>5, TakeKeeps
<1>. QED  BY <1>2, <1>6 DEF DeckComplete, S

\* A draw of k cards from the top.
LEMMA TopDrawIsSound ==
  ASSUME TypeOK, DeckComplete, UNCHANGED numSubDecks, NEW k \in 0..Len(decks),
         drawn' = drawn \o DrawnFrom(decks, k), decks' = LeftAfter(decks, k)
  PROVE  /\ DeckComplete' /\ Len(decks') = Len(decks) - k /\ Len(decks) \in Nat
         /\ decks' \in Seq(CardsOf(numSubDecks)) /\ drawn' \in Seq(CardsOf(numSubDecks))
<1>. DEFINE S == CardsOf(numSubDecks)
<1>1. decks \in Seq(S) /\ drawn \in Seq(S)
  BY DEF TypeOK
<1>. HIDE DEF S
<1>2. Len(decks) \in Nat
  BY <1>1, LenProperties
<1>3. /\ drawn' \in Seq(S) /\ decks' \in Seq(S) /\ Len(decks') = Len(decks) - k
      /\ drawn' \o decks' = drawn \o decks
  <2>. DEFINE more == DrawnFrom(decks, k)
              left == LeftAfter(decks, k)
  <2>1. drawn \o more \in Seq(S) /\ left \in Seq(S) /\ Len(left) = Len(decks) - k
    BY <1>1, DrawKeeps
  <2>2. (drawn \o more) \o left = drawn \o decks
    BY <1>1, DrawKeeps
  <2>3. drawn' = drawn \o more /\ decks' = left
    OBVIOUS
  <2>. HIDE DEF more, left
  <2>. QED  BY <2>1, <2>2, <2>3, Zenon
<1>. QED  BY <1>2, <1>3, SameCardsSame DEF S

LEMMA NextIsSound ==
  ASSUME DeckInv, [Next]_vars
  PROVE  DeckInv'
<1>. DEFINE S == CardsOf(numSubDecks)
<1>0. /\ TypeOK /\ DeckComplete /\ ErrorMeansDrawnOut /\ CallInv
      /\ decks \in Seq(S) /\ drawn \in Seq(S) /\ tempDeck \in Seq(S) /\ Len(decks) \in Nat
  BY LenProperties DEF DeckInv, TypeOK
<1>1. CASE UNCHANGED vars
  BY <1>1 DEF vars, call, DeckInv, TypeOK, DeckComplete, ErrorMeansDrawnOut, CallInv
<1>2. CASE Shuffle
  <2>1. /\ pc = "ready" /\ thrown' = "none" /\ tempDeck' = decks /\ pc' \in {"ready", "shuffle"}
        /\ UNCHANGED <<form, numSubDecks, decks, drawn, toDraw, failing>>
    BY <1>2 DEF Shuffle
  <2>2. TypeOK'
    BY <1>0, <2>1 DEF TypeOK
  <2>. QED  BY <1>0, <2>1, <2>2 DEF DeckInv, DeckComplete, ErrorMeansDrawnOut, CallInv
<1>3. CASE ShuffleOnce
  <2>1. /\ pc = "shuffle" /\ decks' \in SetToSeqs(ToSet(decks))
        /\ UNCHANGED <<form, numSubDecks, drawn, thrown, pc, tempDeck, toDraw, failing>>
    BY <1>3 DEF ShuffleOnce, call
  <2>2. decks' \in Seq(S) /\ DeckComplete'
    <3>. HIDE DEF S
    <3>1. IsInjective(drawn \o decks)
      BY <1>0 DEF DeckComplete
    <3>2. /\ decks' \in Seq(S) /\ IsInjective(drawn \o decks')
          /\ ToSet(drawn \o decks') = ToSet(drawn \o decks)
      BY <1>0, <2>1, <3>1, ShuffleKeeps
    <3>. QED  BY <1>0, <2>1, <3>2 DEF DeckComplete
  <2>3. Len(decks') \in Nat /\ toDraw = 0 /\ thrown = "none"
    BY <1>0, <2>1, <2>2, LenProperties DEF CallInv
  <2>4. TypeOK'
    BY <1>0, <2>1, <2>2, <2>3 DEF TypeOK
  <2>. QED  BY <1>0, <2>1, <2>2, <2>3, <2>4 DEF DeckInv, ErrorMeansDrawnOut, CallInv
<1>4. CASE ShuffleReturns
  <2>1. /\ pc = "shuffle" /\ pc' = "ready" /\ tempDeck' = << >>
        /\ UNCHANGED <<form, numSubDecks, decks, drawn, thrown, toDraw, failing>>
    BY <1>4 DEF ShuffleReturns
  <2>2. TypeOK'
    BY <1>0, <2>1 DEF TypeOK
  <2>. QED  BY <1>0, <2>1, <2>2 DEF DeckInv, DeckComplete, ErrorMeansDrawnOut, CallInv
<1>5. CASE DrawCard
  <2>. DEFINE k == Min({1, Len(decks)})
  <2>1. k \in 0..Len(decks)
    BY <1>0, MinOfTwo
  <2>2. /\ pc = "ready" /\ thrown' \in {"drawFromEmptyDeck", "none"}
        /\ drawn' = drawn \o DrawnFrom(decks, k) /\ decks' = LeftAfter(decks, k)
        /\ UNCHANGED <<form, numSubDecks, pc, tempDeck, toDraw, failing>>
    BY <1>5 DEF DrawCard, call
  <2>. HIDE DEF k
  <2>3. /\ DeckComplete' /\ Len(decks') = Len(decks) - k
        /\ decks' \in Seq(S) /\ drawn' \in Seq(S)
    BY <1>0, <2>1, <2>2, TopDrawIsSound
  <2>4. toDraw = 0 /\ failing = FALSE /\ Len(decks') \in Nat
    BY <1>0, <2>1, <2>2, <2>3 DEF CallInv
  <2>5. TypeOK'
    BY <1>0, <2>2, <2>3, <2>4 DEF TypeOK
  <2>. QED  BY <2>2, <2>3, <2>4, <2>5 DEF DeckInv, ErrorMeansDrawnOut, CallInv
<1>6. ASSUME NEW drawAmount \in Amounts, DrawCards(drawAmount) PROVE DeckInv'
  <2>. DEFINE k == Min({drawAmount, Len(decks)})
  <2>0. drawAmount \in Int
    BY DeckAssumption DEF Amounts
  <2>1. /\ pc = "ready" /\ UNCHANGED <<form, numSubDecks, pc, tempDeck, toDraw, failing>>
        /\ toDraw = 0 /\ failing = FALSE
    BY <1>0, <1>6 DEF DrawCards, call, CallInv
  <2>2. CASE drawAmount > 0
    <3>1. k = IF drawAmount <= Len(decks) THEN drawAmount ELSE Len(decks)
      BY <1>0, <2>0, MinOfTwo
    <3>2. /\ thrown' = IF drawAmount > Len(decks) THEN "insufficientCardsRemaining" ELSE "none"
          /\ drawn' = drawn \o DrawnFrom(decks, k) /\ decks' = LeftAfter(decks, k)
      BY <1>6, <2>2 DEF DrawCards
    <3>. HIDE DEF k
    <3>3. k \in 0..Len(decks)
      BY <1>0, <2>0, <2>2, <3>1
    <3>4. /\ DeckComplete' /\ Len(decks') = Len(decks) - k
          /\ decks' \in Seq(S) /\ drawn' \in Seq(S)
      BY <1>0, <2>1, <3>2, <3>3, TopDrawIsSound
    <3>5. Len(decks') \in Nat
      BY <1>0, <3>3, <3>4
    <3>6. TypeOK'
      <4>1. thrown' \in {"insufficientCardsRemaining", "none"}
        BY <3>2
      <4>. QED  BY <1>0, <2>1, <3>4, <3>5, <4>1 DEF TypeOK
    <3>7. thrown' = "insufficientCardsRemaining" => decks' = << >>
      <4>1. SUFFICES ASSUME drawAmount > Len(decks) PROVE decks' = << >>
        BY <3>2
      <4>2. Len(decks') = 0
        BY <1>0, <2>0, <3>1, <3>4, <4>1
      <4>. QED  BY <3>4, <4>2, EmptySeq
    <3>. QED  BY <2>1, <3>4, <3>6, <3>7 DEF DeckInv, ErrorMeansDrawnOut, CallInv
  <2>3. CASE ~(drawAmount > 0)
    <3>1. thrown' = "negativeDrawAttempt" /\ decks' = decks /\ drawn' = drawn
      BY <1>6, <2>3 DEF DrawCards
    <3>2. TypeOK'
      BY <1>0, <2>1, <3>1 DEF TypeOK
    <3>. QED  BY <1>0, <2>1, <3>1, <3>2 DEF DeckInv, DeckComplete, ErrorMeansDrawnOut, CallInv
  <2>. QED  BY <2>2, <2>3
<1>7. CASE DrawRandomCard
  <2>1. /\ pc = "ready" /\ UNCHANGED <<form, numSubDecks, pc, tempDeck, toDraw, failing>>
        /\ toDraw = 0 /\ failing = FALSE
    BY <1>0, <1>7 DEF DrawRandomCard, call, CallInv
  <2>2. CASE decks = << >>
    <3>1. thrown' = "drawFromEmptyDeck" /\ decks' = decks /\ drawn' = drawn
      BY <1>7, <2>2 DEF DrawRandomCard
    <3>2. TypeOK'
      BY <1>0, <2>1, <3>1 DEF TypeOK
    <3>. QED  BY <1>0, <2>1, <3>1, <3>2 DEF DeckInv, DeckComplete, ErrorMeansDrawnOut, CallInv
  <2>3. CASE decks # << >>
    <3>1. thrown' = "none" /\ PicksRandomCard
      BY <1>7, <2>3 DEF DrawRandomCard
    <3>2. /\ DeckComplete' /\ decks' \in Seq(S) /\ drawn' \in Seq(S)
      BY <1>0, <2>1, <3>1, PickIsSound
    <3>3. Len(decks') \in Nat
      BY <3>2, LenProperties
    <3>4. TypeOK'
      BY <1>0, <2>1, <3>1, <3>2, <3>3 DEF TypeOK
    <3>. QED  BY <2>1, <3>1, <3>2, <3>4 DEF DeckInv, ErrorMeansDrawnOut, CallInv
  <2>. QED  BY <2>2, <2>3
<1>8. ASSUME NEW drawAmount \in Amounts, DrawRandomCards(drawAmount) PROVE DeckInv'
  <2>. DEFINE k == Min({drawAmount, Len(decks)})
  <2>0. drawAmount \in Int
    BY DeckAssumption DEF Amounts
  <2>1. pc = "ready" /\ UNCHANGED <<form, numSubDecks, decks, drawn, tempDeck>>
    BY <1>8 DEF DrawRandomCards
  <2>2. CASE drawAmount > 0
    <3>1. k = IF drawAmount <= Len(decks) THEN drawAmount ELSE Len(decks)
      BY <1>0, <2>0, MinOfTwo
    <3>2. /\ thrown' = "none" /\ failing' = (drawAmount > Len(decks)) /\ toDraw' = k
          /\ pc' = "drawRandomCards"
      BY <1>8, <2>2 DEF DrawRandomCards
    <3>. HIDE DEF k
    <3>3. k \in 0..Len(decks) /\ (drawAmount > Len(decks) => k = Len(decks))
      BY <1>0, <2>0, <2>2, <3>1
    <3>4. failing' \in BOOLEAN
      BY <3>2
    <3>5. TypeOK'
      BY <1>0, <2>1, <3>2, <3>3, <3>4 DEF TypeOK
    <3>. QED  BY <1>0, <2>1, <3>2, <3>3, <3>5 DEF DeckInv, DeckComplete, ErrorMeansDrawnOut, CallInv
  <2>3. CASE ~(drawAmount > 0)
    <3>1. thrown' = "negativeDrawAttempt" /\ UNCHANGED <<failing, toDraw, pc>>
      BY <1>8, <2>3 DEF DrawRandomCards
    <3>2. TypeOK'
      BY <1>0, <2>1, <3>1 DEF TypeOK
    <3>. QED  BY <1>0, <2>1, <3>1, <3>2 DEF DeckInv, DeckComplete, ErrorMeansDrawnOut, CallInv
  <2>. QED  BY <2>2, <2>3
<1>9. CASE RandomIteration
  <2>1. /\ pc = "drawRandomCards" /\ toDraw > 0 /\ PicksRandomCard /\ toDraw' = toDraw - 1
        /\ UNCHANGED <<form, numSubDecks, thrown, pc, tempDeck, failing>> /\ thrown = "none"
    BY <1>0, <1>9 DEF RandomIteration, CallInv
  <2>2. /\ DeckComplete' /\ decks' \in Seq(S) /\ drawn' \in Seq(S)
        /\ Len(decks') = Len(decks) - 1
    BY <1>0, <2>1, PickIsSound
  <2>3. toDraw' \in 0..Len(decks') /\ (failing => toDraw' = Len(decks'))
    BY <1>0, <2>1, <2>2 DEF TypeOK, CallInv
  <2>4. TypeOK'
    BY <1>0, <2>1, <2>2, <2>3 DEF TypeOK
  <2>. QED  BY <2>1, <2>2, <2>3, <2>4 DEF DeckInv, ErrorMeansDrawnOut, CallInv
<1>10. CASE RandomDone
  <2>1. /\ pc = "drawRandomCards" /\ toDraw = 0 /\ pc' = "ready" /\ failing' = FALSE
        /\ thrown' = IF failing THEN "insufficientCardsRemaining" ELSE "none"
        /\ UNCHANGED <<form, numSubDecks, decks, drawn, tempDeck, toDraw>>
    BY <1>10 DEF RandomDone
  <2>2. TypeOK'
    <3>1. thrown' \in {"insufficientCardsRemaining", "none"}
      BY <2>1
    <3>. QED  BY <1>0, <2>1, <3>1 DEF TypeOK
  <2>3. thrown' = "insufficientCardsRemaining" => decks' = << >>
    <3>1. SUFFICES ASSUME failing PROVE decks = << >>
      BY <2>1
    <3>2. Len(decks) = 0
      BY <1>0, <2>1, <3>1 DEF CallInv
    <3>. QED  BY <1>0, <3>2, EmptySeq
  <2>. QED  BY <1>0, <2>1, <2>2, <2>3 DEF DeckInv, DeckComplete, ErrorMeansDrawnOut, CallInv
<1>11. CASE SetDeckCards
  <2>1. /\ pc = "ready" /\ thrown' = "none" /\ toDraw = 0 /\ failing = FALSE
        /\ UNCHANGED <<form, numSubDecks, pc, tempDeck, toDraw, failing>>
        /\ decks' = IF decks = << >> THEN drawn ELSE decks
        /\ drawn' = IF decks = << >> THEN << >> ELSE drawn
    BY <1>0, <1>11 DEF SetDeckCards, call, CallInv
  <2>2. decks' \in Seq(S) /\ drawn' \in Seq(S) /\ drawn' \o decks' = drawn \o decks
    <3>1. drawn \o << >> = drawn /\ << >> \o drawn = drawn /\ << >> \in Seq(S)
      BY <1>0, ConcatEmptySeq
    <3>. QED  BY <1>0, <2>1, <3>1
  <2>3. Len(decks') \in Nat
    BY <2>2, LenProperties
  <2>4. TypeOK'
    BY <1>0, <2>1, <2>2, <2>3 DEF TypeOK
  <2>5. DeckComplete'
    BY <1>0, <2>1, <2>2, SameCardsSame
  <2>. QED  BY <2>1, <2>4, <2>5 DEF DeckInv, ErrorMeansDrawnOut, CallInv
<1>. QED
  BY <1>1, <1>2, <1>3, <1>4, <1>5, <1>6, <1>7, <1>8, <1>9, <1>10, <1>11, CreateIsSound
     DEF Next, Loop

\* The highest rank of the cards of a deck is found.
LEMMA TypesGiveHighest == TypeOK => HighestRankIsMax
<1>. SUFFICES ASSUME TypeOK, decks # << >>
              PROVE  determineHighestRank(decks) = Max({decks[i].rank : i \in DOMAIN decks})
  BY DEF HighestRankIsMax
<1>. DEFINE n == Len(decks)
<1>1. decks \in Seq(CardsOf(numSubDecks))
  BY DEF TypeOK
<1>2. n \in Nat /\ n > 0 /\ DOMAIN decks = 1..n /\ n = Len(decks)
  BY <1>1, LenProperties, EmptySeq
<1>3. \A i \in 1..n : decks[i].rank \in Int /\ decks[i].rank >= 2
  <2>1. \A c \in CardsOf(numSubDecks) : c.rank \in Int /\ c.rank >= 2
    BY CardAssumption DEF CardsOf, Ranks
  <2>2. \A i \in 1..n : decks[i] \in CardsOf(numSubDecks)
    BY <1>1, LenProperties
  <2>. QED  BY <2>1, <2>2
<1>. HIDE DEF n
<1>. QED  BY <1>2, <1>3, HighestIsMax

\* DeckIsSound: whatever a client calls, in whatever order, with any amounts and any
\* number of sub-decks, and however it fails, no card is lost or there twice, an error
\* that says so means that the deck is drawn out, and determineHighestRank finds the
\* greatest rank (all of Deck.swift).
THEOREM DecksAreSound == Spec => []DeckIsSound
<1>1. DeckInv => DeckIsSound
  BY TypesGiveHighest DEF DeckInv, DeckIsSound
<1>. QED  BY <1>1, InitIsSound, NextIsSound, PTL DEF Spec

===============================================================================

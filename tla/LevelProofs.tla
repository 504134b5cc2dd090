------------------------------- MODULE LevelProofs -------------------------------
(***************************************************************************)
(* Proofs about Levels, for any number of keys, writes, levels and         *)
(* snapshots: whatever flushes and compactions do with the tables, a read  *)
(* finds what the last write before it left.                               *)
(*                                                                         *)
(* First come facts about sets of entries and of tables that know nothing  *)
(* of a state: order and ranges, what the loops of GetOverlappingInputs    *)
(* and AddBoundaryInputs end with, and what the files are that a merge is  *)
(* cut into.  Then the invariant, and each action.                         *)
(***************************************************************************)
EXTENDS Levels, FiniteSetTheorems, FunctionTheorems, WellFoundedInduction, TLAPS

\* Every set of natural numbers has a least one.
LEMMA LeastNumber ==
  ASSUME NEW S, S \subseteq Nat, S # {}
  PROVE  \E m \in S : \A k \in S : m <= k
<1>. DEFINE less == {pair \in Nat \X Nat : pair[1] < pair[2]}
<1>1. IsWellFoundedOn(less, Nat)
  BY NatLessThanWellFounded DEF OpToRel
<1>2. PICK m \in S : \A k \in S : ~(<<k, m>> \in less)
  <2>. HIDE DEF less
  <2>. QED  BY <1>1, WFMin
<1>3. ASSUME NEW k \in S PROVE m <= k
  <2>1. k \in Nat /\ m \in Nat /\ <<k, m>> \in Nat \X Nat /\ ~(<<k, m>> \in less)
    BY <1>2
  <2>2. ~(k < m)
    BY <2>1
  <2>. QED  BY <2>1, <2>2
<1>. QED  BY <1>3

\* A set that holds 0 and, with every number, the next one, holds all numbers up to n.
LEMMA AllSteps ==
  ASSUME NEW n \in Nat, NEW G, 0 \in G, \A i \in 0..(n - 1) : i \in G => i + 1 \in G
  PROVE  0..n \subseteq G
<1>. DEFINE bad == {i \in 0..n : i \notin G}
<1>1. SUFFICES ASSUME bad # {} PROVE FALSE
  OBVIOUS
<1>2. PICK m \in bad : \A k \in bad : m <= k
  <2>1. bad \subseteq Nat
    OBVIOUS
  <2>. HIDE DEF bad
  <2>. QED BY <1>1, <2>1, LeastNumber
<1>3. m \in 0..n /\ m \notin G
  BY <1>2
<1>4. m - 1 \in 0..(n - 1) /\ m - 1 + 1 = m
  BY <1>3
<1>5. m - 1 \notin bad
  BY <1>2, <1>4
<1>. QED BY <1>3, <1>4, <1>5

\* The keys are the numbers from 1 on.
LEMMA KeysAre ==
  /\ IsFiniteSet(Keys) /\ Cardinality(Keys) \in Nat /\ Keys = 1..Cardinality(Keys) /\ Keys \subseteq Nat
  /\ MaxSequence \in Nat
<1>1. IsFiniteSet(Keys) /\ Keys = 1..Cardinality(Keys) /\ MaxSequence \in Nat
  BY LevelsAssumption DEF LevelsAssumption
<1>2. Cardinality(Keys) \in Nat
  BY <1>1, FS_CardinalityType
<1>3. 1..Cardinality(Keys) \subseteq Nat
  BY <1>2
<1>. QED BY <1>1, <1>2, <1>3

\* The least and the greatest member of a set of numbers
LEMMA MinIs ==
  ASSUME NEW S, S \subseteq Nat, S # {}
  PROVE  Min(S) \in S /\ \A y \in S : Min(S) <= y
BY LeastNumber DEF Min

LEMMA MaxIs ==
  ASSUME NEW S, S \subseteq Keys, S # {}
  PROVE  Max(S) \in S /\ \A y \in S : y <= Max(S)
<1>. DEFINE K == Cardinality(Keys)
            T == {K - x : x \in S}
<1>1. K \in Nat /\ \A x \in S : x \in Nat /\ x <= K
  BY KeysAre
<1>2. T \subseteq Nat /\ T # {}
  BY <1>1
<1>3. PICK m \in T : \A k \in T : m <= k
  <2>. HIDE DEF T
  <2>. QED BY <1>2, LeastNumber
<1>4. PICK x \in S : m = K - x
  BY <1>3
<1>5. ASSUME NEW y \in S PROVE y <= x
  <2>1. K - y \in T
    OBVIOUS
  <2>2. K - x <= K - y
    BY <1>3, <1>4, <2>1
  <2>. QED BY <1>1, <2>2
<1>6. \E z \in S : \A y \in S : z >= y
  BY <1>1, <1>5
<1>7. Max(S) \in S /\ \A y \in S : Max(S) >= y
  BY <1>6 DEF Max
<1>. QED BY <1>1, <1>7

-------------------------------------------------------------------------------
(* The order of the entries *)

\* Entries of which no two have one sequence number
Ordered(S) == S \subseteq Entry /\ \A d, e \in S : d.seq = e.seq => d = e

\* Entries and their order: InternalKeyComparator orders what has different sequence numbers.
LEMMA EntryIs ==
  ASSUME NEW e \in Entry
  PROVE  e.key \in Keys /\ e.key \in Nat /\ e.seq \in 1..MaxSequence /\ e.seq \in Nat
BY KeysAre DEF Entry

LEMMA BeforeIsOrder ==
  ASSUME NEW a \in Entry, NEW b \in Entry, NEW c \in Entry
  PROVE  /\ ~Before(a, a)
         /\ Before(a, b) => ~Before(b, a)
         /\ Before(a, b) /\ Before(b, c) => Before(a, c)
         /\ a.seq # b.seq => Before(a, b) \/ Before(b, a)
         /\ ~Before(a, b) /\ ~Before(b, a) => a.key = b.key /\ a.seq = b.seq
         /\ Before(a, b) => a.key <= b.key
<1>1. {a.key, b.key, c.key, a.seq, b.seq, c.seq} \subseteq Nat
  BY EntryIs
<1>. QED BY <1>1 DEF Before

\* A set of entries with distinct sequence numbers has a first and a last one.
LEMMA SmallestIs ==
  ASSUME NEW S, Ordered(S), S # {}
  PROVE  Smallest(S) \in S /\ \A d \in S : d = Smallest(S) \/ Before(Smallest(S), d)
<1>1. \A e \in S : e \in Entry /\ e.key \in Nat /\ e.seq \in 1..MaxSequence
  BY EntryIs DEF Ordered
<1>2. PICK k \in {e.key : e \in S} : \A j \in {e.key : e \in S} : k <= j
  BY <1>1, LeastNumber
<1>. DEFINE T == {MaxSequence - e.seq : e \in {x \in S : x.key = k}}
<1>3. T \subseteq Nat /\ T # {}
  BY <1>1, <1>2, KeysAre
<1>4. PICK m \in T : \A j \in T : m <= j
  <2>. HIDE DEF T
  <2>. QED BY <1>3, LeastNumber
<1>5. PICK x \in S : x.key = k /\ m = MaxSequence - x.seq
  BY <1>4
<1>6. ASSUME NEW d \in S, d # x PROVE Before(x, d)
  <2>1. x.key <= d.key /\ x.key \in Nat /\ d.key \in Nat
    BY <1>1, <1>2, <1>5
  <2>2. d.seq # x.seq /\ d.seq \in 1..MaxSequence /\ x.seq \in 1..MaxSequence
    BY <1>1, <1>6 DEF Ordered
  <2>3. CASE d.key = x.key
    <3>1. MaxSequence - d.seq \in T
      BY <1>5, <2>3
    <3>2. MaxSequence - x.seq <= MaxSequence - d.seq
      BY <1>4, <1>5, <3>1
    <3>. QED BY <2>2, <2>3, <3>2, KeysAre DEF Before
  <2>. QED BY <2>1, <2>3 DEF Before
<1>7. \E e \in S : \A d \in S \ {e} : Before(e, d)
  BY <1>6
<1>8. Smallest(S) \in S /\ \A d \in S \ {Smallest(S)} : Before(Smallest(S), d)
  BY <1>7 DEF Smallest
<1>. QED BY <1>8

\* The last entry of a set
LEMMA LargestIs ==
  ASSUME NEW S, Ordered(S), S # {}
  PROVE  Largest(S) \in S /\ \A d \in S : d = Largest(S) \/ Before(d, Largest(S))
<1>1. \A e \in S : e \in Entry /\ e.key \in Nat /\ e.key \in Keys /\ e.seq \in 1..MaxSequence
  BY EntryIs DEF Ordered
<1>2. PICK k \in {e.key : e \in S} : \A j \in {e.key : e \in S} : j <= k
  <2>1. {e.key : e \in S} \subseteq Keys /\ {e.key : e \in S} # {}
    BY <1>1
  <2>. QED BY <2>1, MaxIs
<1>. DEFINE T == {e.seq : e \in {x \in S : x.key = k}}
<1>3. T \subseteq Nat /\ T # {}
  BY <1>1, <1>2, KeysAre
<1>4. PICK m \in T : \A j \in T : m <= j
  <2>. HIDE DEF T
  <2>. QED BY <1>3, LeastNumber
<1>5. PICK x \in S : x.key = k /\ m = x.seq
  BY <1>4
<1>6. ASSUME NEW d \in S, d # x PROVE Before(d, x)
  <2>1. d.key <= x.key /\ x.key \in Nat /\ d.key \in Nat
    BY <1>1, <1>2, <1>5
  <2>2. d.seq # x.seq /\ d.seq \in 1..MaxSequence /\ x.seq \in 1..MaxSequence
    BY <1>1, <1>6 DEF Ordered
  <2>3. CASE d.key = x.key
    <3>1. d.seq \in T
      BY <1>5, <2>3
    <3>2. x.seq <= d.seq
      BY <1>4, <1>5, <3>1
    <3>. QED BY <2>2, <2>3, <3>2, KeysAre DEF Before
  <2>. QED BY <2>1, <2>3 DEF Before
<1>7. \E e \in S : \A d \in S \ {e} : Before(d, e)
  BY <1>6
<1>8. Largest(S) \in S /\ \A d \in S \ {Largest(S)} : Before(d, Largest(S))
  BY <1>7 DEF Largest
<1>. QED BY <1>8

-------------------------------------------------------------------------------
(* Tables, and ranges of keys *)

Table(f) == f = File(f.num, f.entries) /\ f.num \in Nat /\ f.entries # {} /\ Ordered(f.entries)

\* Some tables of one level
Tables(fs) == IsFiniteSet(fs) /\ Ordered(EntriesOf(fs)) /\ \A f \in fs : Table(f)

Ranges == [begin : Keys, end : Keys]

\* A table lies between its smallest and its largest entry.
LEMMA TableIs ==
  ASSUME NEW f, Table(f)
  PROVE  /\ f.smallest \in f.entries /\ f.largest \in f.entries
         /\ \A e \in f.entries : /\ e \in Entry
                                 /\ e = f.smallest \/ Before(f.smallest, e)
                                 /\ e = f.largest \/ Before(e, f.largest)
                                 /\ f.smallest.key <= e.key /\ e.key <= f.largest.key
         /\ f.smallest \in Entry /\ f.largest \in Entry
         /\ {f.smallest.key, f.largest.key} \subseteq Keys /\ f.smallest.key <= f.largest.key
         /\ ~Before(f.largest, f.smallest)
<1>1. f.smallest = Smallest(f.entries) /\ f.largest = Largest(f.entries)
  BY DEF Table, File
<1>2. Ordered(f.entries) /\ f.entries # {}
  BY DEF Table
<1>3. /\ f.smallest \in f.entries /\ \A d \in f.entries : d = f.smallest \/ Before(f.smallest, d)
      /\ f.largest \in f.entries /\ \A d \in f.entries : d = f.largest \/ Before(d, f.largest)
  BY <1>1, <1>2, SmallestIs, LargestIs
<1>4. f.entries \subseteq Entry
  BY <1>2 DEF Ordered
<1>5. \A e \in f.entries : e.key \in Nat /\ e.key \in Keys
  BY <1>4, EntryIs
<1>6. ASSUME NEW e \in f.entries PROVE f.smallest.key <= e.key /\ e.key <= f.largest.key
  BY <1>3, <1>5, <1>6 DEF Before
<1>7. ~Before(f.largest, f.smallest)
  BY <1>3, <1>4, BeforeIsOrder
<1>. QED BY <1>3, <1>4, <1>5, <1>6, <1>7

\* What a flush or a compaction writes is a table.
LEMMA FileIsTable ==
  ASSUME NEW S, Ordered(S), S # {}, NEW num \in Nat
  PROVE  Table(File(num, S)) /\ File(num, S).entries = S /\ File(num, S).num = num
BY DEF Table, File

\* What holds of each table of a set
LEMMA TablesAre ==
  ASSUME NEW fs, Tables(fs)
  PROVE  /\ \A f \in fs : /\ Table(f) /\ f.smallest \in EntriesOf(fs) /\ f.largest \in EntriesOf(fs)
                          /\ {f.smallest.key, f.largest.key} \subseteq Keys /\ f.smallest.key <= f.largest.key
                          /\ f.entries \subseteq EntriesOf(fs)
         /\ EntriesOf(fs) \subseteq Entry
         /\ \A S : S \subseteq fs => Tables(S) /\ EntriesOf(S) \subseteq EntriesOf(fs)
<1>1. \A f \in fs : Table(f) /\ f.entries \subseteq EntriesOf(fs)
  BY DEF Tables, EntriesOf
<1>2. ASSUME NEW S, S \subseteq fs PROVE Tables(S) /\ EntriesOf(S) \subseteq EntriesOf(fs)
  <2>1. IsFiniteSet(S)
    BY <1>2, FS_Subset DEF Tables
  <2>2. EntriesOf(S) \subseteq EntriesOf(fs)
    BY <1>2 DEF EntriesOf
  <2>. QED BY <1>2, <2>1, <2>2 DEF Tables, Ordered
<1>3. EntriesOf(fs) \subseteq Entry
  BY DEF Tables, Ordered
<1>4. ASSUME NEW f \in fs
      PROVE  /\ f.smallest \in EntriesOf(fs) /\ f.largest \in EntriesOf(fs)
             /\ {f.smallest.key, f.largest.key} \subseteq Keys /\ f.smallest.key <= f.largest.key
  <2>1. Table(f)
    BY <1>1
  <2>. QED BY <2>1, <1>1, TableIs
<1>. QED BY <1>1, <1>2, <1>3, <1>4

\* GetRange covers the files, from the beginning of one to the end of one.
LEMMA RangeIs ==
  ASSUME NEW fs, Tables(fs), fs # {}
  PROVE  /\ GetRange(fs) \in Ranges
         /\ \A f \in fs : GetRange(fs).begin <= f.smallest.key /\ f.largest.key <= GetRange(fs).end
         /\ \A f \in fs : Overlaps(f, GetRange(fs))
         /\ \E f \in fs : GetRange(fs).begin = f.smallest.key
         /\ \E f \in fs : GetRange(fs).end = f.largest.key
         /\ \A e \in EntriesOf(fs) : e \in Entry /\ GetRange(fs).begin <= e.key /\ e.key <= GetRange(fs).end
<1>. DEFINE A == {f.smallest.key : f \in fs}
            B == {f.largest.key : f \in fs}
            r == GetRange(fs)
<1>1. \A f \in fs : {f.smallest.key, f.largest.key} \subseteq Keys /\ f.smallest.key <= f.largest.key
  BY TablesAre
<1>2. A \subseteq Keys /\ A # {} /\ B \subseteq Keys /\ B # {} /\ A \subseteq Nat
  BY <1>1, KeysAre
<1>3. Min(A) \in A /\ \A y \in A : Min(A) <= y
  <2>. HIDE DEF A
  <2>. QED BY <1>2, MinIs
<1>4. Max(B) \in B /\ \A y \in B : y <= Max(B)
  <2>. HIDE DEF B
  <2>. QED BY <1>2, MaxIs
<1>5. r.begin = Min(A) /\ r.end = Max(B) /\ r = [begin |-> Min(A), end |-> Max(B)]
  BY DEF GetRange
<1>6. \A f \in fs : r.begin <= f.smallest.key /\ f.largest.key <= r.end
  BY <1>3, <1>4, <1>5
<1>7. r \in Ranges
  BY <1>2, <1>3, <1>4, <1>5 DEF Ranges
<1>8. \A f \in fs : Overlaps(f, r)
  <2>1. r.begin \in Nat /\ r.end \in Nat /\ \A f \in fs : {f.smallest.key, f.largest.key} \subseteq Nat
    BY <1>1, <1>7, KeysAre DEF Ranges
  <2>. HIDE DEF r
  <2>. QED BY <1>1, <1>6, <2>1 DEF Overlaps
<1>9. ASSUME NEW e \in EntriesOf(fs) PROVE e \in Entry /\ r.begin <= e.key /\ e.key <= r.end
  <2>1. PICK f \in fs : e \in f.entries
    BY DEF EntriesOf
  <2>2. Table(f)
    BY DEF Tables
  <2>3. e \in Entry /\ f.smallest.key <= e.key /\ e.key <= f.largest.key
    BY <2>1, <2>2, TableIs
  <2>4. e.key \in Nat /\ f.smallest.key \in Nat /\ f.largest.key \in Nat /\ r.begin \in Nat /\ r.end \in Nat
    BY <2>3, <1>1, <1>7, EntryIs, KeysAre DEF Ranges
  <2>5. r.begin <= f.smallest.key /\ f.largest.key <= r.end
    BY <1>6
  <2>. HIDE DEF r
  <2>. QED BY <2>3, <2>4, <2>5
<1>. QED BY <1>3, <1>4, <1>5, <1>6, <1>7, <1>8, <1>9

\* What overlaps a range is a set of tables; the range with theirs holds it.
LEMMA HitAre ==
  ASSUME NEW fs, Tables(fs), NEW r \in Ranges
  PROVE  Hit(fs, r) \subseteq fs /\ Tables(Hit(fs, r))
<1>1. Hit(fs, r) \subseteq fs
  BY DEF Hit
<1>. QED BY <1>1, TablesAre

LEMMA WidenedIs ==
  ASSUME NEW fs, Tables(fs), NEW r \in Ranges
  PROVE  LET q == Widened(fs, r) IN
         /\ q \in Ranges /\ q.begin <= r.begin /\ r.end <= q.end
         /\ \A f \in Hit(fs, r) : q.begin <= f.smallest.key /\ f.largest.key <= q.end
         /\ q.begin = r.begin \/ \E f \in Hit(fs, r) : q.begin = f.smallest.key
         /\ q.end = r.end \/ \E f \in Hit(fs, r) : q.end = f.largest.key
<1>. DEFINE A == {r.begin} \cup {f.smallest.key : f \in Hit(fs, r)}
            B == {r.end} \cup {f.largest.key : f \in Hit(fs, r)}
<1>1. \A f \in Hit(fs, r) : {f.smallest.key, f.largest.key} \subseteq Keys
  BY HitAre, TablesAre
<1>2. r.begin \in Keys /\ r.end \in Keys
  BY DEF Ranges
<1>3. A \subseteq Keys /\ A # {} /\ B \subseteq Keys /\ B # {} /\ A \subseteq Nat
  BY <1>1, <1>2, KeysAre
<1>4. Min(A) \in A /\ \A y \in A : Min(A) <= y
  <2>. HIDE DEF A
  <2>. QED BY <1>3, MinIs
<1>5. Max(B) \in B /\ \A y \in B : y <= Max(B)
  <2>. HIDE DEF B
  <2>. QED BY <1>3, MaxIs
<1>6. Widened(fs, r) = [begin |-> Min(A), end |-> Max(B)]
  BY DEF Widened
<1>. DEFINE q == Widened(fs, r)
<1>7. q \in Ranges /\ q.begin = Min(A) /\ q.end = Max(B)
  BY <1>3, <1>4, <1>5, <1>6 DEF Ranges
<1>8. /\ q.begin <= r.begin /\ r.end <= q.end
      /\ \A f \in Hit(fs, r) : q.begin <= f.smallest.key /\ f.largest.key <= q.end
  <2>. HIDE DEF q
  <2>. QED BY <1>4, <1>5, <1>7
<1>9. /\ q.begin = r.begin \/ \E f \in Hit(fs, r) : q.begin = f.smallest.key
      /\ q.end = r.end \/ \E f \in Hit(fs, r) : q.end = f.largest.key
  <2>. HIDE DEF q
  <2>. QED BY <1>4, <1>5, <1>7
<1>. QED BY <1>7, <1>8, <1>9

-------------------------------------------------------------------------------
(* Ranges without gaps *)

\* Every key of the range lies in a table: where that holds, no table fits in between.
Covers(fs, r) == \A k \in r.begin..r.end : \E f \in fs : k \in f.smallest.key..f.largest.key

\* A range without gaps stays one when it is widened by a file that overlaps it.
LEMMA CoversWider ==
  ASSUME NEW A, NEW C, A \subseteq C, NEW r \in Ranges, NEW q \in Ranges, Covers(A, r),
         \A f \in C : {f.smallest.key, f.largest.key} \subseteq Keys,
         r.begin <= q.begin \/ \E f \in C : Overlaps(f, r) /\ f.smallest.key <= q.begin,
         q.end <= r.end \/ \E f \in C : Overlaps(f, r) /\ q.end <= f.largest.key
  PROVE  Covers(C, q)
<1>1. {r.begin, r.end, q.begin, q.end} \subseteq Nat
  BY KeysAre DEF Ranges
<1>2. \A f \in C : f.smallest.key \in Nat /\ f.largest.key \in Nat
  BY KeysAre
<1>3. SUFFICES ASSUME NEW k \in q.begin..q.end PROVE \E f \in C : k \in f.smallest.key..f.largest.key
  BY DEF Covers
<1>4. k \in Int /\ q.begin <= k /\ k <= q.end
  BY <1>1
<1>5. CASE k \in r.begin..r.end
  BY <1>5 DEF Covers
<1>6. CASE k < r.begin
  <2>1. PICK f \in C : Overlaps(f, r) /\ f.smallest.key <= q.begin
    BY <1>1, <1>4, <1>6
  <2>. QED BY <1>1, <1>2, <1>4, <1>6, <2>1 DEF Overlaps
<1>7. CASE r.end < k
  <2>1. PICK f \in C : Overlaps(f, r) /\ q.end <= f.largest.key
    BY <1>1, <1>4, <1>7
  <2>. QED BY <1>1, <1>2, <1>4, <1>7, <2>1 DEF Overlaps
<1>. QED BY <1>1, <1>4, <1>5, <1>6, <1>7

\* A table that overlaps none of those that cover a range lies on one side of it.
LEMMA NoGap ==
  ASSUME NEW fs, NEW r \in Ranges, Covers(fs, r), \A f \in fs : {f.smallest.key, f.largest.key} \subseteq Keys,
         NEW q \in Ranges, q.begin <= q.end, r.begin <= r.end, \A f \in fs : ~Overlaps(f, q)
  PROVE  q.end < r.begin \/ r.end < q.begin
<1>1. {r.begin, r.end, q.begin, q.end} \subseteq Nat
  BY KeysAre DEF Ranges
<1>2. \A f \in fs : f.smallest.key \in Nat /\ f.largest.key \in Nat
  BY KeysAre
<1>3. SUFFICES ASSUME r.begin <= q.end, q.begin <= r.end PROVE FALSE
  BY <1>1
<1>. DEFINE k == IF q.begin <= r.begin THEN r.begin ELSE q.begin
<1>4. k \in r.begin..r.end /\ q.begin <= k /\ k <= q.end /\ k \in Nat
  BY <1>1, <1>3
<1>5. PICK f \in fs : k \in f.smallest.key..f.largest.key
  BY <1>4 DEF Covers
<1>6. f.smallest.key <= k /\ k <= f.largest.key /\ f.smallest.key \in Nat /\ f.largest.key \in Nat
  BY <1>2, <1>5
<1>7. Overlaps(f, q)
  <2>. HIDE DEF k
  <2>. QED BY <1>1, <1>4, <1>6 DEF Overlaps
<1>. QED BY <1>7

-------------------------------------------------------------------------------
(* The loop of GetOverlappingInputs *)

\* The range after n passes over the tables
IsWidening(h, fs, r, N) == h = [n \in 0..N |-> IF n = 0 THEN r ELSE Widened(fs, h[n - 1])]

\* The function that GetOverlappingInputs defines exists.
LEMMA WideningExists ==
  ASSUME NEW fs, NEW r, NEW N \in Nat
  PROVE  \E h : IsWidening(h, fs, r, N)
<1>. DEFINE G == {m \in Nat : \E h : IsWidening(h, fs, r, m)}
<1>1. 0 \in G
  <2>. DEFINE h == [n \in 0..0 |-> r]
  <2>1. IsWidening(h, fs, r, 0)
    BY DEF IsWidening
  <2>. QED BY <2>1
<1>2. ASSUME NEW m \in 0..(N - 1), m \in G PROVE m + 1 \in G
  <2>1. PICK h : IsWidening(h, fs, r, m)
    BY <1>2
  <2>. DEFINE g == [n \in 0..(m + 1) |-> IF n = 0 THEN r ELSE IF n = m + 1 THEN Widened(fs, h[m]) ELSE h[n]]
  <2>2. \A n \in 0..m : h[n] = IF n = 0 THEN r ELSE Widened(fs, h[n - 1])
    BY <2>1 DEF IsWidening
  <2>3. \A n \in 0..m : g[n] = h[n]
    BY <2>2
  <2>4. ASSUME NEW n \in 0..(m + 1) PROVE g[n] = IF n = 0 THEN r ELSE Widened(fs, g[n - 1])
    <3>1. CASE n = m + 1
      <4>1. g[n] = Widened(fs, h[m]) /\ n # 0 /\ n - 1 = m /\ m \in 0..m
        BY <3>1
      <4>2. g[n - 1] = h[m]
        BY <2>3, <4>1
      <4>. QED BY <4>1, <4>2
    <3>2. CASE n \in 1..m
      <4>1. g[n] = h[n] /\ n - 1 \in 0..m /\ n \in 0..m /\ n # 0
        BY <2>3, <3>2
      <4>2. g[n - 1] = h[n - 1]
        BY <2>3, <4>1
      <4>. QED BY <2>2, <4>1, <4>2
    <3>3. CASE n = 0
      BY <3>3
    <3>. QED BY <3>1, <3>2, <3>3
  <2>5. IsWidening(g, fs, r, m + 1)
    <3>1. g = [n \in 0..(m + 1) |-> g[n]]
      OBVIOUS
    <3>. HIDE DEF g
    <3>. QED BY <2>4, <3>1 DEF IsWidening
  <2>. QED BY <2>5
<1>3. 0..N \subseteq G
  <2>. HIDE DEF G
  <2>. QED BY <1>1, <1>2, AllSteps
<1>. QED BY <1>3

\* The loop ends with a range that holds all the tables that overlap it, and it leaves no gap
\* if there was none.
LEMMA WideningCloses ==
  ASSUME NEW fs, Tables(fs), NEW r \in Ranges, NEW h, IsWidening(h, fs, r, Cardinality(fs))
  PROVE  LET q == h[Cardinality(fs)] IN
         /\ q \in Ranges /\ q.begin <= r.begin /\ r.end <= q.end
         /\ \A f \in Hit(fs, q) : q.begin <= f.smallest.key /\ f.largest.key <= q.end
         /\ \A S : Covers(S, r) /\ (\A f \in S : {f.smallest.key, f.largest.key} \subseteq Keys)
                     => Covers(S \cup Hit(fs, q), q)
<1>. DEFINE N == Cardinality(fs)
            Within(n) == \A f \in Hit(fs, h[n]) : h[n].begin <= f.smallest.key /\ f.largest.key <= h[n].end
            Kept(n) == \A S : Covers(S, r) /\ (\A f \in S : {f.smallest.key, f.largest.key} \subseteq Keys)
                                => Covers(S \cup Hit(fs, h[n]), h[n])
            G == {n \in 0..N : /\ h[n] \in Ranges /\ h[n].begin <= r.begin /\ r.end <= h[n].end
                               /\ Within(n) \/ Cardinality(Hit(fs, h[n])) >= n + 1
                               /\ Kept(n)}
<1>1. N \in Nat /\ IsFiniteSet(fs)
  BY FS_CardinalityType DEF Tables
<1>2. \A n \in 0..N : h[n] = IF n = 0 THEN r ELSE Widened(fs, h[n - 1])
  BY DEF IsWidening
<1>3. r.begin \in Nat /\ r.end \in Nat
  BY KeysAre DEF Ranges
<1>4. \A f \in fs : {f.smallest.key, f.largest.key} \subseteq Keys /\ f.smallest.key <= f.largest.key
  BY TablesAre
<1>5. ASSUME NEW n \in 0..N PROVE IsFiniteSet(Hit(fs, h[n])) /\ Cardinality(Hit(fs, h[n])) \in Nat /\ Cardinality(Hit(fs, h[n])) <= N
  <2>1. Hit(fs, h[n]) \subseteq fs
    BY DEF Hit
  <2>. QED BY <1>1, <2>1, FS_Subset, FS_CardinalityType
<1>6. 0 \in G
  <2>1. h[0] = r
    BY <1>1, <1>2
  <2>2. Within(0) \/ Cardinality(Hit(fs, h[0])) >= 1
    <3>1. CASE Hit(fs, h[0]) = {}
      BY <3>1
    <3>2. CASE Hit(fs, h[0]) # {}
      <4>1. Cardinality(Hit(fs, h[0])) # 0
        BY <1>1, <1>5, <3>2, FS_EmptySet
      <4>. QED BY <1>1, <1>5, <4>1
    <3>. QED BY <3>1, <3>2
  <2>3. Kept(0)
    BY <2>1 DEF Covers
  <2>. QED BY <1>1, <1>3, <2>1, <2>2, <2>3
<1>7. ASSUME NEW n \in 0..(N - 1), n \in G PROVE n + 1 \in G
  <2>1. /\ h[n] \in Ranges /\ h[n].begin <= r.begin /\ r.end <= h[n].end
        /\ Within(n) \/ Cardinality(Hit(fs, h[n])) >= n + 1
        /\ Kept(n)
    BY <1>7
  <2>2. n \in 0..N /\ n + 1 \in 0..N /\ n + 1 # 0 /\ n + 1 - 1 = n
    BY <1>1
  <2>3. h[n + 1] = Widened(fs, h[n])
    BY <1>2, <2>2
  <2>. DEFINE q == h[n]
              p == h[n + 1]
  <2>4. /\ p \in Ranges /\ p.begin <= q.begin /\ q.end <= p.end
        /\ \A f \in Hit(fs, q) : p.begin <= f.smallest.key /\ f.largest.key <= p.end
        /\ p.begin = q.begin \/ \E f \in Hit(fs, q) : p.begin = f.smallest.key
        /\ p.end = q.end \/ \E f \in Hit(fs, q) : p.end = f.largest.key
    BY <2>1, <2>3, WidenedIs
  <2>5. {q.begin, q.end, p.begin, p.end} \subseteq Nat
    BY <2>1, <2>4, KeysAre DEF Ranges
  <2>6. \A f \in fs : f.smallest.key \in Nat /\ f.largest.key \in Nat
    BY <1>4, KeysAre
  <2>7. Hit(fs, q) \subseteq Hit(fs, p)
    <3>. HIDE DEF p, q
    <3>. QED BY <2>4, <2>5, <2>6 DEF Hit, Overlaps
  <2>8. p \in Ranges /\ p.begin <= r.begin /\ r.end <= p.end
    <3>1. q.begin <= r.begin /\ r.end <= q.end
      BY <2>1
    <3>. HIDE DEF p, q
    <3>. QED BY <2>4, <2>5, <3>1, <1>3
  <2>9. Within(n + 1) \/ Cardinality(Hit(fs, p)) >= n + 1 + 1
    <3>1. CASE Hit(fs, p) = Hit(fs, q)
      BY <2>4, <3>1
    <3>2. CASE Hit(fs, p) # Hit(fs, q)
      <4>1. Hit(fs, q) \in SUBSET Hit(fs, p) /\ IsFiniteSet(Hit(fs, p)) /\ IsFiniteSet(Hit(fs, q))
        BY <1>5, <2>2, <2>7
      <4>2. Cardinality(Hit(fs, q)) <= Cardinality(Hit(fs, p)) /\ Cardinality(Hit(fs, q)) # Cardinality(Hit(fs, p))
        BY <3>2, <4>1, FS_Subset
      <4>3. CASE Within(n)
        <5>1. p.begin = q.begin /\ p.end = q.end
          <6>1. \A f \in Hit(fs, q) : q.begin <= f.smallest.key /\ f.largest.key <= q.end /\ f \in fs
            BY <4>3 DEF Hit
          <6>. HIDE DEF p, q
          <6>. QED BY <2>4, <2>5, <2>6, <6>1
        <5>2. Hit(fs, p) = Hit(fs, q)
          <6>. HIDE DEF p, q
          <6>. QED BY <5>1 DEF Hit, Overlaps
        <5>. QED BY <3>2, <5>2
      <4>4. CASE Cardinality(Hit(fs, q)) >= n + 1
        <5>1. Cardinality(Hit(fs, q)) \in Nat /\ Cardinality(Hit(fs, p)) \in Nat
          BY <1>5, <2>2
        <5>. QED BY <4>2, <4>4, <5>1, <2>2
      <4>. QED BY <2>1, <4>3, <4>4
    <3>. QED BY <3>1, <3>2
  <2>10. Kept(n + 1)
    <3>. SUFFICES ASSUME NEW S, Covers(S, r), \A f \in S : {f.smallest.key, f.largest.key} \subseteq Keys
                  PROVE  Covers(S \cup Hit(fs, p), p)
      OBVIOUS
    <3>1. Covers(S \cup Hit(fs, q), q)
      BY <2>1
    <3>2. S \cup Hit(fs, q) \subseteq S \cup Hit(fs, p)
      BY <2>7
    <3>3. \A f \in S \cup Hit(fs, p) : {f.smallest.key, f.largest.key} \subseteq Keys
      BY <1>4 DEF Hit
    <3>4. \A f \in Hit(fs, q) : Overlaps(f, q) /\ f \in S \cup Hit(fs, p) /\ f \in fs
      BY <2>7 DEF Hit
    <3>5. q.begin <= p.begin \/ \E f \in S \cup Hit(fs, p) : Overlaps(f, q) /\ f.smallest.key <= p.begin
      <4>. HIDE DEF p, q
      <4>. QED BY <2>4, <2>5, <2>6, <3>4
    <3>6. p.end <= q.end \/ \E f \in S \cup Hit(fs, p) : Overlaps(f, q) /\ p.end <= f.largest.key
      <4>. HIDE DEF p, q
      <4>. QED BY <2>4, <2>5, <2>6, <3>4
    <3>7. q \in Ranges /\ p \in Ranges
      BY <2>1, <2>4
    <3>. HIDE DEF p, q
    <3>. QED BY <3>1, <3>2, <3>3, <3>5, <3>6, <3>7, CoversWider
  <2>. QED BY <2>2, <2>8, <2>9, <2>10
<1>8. 0..N \subseteq G
  <2>. HIDE DEF G, N
  <2>. QED BY <1>1, <1>6, <1>7, AllSteps
<1>9. N \in G
  BY <1>1, <1>8
<1>10. Within(N)
  <2>1. Within(N) \/ Cardinality(Hit(fs, h[N])) >= N + 1
    BY <1>9
  <2>. QED BY <1>1, <1>5, <2>1
<1>. QED BY <1>9, <1>10

\* A range that holds the tables that overlap it, and leaves no gap if there was none in r.
Closes(fs, r, q) ==
  /\ \A f \in Hit(fs, q) : q.begin <= f.smallest.key /\ f.largest.key <= q.end
  /\ \A S : Covers(S, r) /\ (\A f \in S : {f.smallest.key, f.largest.key} \subseteq Keys)
              => Covers(S \cup Hit(fs, q), q)

\* What Version::GetOverlappingInputs returns: in level 0 all that overlap a range which holds
\* them, in the other levels the tables that overlap the range it is called with.
LEMMA OverlappingAre ==
  ASSUME NEW level, NEW fs, fs = files_[level], Tables(fs), NEW r \in Ranges
  PROVE  \E q \in Ranges :
           /\ GetOverlappingInputs(level, r) = Hit(fs, q)
           /\ q.begin <= r.begin /\ r.end <= q.end
           /\ level # 0 => q = r
           /\ level = 0 => Closes(fs, r, q)
<1>1. CASE level # 0
  <2>1. GetOverlappingInputs(level, r) = Hit(fs, r)
    BY <1>1 DEF GetOverlappingInputs
  <2>2. r.begin <= r.begin /\ r.end <= r.end
    BY KeysAre DEF Ranges
  <2>. QED BY <1>1, <2>1, <2>2
<1>2. CASE level = 0
  <2>. DEFINE h == CHOOSE h : IsWidening(h, files_[level], r, Cardinality(files_[level]))
  <2>1. IsWidening(h, fs, r, Cardinality(fs))
    <3>1. Cardinality(fs) \in Nat
      BY FS_CardinalityType DEF Tables
    <3>. QED BY <3>1, WideningExists
  <2>2. GetOverlappingInputs(level, r) = Hit(fs, h[Cardinality(fs)])
    BY <1>2 DEF GetOverlappingInputs, IsWidening
  <2>. HIDE DEF h
  <2>3. PICK g : g = h
    OBVIOUS
  <2>4. LET q == g[Cardinality(fs)] IN
         /\ q \in Ranges /\ q.begin <= r.begin /\ r.end <= q.end
         /\ \A f \in Hit(fs, q) : q.begin <= f.smallest.key /\ f.largest.key <= q.end
         /\ \A S : Covers(S, r) /\ (\A f \in S : {f.smallest.key, f.largest.key} \subseteq Keys)
                     => Covers(S \cup Hit(fs, q), q)
    BY <2>1, <2>3, WideningCloses
  <2>. QED BY <1>2, <2>2, <2>3, <2>4 DEF Closes
<1>. QED BY <1>1, <1>2

-------------------------------------------------------------------------------
(* The loop of AddBoundaryInputs *)

Disjoint(fs) == \A f, g \in fs : f # g => Before(f.largest, g.smallest) \/ Before(g.largest, f.smallest)

\* Between two of the chosen tables of a level there is no other.
NoneBetween(fs, chosen) ==
  \A f, h \in chosen, g \in fs : Before(f.largest, g.smallest) /\ Before(g.largest, h.smallest) => g \in chosen

\* No other table of the level has a key of the chosen ones.
AllTaken(fs, chosen) == \A f \in fs \ chosen : \A e \in f.entries, d \in EntriesOf(chosen) : e.key # d.key

\* What the other tables have of a key is newer.
OldestOf(fs, chosen) ==
  \A f \in fs \ chosen : \A e \in f.entries, d \in EntriesOf(chosen) : e.key = d.key => e.seq > d.seq

\* If all that overlaps a range lies within it, no other file has one of its keys.
LEMMA HitTaken ==
  ASSUME NEW fs, Tables(fs), NEW q \in Ranges,
         \A f \in Hit(fs, q) : q.begin <= f.smallest.key /\ f.largest.key <= q.end
  PROVE  AllTaken(fs, Hit(fs, q))
<1>1. SUFFICES ASSUME NEW f \in fs \ Hit(fs, q), NEW e \in f.entries, NEW d \in EntriesOf(Hit(fs, q)), e.key = d.key
               PROVE  FALSE
  BY DEF AllTaken
<1>2. PICK g \in Hit(fs, q) : d \in g.entries
  BY DEF EntriesOf
<1>3. g \in fs /\ Table(f) /\ Table(g)
  BY DEF Hit, Tables
<1>4. /\ f.smallest.key <= e.key /\ e.key <= f.largest.key /\ g.smallest.key <= d.key /\ d.key <= g.largest.key
      /\ {f.smallest.key, f.largest.key, g.smallest.key, g.largest.key} \subseteq Keys /\ e \in Entry /\ d \in Entry
  BY <1>2, <1>3, TableIs
<1>5. {f.smallest.key, f.largest.key, g.smallest.key, g.largest.key, e.key, d.key, q.begin, q.end} \subseteq Nat
  BY <1>4, EntryIs, KeysAre DEF Ranges
<1>6. q.begin <= g.smallest.key /\ g.largest.key <= q.end
  BY <1>2
<1>7. ~(f.smallest.key <= q.end /\ q.begin <= f.largest.key)
  BY DEF Hit, Overlaps
<1>. QED BY <1>1, <1>4, <1>5, <1>6, <1>7

\* Of two disjoint files every entry of the one is before every entry of the other.
LEMMA SidesAre ==
  ASSUME NEW f, NEW g, Table(f), Table(g), Before(f.largest, g.smallest)
  PROVE  /\ \A d \in f.entries, e \in g.entries : Before(d, e) /\ d.key <= e.key
         /\ Before(f.smallest, g.smallest) /\ Before(f.largest, g.largest) /\ Before(f.smallest, g.largest)
         /\ f.largest.key <= g.smallest.key
         /\ f # g /\ ~Before(g.largest, f.smallest)
<1>1. /\ {f.smallest, f.largest, g.smallest, g.largest} \subseteq Entry
      /\ \A d \in f.entries : d \in Entry /\ (d = f.largest \/ Before(d, f.largest))
      /\ \A e \in g.entries : e \in Entry /\ (e = g.smallest \/ Before(g.smallest, e))
      /\ f.smallest \in f.entries /\ f.largest \in f.entries /\ g.smallest \in g.entries /\ g.largest \in g.entries
  BY TableIs
<1>2. ASSUME NEW d \in f.entries, NEW e \in g.entries PROVE Before(d, e) /\ d.key <= e.key
  <2>1. d \in Entry /\ e \in Entry /\ f.largest \in Entry /\ g.smallest \in Entry
    BY <1>1
  <2>2. Before(d, g.smallest)
    BY <1>1, <2>1, BeforeIsOrder
  <2>3. Before(d, e)
    BY <1>1, <2>1, <2>2, BeforeIsOrder
  <2>. QED BY <2>1, <2>3, BeforeIsOrder
<1>3. f # g /\ ~Before(g.largest, f.smallest)
  <2>1. Before(f.smallest, g.largest)
    BY <1>1, <1>2
  <2>2. ~Before(g.largest, f.smallest)
    BY <1>1, <2>1, BeforeIsOrder
  <2>3. f # g
    BY <1>1, <1>2, BeforeIsOrder
  <2>. QED BY <2>2, <2>3
<1>. QED BY <1>1, <1>2, <1>3

\* Files of a level without a boundary file hold the oldest entries of their keys.
LEMMA OldestChosen ==
  ASSUME NEW fs, Tables(fs), Disjoint(fs), NEW chosen, chosen \subseteq fs, chosen # {}, NoneBetween(fs, chosen),
         Boundary(fs, chosen) = {}
  PROVE  OldestOf(fs, chosen)
<1>1. SUFFICES ASSUME NEW f \in fs \ chosen, NEW e \in f.entries, NEW d \in EntriesOf(chosen), e.key = d.key
               PROVE  e.seq > d.seq
  BY DEF OldestOf
<1>2. PICK g \in chosen : d \in g.entries
  BY DEF EntriesOf
<1>3. Table(f) /\ Table(g) /\ f # g
  BY DEF Tables
<1>4. e \in Entry /\ d \in Entry /\ {e.key, d.key, e.seq, d.seq} \subseteq Nat
  BY <1>2, <1>3, TableIs, EntryIs
<1>5. CASE Before(f.largest, g.smallest)
  <2>1. Before(e, d)
    BY <1>2, <1>3, <1>5, SidesAre
  <2>. QED BY <1>1, <1>4, <2>1 DEF Before
<1>6. CASE Before(g.largest, f.smallest)
  <2>. DEFINE last == Largest(EntriesOf(chosen))
  <2>1. Ordered(EntriesOf(chosen)) /\ EntriesOf(chosen) # {}
    BY TablesAre DEF Tables
  <2>2. last \in EntriesOf(chosen) /\ \A x \in EntriesOf(chosen) : x = last \/ Before(x, last)
    BY <2>1, LargestIs
  <2>. HIDE DEF last
  <2>3. PICK h \in chosen : last \in h.entries
    BY <2>2 DEF EntriesOf
  <2>4. Table(h) /\ f # h
    BY DEF Tables
  <2>5. CASE Before(h.largest, f.smallest)
    <3>1. Before(last, f.smallest) /\ last.key <= f.smallest.key
      BY <1>3, <2>3, <2>4, <2>5, SidesAre, TableIs
    <3>2. d.key <= last.key /\ last \in Entry
      <4>1. last \in Entry
        BY <2>3, <2>4, TableIs
      <4>. QED BY <1>4, <2>2, <4>1, BeforeIsOrder
    <3>3. f.smallest.key <= e.key /\ {f.smallest.key, last.key} \subseteq Nat
      BY <1>3, <3>2, TableIs, EntryIs
    <3>4. f.smallest.key = last.key
      BY <1>1, <1>4, <3>1, <3>2, <3>3
    <3>5. f \in Boundary(fs, chosen)
      BY <3>1, <3>4 DEF Boundary, last
    <3>. QED BY <3>5
  <2>6. CASE Before(f.largest, h.smallest)
    BY <1>6, <2>6 DEF NoneBetween
  <2>. QED BY <2>4, <2>5, <2>6 DEF Disjoint
<1>. QED BY <1>3, <1>5, <1>6 DEF Disjoint

\* Files whose keys are in no other file have no boundary file.
LEMMA TakenHasNoBoundary ==
  ASSUME NEW fs, Tables(fs), NEW chosen, chosen \subseteq fs, chosen # {}, AllTaken(fs, chosen)
  PROVE  Boundary(fs, chosen) = {}
<1>. DEFINE last == Largest(EntriesOf(chosen))
<1>1. Ordered(EntriesOf(chosen)) /\ EntriesOf(chosen) # {}
  <2>1. PICK f \in chosen : TRUE
    OBVIOUS
  <2>2. f.smallest \in EntriesOf(chosen)
    BY <2>1, TablesAre
  <2>. QED BY <2>2, TablesAre DEF Tables
<1>2. last \in EntriesOf(chosen) /\ \A x \in EntriesOf(chosen) : x = last \/ Before(x, last)
  BY <1>1, LargestIs
<1>. HIDE DEF last
<1>3. SUFFICES ASSUME NEW f \in fs, Before(last, f.smallest), f.smallest.key = last.key PROVE FALSE
  BY DEF Boundary, last
<1>4. f.smallest \in f.entries /\ f.smallest \in Entry /\ last \in Entry
  <2>1. Table(f) /\ EntriesOf(chosen) \subseteq Entry
    BY TablesAre
  <2>. QED BY <1>2, <2>1, TableIs
<1>5. f \in chosen
  BY <1>2, <1>3, <1>4 DEF AllTaken
<1>6. f.smallest \in EntriesOf(chosen)
  BY <1>4, <1>5 DEF EntriesOf
<1>. QED BY <1>2, <1>3, <1>4, <1>6, BeforeIsOrder

-------------------------------------------------------------------------------
(* Tables that leave no gap *)

Solid(S) == Covers(S, GetRange(S))

\* Inputs without a gap: one file, files that cover a range, and files with what overlaps them.
LEMMA SolidOne ==
  ASSUME NEW f, Tables({f})
  PROVE  Solid({f})
<1>. DEFINE r == GetRange({f})
<1>1. r.begin = f.smallest.key /\ r.end = f.largest.key
  BY RangeIs
<1>. HIDE DEF r
<1>2. \A k \in r.begin..r.end : k \in f.smallest.key..f.largest.key
  BY <1>1
<1>. QED BY <1>2 DEF Solid, Covers, r

LEMMA SolidWithin ==
  ASSUME NEW S, Tables(S), S # {}, NEW q \in Ranges, Covers(S, q),
         \A f \in S : q.begin <= f.smallest.key /\ f.largest.key <= q.end
  PROVE  Solid(S)
<1>. DEFINE r == GetRange(S)
<1>1. r \in Ranges /\ q.begin <= r.begin /\ r.end <= q.end
  <2>1. /\ r \in Ranges
        /\ \E f \in S : r.begin = f.smallest.key
        /\ \E f \in S : r.end = f.largest.key
    BY RangeIs
  <2>. HIDE DEF r
  <2>. QED BY <2>1
<1>2. {r.begin, r.end, q.begin, q.end} \subseteq Nat
  BY <1>1, KeysAre DEF Ranges
<1>. HIDE DEF r
<1>3. r.begin..r.end \subseteq q.begin..q.end
  BY <1>1, <1>2
<1>. QED BY <1>3 DEF Solid, Covers, r

LEMMA SolidMore ==
  ASSUME NEW S, NEW B, Tables(S \cup B), S # {}, Solid(S), \A f \in B : Overlaps(f, GetRange(S))
  PROVE  Solid(S \cup B)
<1>. DEFINE r == GetRange(S)
            q == GetRange(S \cup B)
<1>1. Tables(S)
  BY TablesAre
<1>2. r \in Ranges /\ \A f \in S : r.begin <= f.smallest.key /\ f.largest.key <= r.end
  BY <1>1, RangeIs
<1>3. /\ q \in Ranges
      /\ \E f \in S \cup B : q.begin = f.smallest.key
      /\ \E f \in S \cup B : q.end = f.largest.key
  BY RangeIs
<1>4. \A f \in S \cup B : {f.smallest.key, f.largest.key} \subseteq Keys
  BY TablesAre
<1>5. Covers(S, r) /\ \A f \in B : Overlaps(f, r)
  BY DEF Solid
<1>6. {r.begin, r.end, q.begin, q.end} \subseteq Nat /\ \A f \in S \cup B : {f.smallest.key, f.largest.key} \subseteq Nat
  BY <1>2, <1>3, <1>4, KeysAre DEF Ranges
<1>. HIDE DEF r, q
<1>7. r.begin <= q.begin \/ \E f \in S \cup B : Overlaps(f, r) /\ f.smallest.key <= q.begin
  <2>1. PICK f \in S \cup B : q.begin = f.smallest.key
    BY <1>3
  <2>2. CASE f \in S
    BY <1>2, <2>1, <2>2
  <2>3. CASE f \in B
    BY <1>5, <1>6, <2>1, <2>3
  <2>. QED BY <2>2, <2>3
<1>8. q.end <= r.end \/ \E f \in S \cup B : Overlaps(f, r) /\ q.end <= f.largest.key
  <2>1. PICK f \in S \cup B : q.end = f.largest.key
    BY <1>3
  <2>2. CASE f \in S
    BY <1>2, <2>1, <2>2
  <2>3. CASE f \in B
    BY <1>5, <1>6, <2>1, <2>3
  <2>. QED BY <2>2, <2>3
<1>9. S \subseteq S \cup B
  OBVIOUS
<1>10. Covers(S \cup B, q)
  BY <1>2, <1>3, <1>4, <1>5, <1>7, <1>8, <1>9, CoversWider
<1>. QED BY <1>10 DEF Solid, q

-------------------------------------------------------------------------------
(* The loop of AddBoundaryInputs, step by step *)

IsGrowth(h, fs, chosen, N) ==
  h = [n \in 0..N |-> IF n = 0 THEN chosen ELSE h[n - 1] \cup First(Boundary(fs, h[n - 1]))]

\* The function that AddBoundaryInputs defines exists.
LEMMA GrowthExists ==
  ASSUME NEW fs, NEW chosen, NEW N \in Nat
  PROVE  \E h : IsGrowth(h, fs, chosen, N)
<1>. DEFINE G == {m \in Nat : \E h : IsGrowth(h, fs, chosen, m)}
            Grown(c) == c \cup First(Boundary(fs, c))
<1>1. 0 \in G
  <2>. DEFINE h == [n \in 0..0 |-> chosen]
  <2>1. IsGrowth(h, fs, chosen, 0)
    BY DEF IsGrowth
  <2>. QED BY <2>1
<1>2. ASSUME NEW m \in 0..(N - 1), m \in G PROVE m + 1 \in G
  <2>1. PICK h : IsGrowth(h, fs, chosen, m)
    BY <1>2
  <2>. DEFINE g == [n \in 0..(m + 1) |-> IF n = 0 THEN chosen ELSE IF n = m + 1 THEN Grown(h[m]) ELSE h[n]]
  <2>2. \A n \in 0..m : h[n] = IF n = 0 THEN chosen ELSE Grown(h[n - 1])
    BY <2>1 DEF IsGrowth
  <2>. HIDE DEF Grown
  <2>3. \A n \in 0..m : g[n] = h[n]
    BY <2>2
  <2>4. ASSUME NEW n \in 0..(m + 1) PROVE g[n] = IF n = 0 THEN chosen ELSE Grown(g[n - 1])
    <3>1. CASE n = m + 1
      <4>1. g[n] = Grown(h[m]) /\ n # 0 /\ n - 1 = m /\ m \in 0..m
        BY <3>1
      <4>2. g[n - 1] = h[m]
        BY <2>3, <4>1
      <4>. QED BY <4>1, <4>2
    <3>2. CASE n \in 1..m
      <4>1. g[n] = h[n] /\ n - 1 \in 0..m /\ n \in 0..m /\ n # 0
        BY <2>3, <3>2
      <4>2. g[n - 1] = h[n - 1]
        BY <2>3, <4>1
      <4>. QED BY <2>2, <4>1, <4>2
    <3>3. CASE n = 0
      BY <3>3
    <3>. QED BY <3>1, <3>2, <3>3
  <2>5. IsGrowth(g, fs, chosen, m + 1)
    <3>1. g = [n \in 0..(m + 1) |-> g[n]]
      OBVIOUS
    <3>. HIDE DEF g
    <3>2. g = [n \in 0..(m + 1) |-> IF n = 0 THEN chosen ELSE Grown(g[n - 1])]
      BY <2>4, <3>1
    <3>. QED BY <3>2 DEF IsGrowth, Grown
  <2>. QED BY <2>5
<1>3. 0..N \subseteq G
  <2>. HIDE DEF G
  <2>. QED BY <1>1, <1>2, AllSteps
<1>. QED BY <1>3

\* The tables that the loop may start from
Chosen(fs, chosen) ==
  /\ chosen \subseteq fs /\ chosen # {}
  /\ AllTaken(fs, chosen) \/ (Disjoint(fs) /\ NoneBetween(fs, chosen))

\* A step of the loop that finds a boundary file
LEMMA GrowthStep ==
  ASSUME NEW fs, Tables(fs), Disjoint(fs), NEW chosen, chosen \subseteq fs, chosen # {}, NoneBetween(fs, chosen),
         Boundary(fs, chosen) # {}
  PROVE  LET new == First(Boundary(fs, chosen)) IN
         /\ new # {} /\ new \subseteq fs /\ new \cap chosen = {} /\ NoneBetween(fs, chosen \cup new)
         /\ \A f \in new : Overlaps(f, GetRange(chosen))
<1>. DEFINE B == Boundary(fs, chosen)
            new == First(B)
            last == Largest(EntriesOf(chosen))
            r == GetRange(chosen)
<1>1. Tables(chosen) /\ EntriesOf(chosen) \subseteq Entry /\ Ordered(EntriesOf(chosen)) /\ EntriesOf(chosen) # {}
  <2>1. Tables(chosen) /\ EntriesOf(chosen) \subseteq EntriesOf(fs)
    BY TablesAre
  <2>2. PICK f \in chosen : TRUE
    OBVIOUS
  <2>3. f.smallest \in EntriesOf(chosen)
    BY <2>1, <2>2, TablesAre
  <2>. QED BY <2>1, <2>3 DEF Tables, Ordered
<1>2. last \in EntriesOf(chosen) /\ last \in Entry /\ \A x \in EntriesOf(chosen) : x = last \/ Before(x, last)
  BY <1>1, LargestIs
<1>3. B \subseteq fs /\ \A f \in B : Before(last, f.smallest) /\ f.smallest.key = last.key
  BY DEF Boundary
<1>4. new \subseteq B /\ \A f \in new, g \in B : ~Before(g.smallest, f.smallest)
  BY DEF First
<1>5. \A f \in fs : Table(f) /\ f.smallest \in Entry /\ f.largest \in Entry /\ f.smallest \in f.entries /\ f.largest \in f.entries
  BY TableIs DEF Tables
<1>6. new # {}
  <2>. DEFINE T == {f.smallest : f \in B}
  <2>1. Ordered(T) /\ T # {}
    <3>1. T \subseteq EntriesOf(fs)
      BY <1>3, <1>5 DEF EntriesOf
    <3>. QED BY <3>1 DEF Tables, Ordered
  <2>2. Smallest(T) \in T /\ \A d \in T : d = Smallest(T) \/ Before(Smallest(T), d)
    <3>. HIDE DEF T
    <3>. QED BY <2>1, SmallestIs
  <2>3. PICK f \in B : f.smallest = Smallest(T)
    BY <2>2
  <2>4. ASSUME NEW g \in B PROVE ~Before(g.smallest, f.smallest)
    <3>1. g.smallest \in Entry /\ f.smallest \in Entry
      BY <1>3, <1>5
    <3>2. g.smallest = f.smallest \/ Before(f.smallest, g.smallest)
      BY <2>2, <2>3
    <3>. QED BY <3>1, <3>2, BeforeIsOrder
  <2>. HIDE DEF B, T
  <2>. QED BY <2>3, <2>4 DEF First
<1>. HIDE DEF B, new, last
<1>7. PICK p \in chosen : last \in p.entries
  BY <1>2 DEF EntriesOf
<1>8. \A f \in chosen : f \in fs /\ f.smallest \in EntriesOf(chosen) /\ f.largest \in EntriesOf(chosen)
  BY <1>5 DEF EntriesOf
<1>9. ASSUME NEW f \in B, NEW x \in EntriesOf(chosen) PROVE Before(x, f.smallest) /\ ~Before(f.smallest, x)
  <2>1. x \in Entry /\ f.smallest \in Entry /\ Before(last, f.smallest)
    BY <1>1, <1>3, <1>5
  <2>2. Before(x, f.smallest)
    BY <1>2, <2>1, BeforeIsOrder
  <2>. QED BY <2>1, <2>2, BeforeIsOrder
<1>10. new \cap chosen = {}
  <2>1. SUFFICES ASSUME NEW f \in new, f \in chosen PROVE FALSE
    OBVIOUS
  <2>2. Before(f.smallest, f.smallest)
    BY <1>4, <1>8, <1>9, <2>1
  <2>. QED BY <1>5, <1>8, <2>1, <2>2, BeforeIsOrder
<1>11. NoneBetween(fs, chosen \cup new)
  <2>1. SUFFICES ASSUME NEW f \in chosen \cup new, NEW h \in chosen \cup new, NEW g \in fs,
                        Before(f.largest, g.smallest), Before(g.largest, h.smallest)
                 PROVE  g \in chosen \cup new
    BY DEF NoneBetween
  <2>2. f \in fs /\ h \in fs /\ Table(f) /\ Table(g) /\ Table(h)
    BY <1>3, <1>4, <1>5
  <2>3. Before(f.smallest, g.smallest) /\ Before(g.smallest, h.smallest) /\ g.smallest.key <= h.smallest.key
    <3>1. Before(f.smallest, g.smallest) /\ Before(g.smallest, h.smallest)
      BY <2>1, <2>2, SidesAre
    <3>. QED BY <1>5, <2>2, <3>1, BeforeIsOrder
  <2>4. Before(f.smallest, h.smallest)
    BY <1>5, <2>2, <2>3, BeforeIsOrder
  <2>5. CASE f \in chosen /\ h \in chosen
    BY <2>1, <2>5 DEF NoneBetween
  <2>6. CASE f \in new
    <3>1. h \notin new
      BY <1>4, <2>4, <2>6
    <3>2. h.smallest \in EntriesOf(chosen) /\ f \in B
      BY <1>4, <1>8, <2>6, <3>1
    <3>. QED BY <1>9, <2>4, <3>2
  <2>7. CASE f \in chosen /\ h \in new
    <3>1. CASE g = p
      BY <3>1
    <3>2. CASE Before(g.largest, p.smallest)
      BY <2>1, <2>7, <3>2 DEF NoneBetween
    <3>3. CASE Before(p.largest, g.smallest)
      <4>1. Before(last, g.smallest) /\ last.key <= g.smallest.key
        BY <1>5, <1>7, <1>8, <3>3, SidesAre
      <4>2. h.smallest.key = last.key /\ h \in B
        BY <1>3, <1>4, <2>7
      <4>3. {last.key, g.smallest.key, h.smallest.key} \subseteq Nat
        BY <1>2, <1>5, <2>2, EntryIs
      <4>4. g.smallest.key = last.key
        BY <2>3, <4>1, <4>2, <4>3
      <4>5. g \in B
        BY <4>1, <4>4 DEF B, Boundary, last
      <4>. QED BY <1>4, <2>3, <2>7, <4>5
    <3>. QED BY <1>8, <3>1, <3>2, <3>3 DEF Disjoint
  <2>. QED BY <2>5, <2>6, <2>7
<1>12. ASSUME NEW f \in new PROVE Overlaps(f, r)
  <2>1. r.begin <= last.key /\ last.key <= r.end /\ r \in Ranges
    BY <1>1, <1>2, RangeIs
  <2>2. f.smallest.key = last.key /\ f.smallest.key <= f.largest.key /\ {f.smallest.key, f.largest.key} \subseteq Keys
    BY <1>3, <1>4, <1>5, TableIs
  <2>3. {r.begin, r.end, last.key, f.smallest.key, f.largest.key} \subseteq Nat
    BY <1>2, <2>1, <2>2, EntryIs, KeysAre DEF Ranges
  <2>. HIDE DEF r
  <2>. QED BY <2>1, <2>2, <2>3 DEF Overlaps
<1>13. new \subseteq fs
  BY <1>3, <1>4
<1>. QED BY <1>6, <1>10, <1>11, <1>12, <1>13 DEF B, new

\* What AddBoundaryInputs returns.
LEMMA GrowthEnds ==
  ASSUME NEW fs, Tables(fs), NEW chosen, Chosen(fs, chosen)
  PROVE  LET T == AddBoundaryInputs(fs, chosen) IN
         /\ chosen \subseteq T /\ T \subseteq fs /\ OldestOf(fs, T)
         /\ \A S : Tables(S \cup fs) /\ chosen \subseteq S /\ Solid(S) => Solid(S \cup T)
<1>. DEFINE N == Cardinality(fs)
            Grown(c) == c \cup First(Boundary(fs, c))
<1>1. N \in Nat /\ IsFiniteSet(fs)
  BY FS_CardinalityType DEF Tables
<1>2. \E h : IsGrowth(h, fs, chosen, N) /\ AddBoundaryInputs(fs, chosen) = h[N]
  <2>. DEFINE h == CHOOSE h : IsGrowth(h, fs, chosen, Cardinality(fs))
  <2>1. IsGrowth(h, fs, chosen, N)
    BY <1>1, GrowthExists
  <2>2. AddBoundaryInputs(fs, chosen) = h[N]
    BY DEF AddBoundaryInputs, IsGrowth, Chosen
  <2>. QED BY <2>1, <2>2
<1>3. PICK h : IsGrowth(h, fs, chosen, N) /\ AddBoundaryInputs(fs, chosen) = h[N]
  BY <1>2
<1>4. \A n \in 0..N : h[n] = IF n = 0 THEN chosen ELSE Grown(h[n - 1])
  BY <1>3 DEF IsGrowth
<1>5. \A c : Boundary(fs, c) = {} => Grown(c) = c
  BY DEF First
<1>6. \A c : Grown(c) = c \cup First(Boundary(fs, c))
  OBVIOUS
<1>. HIDE DEF Grown
<1>7. CASE AllTaken(fs, chosen)
  <2>1. Boundary(fs, chosen) = {}
    BY <1>7, TakenHasNoBoundary DEF Chosen
  <2>. DEFINE G == {n \in 0..N : h[n] = chosen}
  <2>2. 0 \in G
    BY <1>1, <1>4
  <2>3. ASSUME NEW n \in 0..(N - 1), n \in G PROVE n + 1 \in G
    <3>1. n + 1 \in 0..N /\ n + 1 # 0 /\ n + 1 - 1 = n
      BY <1>1
    <3>. QED BY <1>4, <1>5, <2>1, <2>3, <3>1
  <2>4. 0..N \subseteq G
    <3>. HIDE DEF G, N
    <3>. QED BY <1>1, <2>2, <2>3, AllSteps
  <2>5. h[N] = chosen
    BY <1>1, <2>4
  <2>6. OldestOf(fs, chosen)
    BY <1>7 DEF AllTaken, OldestOf
  <2>7. \A S : chosen \subseteq S => S \cup chosen = S
    OBVIOUS
  <2>. QED BY <1>3, <2>5, <2>6, <2>7 DEF Chosen
<1>8. CASE Disjoint(fs) /\ NoneBetween(fs, chosen)
  <2>. DEFINE Kept(T) == \A S : Tables(S \cup fs) /\ chosen \subseteq S /\ Solid(S) => Solid(S \cup T)
              G == {n \in 0..N : /\ chosen \subseteq h[n] /\ h[n] \subseteq fs /\ NoneBetween(fs, h[n])
                                 /\ Boundary(fs, h[n]) = {} \/ Cardinality(h[n]) >= n + 1
                                 /\ Kept(h[n])}
  <2>1. chosen \subseteq fs /\ chosen # {}
    BY DEF Chosen
  <2>2. ASSUME NEW c, c \subseteq fs PROVE IsFiniteSet(c) /\ Cardinality(c) \in Nat /\ Cardinality(c) <= N
    BY <1>1, <2>2, FS_Subset, FS_CardinalityType
  <2>3. 0 \in G
    <3>1. h[0] = chosen
      BY <1>1, <1>4
    <3>2. Cardinality(chosen) \in Nat /\ Cardinality(chosen) # 0
      BY <2>1, <2>2, FS_EmptySet
    <3>3. Kept(chosen)
      <4>1. \A S : chosen \subseteq S => S \cup chosen = S
        OBVIOUS
      <4>. QED BY <4>1
    <3>. HIDE DEF N, Kept
    <3>. QED BY <1>1, <1>8, <2>1, <3>1, <3>2, <3>3
  <2>4. ASSUME NEW n \in 0..(N - 1), n \in G PROVE n + 1 \in G
    <3>1. n + 1 \in 0..N /\ n + 1 # 0 /\ n + 1 - 1 = n /\ n \in Nat
      BY <1>1
    <3>. DEFINE c == h[n]
                new == First(Boundary(fs, c))
    <3>2. h[n + 1] = c \cup new /\ h[n + 1] = Grown(c)
      BY <1>4, <1>6, <3>1
    <3>3. /\ chosen \subseteq c /\ c \subseteq fs /\ NoneBetween(fs, c) /\ Kept(c)
          /\ Boundary(fs, c) = {} \/ Cardinality(c) >= n + 1
      BY <2>4
    <3>4. CASE Boundary(fs, c) = {}
      <4>1. h[n + 1] = c
        BY <1>5, <3>2, <3>4
      <4>. HIDE DEF c, Kept, N
      <4>. QED BY <3>1, <3>3, <3>4, <4>1
    <3>5. CASE Boundary(fs, c) # {}
      <4>. HIDE DEF N
      <4>0. PICK b : b = c
        OBVIOUS
      <4>1. LET x == First(Boundary(fs, b)) IN
            /\ x # {} /\ x \subseteq fs /\ x \cap b = {} /\ NoneBetween(fs, b \cup x)
            /\ \A f \in x : Overlaps(f, GetRange(b))
        BY <1>8, <2>1, <3>3, <3>5, <4>0, GrowthStep
      <4>2. /\ new # {} /\ new \subseteq fs /\ new \cap c = {} /\ NoneBetween(fs, c \cup new)
            /\ \A f \in new : Overlaps(f, GetRange(c))
        BY <4>0, <4>1
      <4>. HIDE DEF new, c, Kept
      <4>3. Cardinality(c \cup new) >= n + 1 + 1
        <5>1. c \cup new \subseteq fs /\ c \in SUBSET (c \cup new) /\ c # c \cup new
          BY <3>3, <4>2
        <5>2. IsFiniteSet(c \cup new) /\ Cardinality(c \cup new) \in Nat /\ Cardinality(c) \in Nat
          BY <2>2, <3>3, <5>1
        <5>3. Cardinality(c) <= Cardinality(c \cup new) /\ Cardinality(c) # Cardinality(c \cup new)
          BY <5>1, <5>2, FS_Subset
        <5>. QED BY <3>1, <3>3, <3>5, <5>2, <5>3
      <4>4. Kept(c \cup new)
        <5>1. SUFFICES ASSUME NEW S, Tables(S \cup fs), chosen \subseteq S, Solid(S) PROVE Solid(S \cup (c \cup new))
          BY DEF Kept
        <5>2. Solid(S \cup c)
          BY <3>3, <5>1 DEF Kept
        <5>3. Tables(S \cup c) /\ Tables((S \cup c) \cup new) /\ c # {} /\ Tables(c)
          <6>1. S \cup c \subseteq S \cup fs /\ (S \cup c) \cup new \subseteq S \cup fs /\ c \subseteq S \cup fs
            BY <3>3, <4>2
          <6>. QED BY <2>1, <3>3, <5>1, <6>1, TablesAre
        <5>4. ASSUME NEW f \in new PROVE Overlaps(f, GetRange(S \cup c))
          <6>. DEFINE r == GetRange(c)
                      q == GetRange(S \cup c)
          <6>1. /\ r \in Ranges /\ \E x \in c : r.begin = x.smallest.key /\ \E y \in c : r.end = y.largest.key
            BY <5>3, RangeIs
          <6>2. q \in Ranges /\ \A x \in S \cup c : q.begin <= x.smallest.key /\ x.largest.key <= q.end
            BY <5>3, RangeIs
          <6>3. q.begin <= r.begin /\ r.end <= q.end
            <7>. HIDE DEF q, r
            <7>. QED BY <6>1, <6>2
          <6>4. Overlaps(f, r)
            BY <4>2
          <6>5. {f.smallest.key, f.largest.key, r.begin, r.end, q.begin, q.end} \subseteq Nat
            BY <4>2, <6>1, <6>2, TablesAre, KeysAre DEF Ranges
          <6>6. Overlaps(f, q)
            <7>. HIDE DEF q, r
            <7>. QED BY <6>3, <6>4, <6>5 DEF Overlaps
          <6>. QED BY <6>6
        <5>5. PICK a : a = S \cup c
          OBVIOUS
        <5>6. PICK m : m = new
          OBVIOUS
        <5>7. Solid(a \cup m)
          BY <5>2, <5>3, <5>4, <5>5, <5>6, SolidMore
        <5>8. S \cup (c \cup new) = a \cup m
          BY <5>5, <5>6
        <5>. QED BY <5>7, <5>8
      <4>5. c \cup new \subseteq fs /\ chosen \subseteq c \cup new
        BY <3>3, <4>2
      <4>. HIDE DEF Kept
      <4>. QED BY <3>1, <3>2, <4>2, <4>3, <4>4, <4>5
    <3>. QED BY <3>4, <3>5
  <2>5. 0..N \subseteq G
    <3>. HIDE DEF G, N
    <3>. QED BY <1>1, <2>3, <2>4, AllSteps
  <2>6. N \in G
    BY <1>1, <2>5
  <2>7. /\ chosen \subseteq h[N] /\ h[N] \subseteq fs /\ NoneBetween(fs, h[N])
        /\ Boundary(fs, h[N]) = {} \/ Cardinality(h[N]) >= N + 1
        /\ Kept(h[N])
    BY <2>6
  <2>8. Boundary(fs, h[N]) = {}
    <3>1. Cardinality(h[N]) \in Nat /\ Cardinality(h[N]) <= N
      BY <2>2, <2>7
    <3>. QED BY <1>1, <2>7, <3>1
  <2>9. OldestOf(fs, h[N])
    <3>1. PICK c : c = h[N]
      OBVIOUS
    <3>2. OldestOf(fs, c)
      BY <1>8, <2>1, <2>7, <2>8, <3>1, OldestChosen
    <3>. QED BY <3>1, <3>2
  <2>. QED BY <1>3, <2>7, <2>9
<1>. QED BY <1>7, <1>8 DEF Chosen

-------------------------------------------------------------------------------
(* What compactions choose *)

LEMMA HitNoneBetween ==
  ASSUME NEW fs, Tables(fs), NEW r \in Ranges
  PROVE  NoneBetween(fs, Hit(fs, r))
<1>1. SUFFICES ASSUME NEW f \in Hit(fs, r), NEW h \in Hit(fs, r), NEW g \in fs,
                      Before(f.largest, g.smallest), Before(g.largest, h.smallest)
               PROVE  g \in Hit(fs, r)
  BY DEF NoneBetween
<1>2. f \in fs /\ h \in fs /\ Overlaps(f, r) /\ Overlaps(h, r)
  BY DEF Hit
<1>3. Table(f) /\ Table(g) /\ Table(h)
  BY <1>2 DEF Tables
<1>4. f.largest.key <= g.smallest.key /\ g.largest.key <= h.smallest.key
  BY <1>1, <1>3, SidesAre
<1>5. /\ {f.largest.key, g.smallest.key, g.largest.key, h.smallest.key, r.begin, r.end} \subseteq Nat
      /\ g.smallest.key <= g.largest.key
  BY <1>3, TableIs, KeysAre DEF Ranges
<1>6. Overlaps(g, r)
  BY <1>2, <1>4, <1>5 DEF Overlaps
<1>. QED BY <1>6 DEF Hit

\* What a compaction may take from a level with GetOverlappingInputs.
LEMMA OverlappingChosen ==
  ASSUME NEW level, NEW fs, fs = files_[level], Tables(fs), level # 0 => Disjoint(fs), NEW r \in Ranges
  PROVE  LET T == GetOverlappingInputs(level, r) IN
         /\ T \subseteq fs /\ Hit(fs, r) \subseteq T
         /\ T # {} => Chosen(fs, T)
         /\ \A S : S # {} /\ Tables(S \cup fs) /\ r = GetRange(S) /\ Solid(S) => Solid(S \cup T)
<1>1. PICK q \in Ranges :
        /\ GetOverlappingInputs(level, r) = Hit(fs, q)
        /\ q.begin <= r.begin /\ r.end <= q.end
        /\ level # 0 => q = r
        /\ level = 0 => Closes(fs, r, q)
  BY OverlappingAre
<1>2. {q.begin, q.end, r.begin, r.end} \subseteq Nat /\ \A f \in fs : {f.smallest.key, f.largest.key} \subseteq Nat
  <2>1. \A f \in fs : {f.smallest.key, f.largest.key} \subseteq Keys
    BY TablesAre
  <2>. QED BY <2>1, KeysAre DEF Ranges
<1>3. Hit(fs, q) \subseteq fs /\ Hit(fs, r) \subseteq Hit(fs, q)
  BY <1>1, <1>2 DEF Hit, Overlaps
<1>4. Hit(fs, q) # {} => Chosen(fs, Hit(fs, q))
  <2>1. level = 0 => AllTaken(fs, Hit(fs, q))
    BY <1>1, HitTaken DEF Closes
  <2>2. NoneBetween(fs, Hit(fs, q))
    BY HitNoneBetween
  <2>. QED BY <1>3, <2>1, <2>2 DEF Chosen
<1>5. ASSUME NEW S, S # {}, Tables(S \cup fs), r = GetRange(S), Solid(S) PROVE Solid(S \cup Hit(fs, q))
  <2>1. Tables(S) /\ Tables(S \cup Hit(fs, q))
    <3>1. S \subseteq S \cup fs /\ S \cup Hit(fs, q) \subseteq S \cup fs
      BY <1>3
    <3>. QED BY <1>5, <3>1, TablesAre
  <2>2. CASE level = 0
    <3>1. Covers(S, r) /\ \A f \in S : {f.smallest.key, f.largest.key} \subseteq Keys
      BY <1>5, <2>1, TablesAre DEF Solid
    <3>2. Covers(S \cup Hit(fs, q), q)
      BY <1>1, <2>2, <3>1 DEF Closes
    <3>3. \A f \in S : r.begin <= f.smallest.key /\ f.largest.key <= r.end
      BY <1>5, <2>1, RangeIs
    <3>4. \A f \in S : q.begin <= f.smallest.key /\ f.largest.key <= q.end
      <4>1. \A f \in S : {f.smallest.key, f.largest.key} \subseteq Nat
        BY <3>1, KeysAre
      <4>. QED BY <1>1, <1>2, <3>3, <4>1
    <3>5. \A f \in S \cup Hit(fs, q) : q.begin <= f.smallest.key /\ f.largest.key <= q.end
      BY <1>1, <2>2, <3>4 DEF Closes
    <3>6. PICK x : x = S \cup Hit(fs, q)
      OBVIOUS
    <3>7. x # {} /\ Tables(x) /\ Covers(x, q) /\ \A f \in x : q.begin <= f.smallest.key /\ f.largest.key <= q.end
      BY <1>5, <2>1, <3>2, <3>5, <3>6
    <3>8. Solid(x)
      BY <3>7, SolidWithin
    <3>. QED BY <3>6, <3>8
  <2>3. CASE level # 0
    <3>1. \A f \in Hit(fs, q) : Overlaps(f, GetRange(S))
      BY <1>1, <1>5, <2>3 DEF Hit
    <3>. QED BY <1>5, <2>1, <3>1, SolidMore
  <2>. QED BY <2>2, <2>3
<1>. QED BY <1>1, <1>3, <1>4, <1>5

\* What PickCompaction starts from.
LEMMA PickedAre ==
  ASSUME NEW level, NEW fs, fs = files_[level], Tables(fs), level # 0 => Disjoint(fs), NEW picked \in PickedFiles(level)
  PROVE  Chosen(fs, picked) /\ Solid(picked)
<1>1. PICK f \in fs : picked = IF level = 0 THEN GetOverlappingInputs(0, GetRange({f})) ELSE {f}
  BY DEF PickedFiles
<1>2. Tables({f}) /\ {f} \subseteq fs /\ f \in {f}
  BY TablesAre
<1>3. Solid({f})
  BY <1>2, SolidOne
<1>4. CASE level # 0
  <2>1. NoneBetween(fs, {f})
    <3>1. Table(f)
      BY DEF Tables
    <3>2. SUFFICES ASSUME NEW g \in fs, Before(f.largest, g.smallest), Before(g.largest, f.smallest) PROVE FALSE
      BY DEF NoneBetween
    <3>3. Table(g)
      BY DEF Tables
    <3>. QED BY <3>1, <3>2, <3>3, SidesAre
  <2>. QED BY <1>1, <1>2, <1>3, <1>4, <2>1 DEF Chosen
<1>5. CASE level = 0
  <2>. DEFINE r == GetRange({f})
              T == GetOverlappingInputs(level, r)
  <2>1. r \in Ranges /\ Overlaps(f, r)
    BY <1>2, RangeIs
  <2>2. PICK q \in Ranges : q = r
    BY <2>1
  <2>3. LET V == GetOverlappingInputs(level, q) IN
         /\ V \subseteq fs /\ Hit(fs, q) \subseteq V
         /\ V # {} => Chosen(fs, V)
         /\ \A S : S # {} /\ Tables(S \cup fs) /\ q = GetRange(S) /\ Solid(S) => Solid(S \cup V)
    BY OverlappingChosen
  <2>4. /\ T \subseteq fs /\ Hit(fs, r) \subseteq T
        /\ T # {} => Chosen(fs, T)
        /\ \A S : S # {} /\ Tables(S \cup fs) /\ r = GetRange(S) /\ Solid(S) => Solid(S \cup T)
    BY <2>2, <2>3
  <2>5. f \in T
    BY <2>1, <2>4 DEF Hit
  <2>6. {f} \cup fs = fs /\ {f} \cup T = T
    BY <2>5
  <2>7. Solid(T)
    BY <1>3, <2>4, <2>6
  <2>8. picked = T
    BY <1>1, <1>5
  <2>. HIDE DEF T, r
  <2>. QED BY <2>4, <2>5, <2>7, <2>8
<1>. QED BY <1>4, <1>5

\* What CompactRange starts from.
LEMMA ManualAre ==
  ASSUME NEW level, NEW fs, fs = files_[level], Tables(fs), level # 0 => Disjoint(fs), NEW picked \in ManualFiles(level)
  PROVE  Chosen(fs, picked)
<1>. DEFINE FirstOf(S) == {{f \in S : ~Before(g.smallest, f.smallest)} : g \in S}
            ranges == {r \in [begin : Keys, end : Keys] : r.begin <= r.end}
            Part(r) == LET in == GetOverlappingInputs(level, r) IN IF level = 0 THEN {in} \ {{}} ELSE FirstOf(in)
<1>1. PICK r \in ranges : picked \in Part(r)
  BY DEF ManualFiles
<1>2. r \in Ranges
  BY DEF Ranges
<1>. DEFINE in == GetOverlappingInputs(level, r)
<1>3. in \subseteq fs /\ (in # {} => Chosen(fs, in))
  BY <1>2, OverlappingChosen
<1>4. CASE level = 0
  BY <1>1, <1>3, <1>4
<1>5. CASE level # 0
  <2>1. in = Hit(fs, r)
    BY <1>5 DEF GetOverlappingInputs
  <2>2. PICK g \in in : picked = {f \in in : ~Before(g.smallest, f.smallest)}
    BY <1>1, <1>5
  <2>3. NoneBetween(fs, in)
    BY <1>2, <2>1, HitNoneBetween
  <2>. HIDE DEF in
  <2>4. \A f \in fs : Table(f) /\ f.smallest \in Entry
    BY TableIs DEF Tables
  <2>5. g \in picked
    BY <1>3, <2>2, <2>4, BeforeIsOrder
  <2>6. NoneBetween(fs, picked)
    <3>1. SUFFICES ASSUME NEW f \in picked, NEW h \in picked, NEW x \in fs,
                          Before(f.largest, x.smallest), Before(x.largest, h.smallest)
                   PROVE  x \in picked
      BY DEF NoneBetween
    <3>2. f \in in /\ h \in in /\ ~Before(g.smallest, h.smallest) /\ h \in fs /\ g \in fs
      BY <1>3, <2>2
    <3>3. x \in in
      BY <2>3, <3>1, <3>2 DEF NoneBetween
    <3>4. Before(x.smallest, h.smallest)
      BY <2>4, <3>1, <3>2, SidesAre
    <3>5. ~Before(g.smallest, x.smallest)
      BY <2>4, <3>2, <3>4, BeforeIsOrder
    <3>. QED BY <2>2, <3>3, <3>5
  <2>. QED BY <1>3, <1>5, <2>2, <2>5, <2>6 DEF Chosen
<1>. QED BY <1>4, <1>5

\* The inputs of a compaction: those of the level hold the oldest entries that it has of
\* their keys, and those of the next level are all that overlap them.
Inputs(fs, gs, picked, in0, in1) ==
  /\ in0 # {} /\ in0 \subseteq fs /\ OldestOf(fs, in0)
  /\ in1 = Hit(gs, GetRange(in0))
  /\ Solid(picked) => Solid(in0 \cup in1)

\* What SetupOtherInputs returns, with the expansion and without.
LEMMA InputsAre ==
  ASSUME NEW level, level \in Nat, NEW fs, fs = files_[level], NEW gs, gs = files_[level + 1],
         Tables(fs \cup gs), level # 0 => Disjoint(fs), NEW picked, Chosen(fs, picked),
         NEW in \in SetupOtherInputs(level, picked)
  PROVE  Inputs(fs, gs, picked, in[1], in[2])
<1>. DEFINE in0 == AddBoundaryInputs(files_[level], picked)
            in1 == GetOverlappingInputs(level + 1, GetRange(in0))
            more == GetOverlappingInputs(level, GetRange(in0 \cup in1))
            expanded0 == AddBoundaryInputs(files_[level], more)
            expanded1 == GetOverlappingInputs(level + 1, GetRange(expanded0))
<1>1. Tables(fs) /\ Tables(gs)
  <2>1. fs \subseteq fs \cup gs /\ gs \subseteq fs \cup gs
    OBVIOUS
  <2>. QED BY <2>1, TablesAre
<1>2. /\ picked \subseteq in0 /\ in0 \subseteq fs /\ OldestOf(fs, in0)
      /\ \A S : Tables(S \cup fs) /\ picked \subseteq S /\ Solid(S) => Solid(S \cup in0)
  BY <1>1, GrowthEnds
<1>3. in0 # {} /\ picked # {} /\ picked \subseteq fs
  BY <1>2 DEF Chosen
<1>. DEFINE Below(r) == GetOverlappingInputs(level + 1, r)
<1>12. \A r : Below(r) = Hit(gs, r)
  <2>1. level + 1 # 0
    OBVIOUS
  <2>. QED BY <2>1 DEF GetOverlappingInputs
<1>13. in1 = Below(GetRange(in0)) /\ expanded1 = Below(GetRange(expanded0))
  OBVIOUS
<1>4. in1 = Hit(gs, GetRange(in0)) /\ in1 \subseteq gs
  <2>. HIDE DEF Below
  <2>. QED BY <1>12, <1>13 DEF Hit
<1>5. expanded1 = Hit(gs, GetRange(expanded0))
  <2>. HIDE DEF Below
  <2>. QED BY <1>12, <1>13
<1>6. \/ in = <<in0, in1>>
      \/ in = <<expanded0, expanded1>> /\ in1 # {} /\ Cardinality(expanded1) = Cardinality(in1)
  BY DEF SetupOtherInputs
<1>. HIDE DEF in0, in1, expanded0, expanded1
<1>7. Tables(in0) /\ Tables(in0 \cup in1)
  <2>1. in0 \subseteq fs \cup gs /\ in0 \cup in1 \subseteq fs \cup gs
    BY <1>2, <1>4
  <2>. QED BY <2>1, TablesAre
<1>8. GetRange(in0) \in Ranges /\ GetRange(in0 \cup in1) \in Ranges
  BY <1>3, <1>7, RangeIs
<1>9. ASSUME Solid(picked) PROVE Solid(in0 \cup in1)
  <2>1. picked \cup fs = fs /\ picked \cup in0 = in0
    BY <1>2, <1>3
  <2>2. Solid(in0)
    BY <1>1, <1>2, <1>9, <2>1
  <2>3. \A f \in in1 : Overlaps(f, GetRange(in0))
    BY <1>4 DEF Hit
  <2>4. PICK a, b : a = in0 /\ b = in1
    OBVIOUS
  <2>5. Solid(a \cup b)
    BY <1>3, <1>7, <2>2, <2>3, <2>4, SolidMore
  <2>. QED BY <2>4, <2>5
<1>10. CASE in = <<in0, in1>>
  BY <1>2, <1>3, <1>4, <1>9, <1>10 DEF Inputs
<1>11. CASE in = <<expanded0, expanded1>> /\ in1 # {} /\ Cardinality(expanded1) = Cardinality(in1)
  <2>1. PICK r \in Ranges : r = GetRange(in0 \cup in1)
    BY <1>8
  <2>2. /\ more \subseteq fs /\ Hit(fs, r) \subseteq more
        /\ more # {} => Chosen(fs, more)
        /\ \A S : S # {} /\ Tables(S \cup fs) /\ r = GetRange(S) /\ Solid(S) => Solid(S \cup more)
    BY <1>1, <2>1, OverlappingChosen
  <2>3. in0 \subseteq Hit(fs, r)
    <3>1. \A f \in in0 \cup in1 : Overlaps(f, r)
      BY <1>3, <1>7, <2>1, RangeIs
    <3>. QED BY <1>2, <3>1 DEF Hit
  <2>4. in0 \subseteq more /\ Chosen(fs, more)
    BY <1>3, <2>2, <2>3
  <2>. HIDE DEF more
  <2>5. PICK m : m = more
    OBVIOUS
  <2>6. LET T == AddBoundaryInputs(fs, m) IN
        /\ m \subseteq T /\ T \subseteq fs /\ OldestOf(fs, T)
        /\ \A S : Tables(S \cup fs) /\ m \subseteq S /\ Solid(S) => Solid(S \cup T)
    BY <1>1, <2>4, <2>5, GrowthEnds
  <2>7. /\ more \subseteq expanded0 /\ expanded0 \subseteq fs /\ OldestOf(fs, expanded0)
        /\ \A S : Tables(S \cup fs) /\ more \subseteq S /\ Solid(S) => Solid(S \cup expanded0)
    BY <2>5, <2>6 DEF expanded0
  <2>8. in0 \subseteq expanded0 /\ expanded0 # {}
    BY <1>3, <2>4, <2>7
  <2>9. expanded1 = in1
    <3>1. Tables(expanded0)
      <4>1. expanded0 \subseteq fs \cup gs
        BY <2>7
      <4>. QED BY <4>1, TablesAre
    <3>. DEFINE s == GetRange(in0)
                t == GetRange(expanded0)
    <3>2. s \in Ranges /\ (\E f \in in0 : s.begin = f.smallest.key) /\ (\E f \in in0 : s.end = f.largest.key)
      BY <1>3, <1>7, RangeIs
    <3>3. t \in Ranges /\ \A f \in expanded0 : t.begin <= f.smallest.key /\ f.largest.key <= t.end
      BY <2>8, <3>1, RangeIs
    <3>. HIDE DEF s, t
    <3>4. t.begin <= s.begin /\ s.end <= t.end
      BY <2>8, <3>2, <3>3
    <3>5. {s.begin, s.end, t.begin, t.end} \subseteq Nat /\ \A g \in gs : {g.smallest.key, g.largest.key} \subseteq Nat
      <4>1. \A g \in gs : {g.smallest.key, g.largest.key} \subseteq Keys
        BY <1>1, TablesAre
      <4>. QED BY <3>2, <3>3, <4>1, KeysAre DEF Ranges
    <3>6. in1 \in SUBSET expanded1
      <4>1. Hit(gs, s) \subseteq Hit(gs, t)
        BY <3>4, <3>5 DEF Hit, Overlaps
      <4>. QED BY <1>4, <1>5, <4>1 DEF s, t
    <3>7. IsFiniteSet(expanded1)
      <4>1. expanded1 \subseteq gs
        BY <1>5 DEF Hit
      <4>. QED BY <1>1, <4>1, FS_Subset DEF Tables
    <3>. QED BY <1>11, <3>6, <3>7, FS_Subset
  <2>10. ASSUME Solid(picked) PROVE Solid(expanded0 \cup expanded1)
    <3>1. Solid(in0 \cup in1) /\ in0 \cup in1 # {}
      BY <1>3, <1>9, <2>10
    <3>2. Tables((in0 \cup in1) \cup fs) /\ Tables(((in0 \cup in1) \cup more) \cup fs)
      <4>1. (in0 \cup in1) \cup fs \subseteq fs \cup gs /\ ((in0 \cup in1) \cup more) \cup fs \subseteq fs \cup gs
        BY <1>2, <1>4, <2>2
      <4>. QED BY <4>1, TablesAre
    <3>3. PICK a : a = in0 \cup in1
      OBVIOUS
    <3>4. Solid(a \cup more)
      BY <2>1, <2>2, <3>1, <3>2, <3>3
    <3>5. PICK b : b = a \cup more
      OBVIOUS
    <3>6. Solid(b \cup expanded0)
      BY <2>7, <3>2, <3>3, <3>4, <3>5
    <3>7. b \cup expanded0 = expanded0 \cup expanded1
      BY <2>7, <2>8, <2>9, <3>3, <3>5
    <3>. QED BY <3>6, <3>7
  <2>11. in[1] = expanded0 /\ in[2] = expanded1
    BY <1>11
  <2>. QED BY <1>5, <2>7, <2>8, <2>10, <2>11 DEF Inputs
<1>. QED BY <1>6, <1>10, <1>11

-------------------------------------------------------------------------------
(* What a compaction writes *)

\* There are no more entries than sequence numbers.
LEMMA OrderedFinite ==
  ASSUME NEW S, Ordered(S)
  PROVE  IsFiniteSet(S)
<1>. DEFINE m == [e \in S |-> e.seq]
<1>1. \A e \in S : e.seq \in 1..MaxSequence
  BY EntryIs DEF Ordered
<1>2. m \in Injection(S, 1..MaxSequence)
  <2>1. m \in [S -> 1..MaxSequence] /\ \A d, e \in S : m[d] = m[e] => d = e
    BY <1>1 DEF Ordered
  <2>2. DOMAIN m = S
    OBVIOUS
  <2>. HIDE DEF m
  <2>. QED BY <2>1, <2>2 DEF Injection, IsInjective
<1>3. IsFiniteSet(1..MaxSequence)
  BY KeysAre, FS_Interval
<1>. HIDE DEF m
<1>. QED BY <1>2, <1>3, FS_Injection

\* The entries of an output file that ends with a certain one
PartTo(kept, cuts, last) == {e \in kept : ~Before(last, e) /\ \A m \in cuts : Before(m, last) => Before(m, e)}

\* The parts that a merge is cut into hold every entry and follow one another.
LEMMA PartsAre ==
  ASSUME NEW kept, Ordered(kept), kept # {}, NEW cuts \in Cuts(kept)
  PROVE  LET ends == cuts \cup {Largest(kept)} IN
         /\ ends \subseteq kept
         /\ \A l \in ends : l \in PartTo(kept, cuts, l) /\ PartTo(kept, cuts, l) \subseteq kept
         /\ \A e \in kept : \E l \in ends : e \in PartTo(kept, cuts, l)
         /\ \A l, n \in ends : Before(l, n) =>
              \A d \in PartTo(kept, cuts, l), e \in PartTo(kept, cuts, n) : Before(d, e) /\ (d.key = e.key => SplitsKeys)
<1>. DEFINE end == Largest(kept)
            ends == cuts \cup {end}
            Part(l) == PartTo(kept, cuts, l)
<1>1. end \in kept /\ \A d \in kept : d = end \/ Before(d, end)
  BY LargestIs
<1>2. cuts \subseteq kept /\ \A l \in cuts : l # end /\ (SplitsKeys \/ \A d \in kept : d.key = l.key => ~Before(l, d))
  BY DEF Cuts
<1>. HIDE DEF end
<1>3. ends \subseteq kept /\ kept \subseteq Entry
  BY <1>1, <1>2 DEF Ordered
<1>4. ASSUME NEW l \in ends PROVE l \in Part(l) /\ Part(l) \subseteq kept
  BY <1>3, BeforeIsOrder DEF PartTo
<1>5. ASSUME NEW e \in kept PROVE \E l \in ends : e \in Part(l)
  <2>. DEFINE T == {l \in ends : ~Before(l, e)}
  <2>1. Ordered(T) /\ T # {}
    <3>1. end \in T
      BY <1>1, <1>3, BeforeIsOrder
    <3>. QED BY <1>3, <3>1 DEF Ordered
  <2>2. PICK l \in T : \A d \in T : d = l \/ Before(l, d)
    <3>. HIDE DEF T
    <3>. QED BY <2>1, SmallestIs
  <2>3. ASSUME NEW m \in cuts, Before(m, l) PROVE Before(m, e)
    <3>1. m \in Entry /\ l \in Entry /\ m \in ends
      BY <1>3
    <3>2. m \notin T
      BY <2>2, <2>3, <3>1, BeforeIsOrder
    <3>. QED BY <3>1, <3>2
  <2>4. e \in Part(l)
    BY <2>2, <2>3 DEF PartTo
  <2>. QED BY <2>2, <2>4
<1>6. ASSUME NEW l \in ends, NEW n \in ends, Before(l, n), NEW d \in Part(l), NEW e \in Part(n)
      PROVE  Before(d, e) /\ (d.key = e.key => SplitsKeys)
  <2>1. {l, n, d, e} \subseteq Entry /\ {l, n, d, e} \subseteq kept /\ ~Before(l, d)
    BY <1>3 DEF PartTo
  <2>2. l \in cuts
    <3>1. l # end
      BY <1>1, <1>6, <2>1, BeforeIsOrder
    <3>. QED BY <3>1
  <2>3. Before(l, e)
    BY <1>6, <2>2 DEF PartTo
  <2>4. d = l \/ Before(d, l)
    <3>1. d.seq = l.seq => d = l
      BY <2>1 DEF Ordered
    <3>. QED BY <2>1, <3>1, BeforeIsOrder
  <2>5. Before(d, e)
    BY <2>1, <2>3, <2>4, BeforeIsOrder
  <2>6. ASSUME d.key = e.key PROVE SplitsKeys
    <3>1. d.key <= l.key /\ l.key <= e.key
      BY <2>1, <2>3, <2>4, BeforeIsOrder, EntryIs
    <3>2. {d.key, l.key, e.key} \subseteq Nat
      BY <2>1, EntryIs
    <3>3. e.key = l.key
      BY <2>6, <3>1, <3>2
    <3>. QED BY <1>2, <2>1, <2>2, <2>3, <3>3
  <2>. QED BY <2>5, <2>6
<1>. QED BY <1>3, <1>4, <1>5, <1>6 DEF end

\* The output files are disjoint tables that hold what the merge has kept.
LEMMA OutputsAre ==
  ASSUME NEW kept, Ordered(kept), kept # {}, NEW cuts \in Cuts(kept)
  PROVE  LET out == OutputFiles(kept, cuts) IN
         /\ IsFiniteSet(out) /\ Disjoint(out) /\ EntriesOf(out) = kept
         /\ \A f \in out : Table(f) /\ f.entries \subseteq kept
         /\ SplitsKeys \/ \A f, g \in out : \A d \in f.entries, e \in g.entries : d.key = e.key => f = g
<1>. DEFINE end == Largest(kept)
            ends == cuts \cup {end}
            Part(l) == PartTo(kept, cuts, l)
            out == OutputFiles(kept, cuts)
<1>1. /\ ends \subseteq kept
      /\ \A l \in ends : l \in Part(l) /\ Part(l) \subseteq kept
      /\ \A e \in kept : \E l \in ends : e \in Part(l)
      /\ \A l, n \in ends : Before(l, n) => \A d \in Part(l), e \in Part(n) : Before(d, e) /\ (d.key = e.key => SplitsKeys)
  BY PartsAre
<1>2. out = {File(0, Part(l)) : l \in ends}
  BY DEF OutputFiles, PartTo
<1>. HIDE DEF ends, Part, out
<1>3. ASSUME NEW l \in ends PROVE Table(File(0, Part(l))) /\ File(0, Part(l)).entries = Part(l)
  <2>1. Ordered(Part(l)) /\ Part(l) # {}
    <3>1. Part(l) \subseteq kept /\ l \in Part(l)
      BY <1>1
    <3>. QED BY <3>1 DEF Ordered
  <2>2. PICK P : P = Part(l)
    OBVIOUS
  <2>3. Table(File(0, P)) /\ File(0, P).entries = P
    BY <2>1, <2>2, FileIsTable
  <2>. QED BY <2>2, <2>3
<1>4. \A f \in out : Table(f) /\ f.entries \subseteq kept
  BY <1>1, <1>2, <1>3
<1>5. EntriesOf(out) = kept
  <2>1. ASSUME NEW e \in kept PROVE e \in EntriesOf(out)
    <3>1. PICK l \in ends : e \in Part(l)
      BY <1>1
    <3>2. File(0, Part(l)) \in out /\ e \in File(0, Part(l)).entries
      BY <1>2, <1>3, <3>1
    <3>. QED BY <3>2 DEF EntriesOf
  <2>. QED BY <1>4, <2>1 DEF EntriesOf
<1>6. ASSUME NEW f \in out, NEW g \in out, f # g
      PROVE  /\ Before(f.largest, g.smallest) \/ Before(g.largest, f.smallest)
             /\ SplitsKeys \/ \A d \in f.entries, e \in g.entries : d.key # e.key
  <2>1. PICK l \in ends, n \in ends : f = File(0, Part(l)) /\ g = File(0, Part(n))
    BY <1>2
  <2>2. f.entries = Part(l) /\ g.entries = Part(n) /\ Table(f) /\ Table(g) /\ l # n
    BY <1>3, <1>6, <2>1
  <2>3. f.largest \in Part(l) /\ f.smallest \in Part(l) /\ g.smallest \in Part(n) /\ g.largest \in Part(n)
    BY <2>2, TableIs
  <2>4. Before(l, n) \/ Before(n, l)
    <3>1. l \in Entry /\ n \in Entry /\ l.seq # n.seq
      BY <1>1, <2>2 DEF Ordered
    <3>. QED BY <3>1, BeforeIsOrder
  <2>5. CASE Before(l, n)
    BY <1>1, <2>2, <2>3, <2>5
  <2>6. CASE Before(n, l)
    BY <1>1, <2>2, <2>3, <2>6
  <2>. QED BY <2>4, <2>5, <2>6
<1>7. Disjoint(out)
  BY <1>6 DEF Disjoint
<1>8. IsFiniteSet(out)
  <2>. DEFINE m == [l \in ends |-> File(0, Part(l))]
  <2>1. m \in Surjection(ends, out)
    BY <1>2, Fun_IsSurj
  <2>2. IsFiniteSet(ends)
    <3>1. Ordered(ends)
      BY <1>1 DEF Ordered
    <3>2. PICK E : E = ends
      OBVIOUS
    <3>. QED BY <3>1, <3>2, OrderedFinite
  <2>. HIDE DEF m
  <2>. QED BY <2>1, <2>2, FS_Surjection
<1>9. SplitsKeys \/ \A f, g \in out : \A d \in f.entries, e \in g.entries : d.key = e.key => f = g
  BY <1>6
<1>. QED BY <1>4, <1>5, <1>7, <1>8, <1>9 DEF out

-------------------------------------------------------------------------------
(* What a lookup sees *)

Seen(S, k, s) == {e \in S : e.key = k /\ e.seq <= s}

\* What a lookup finds in a set of entries is the newest of those that it may see.
LEMMA VisibleIs ==
  ASSUME NEW S, Ordered(S), NEW k, NEW s
  PROVE  /\ \A e : e \in Visible(S, k, s) <=> e \in Seen(S, k, s) /\ \A d \in Seen(S, k, s) : d.seq <= e.seq
         /\ Seen(S, k, s) # {} => Visible(S, k, s) # {}
         /\ \A d, e \in Visible(S, k, s) : d = e
<1>. DEFINE seen == Seen(S, k, s)
<1>1. Visible(S, k, s) = {e \in seen : \A d \in seen : d.seq <= e.seq}
  BY DEF Visible, Seen
<1>2. seen \subseteq S
  BY DEF Seen
<1>3. \A e \in S : e.seq \in 1..MaxSequence /\ e.seq \in Nat
  BY EntryIs DEF Ordered
<1>. HIDE DEF seen
<1>4. ASSUME seen # {} PROVE Visible(S, k, s) # {}
  <2>. DEFINE T == {MaxSequence - e.seq : e \in seen}
  <2>1. T \subseteq Nat /\ T # {}
    BY <1>2, <1>3, <1>4, KeysAre
  <2>2. PICK m \in T : \A j \in T : m <= j
    <3>. HIDE DEF T
    <3>. QED BY <2>1, LeastNumber
  <2>3. PICK x \in seen : m = MaxSequence - x.seq
    BY <2>2
  <2>4. ASSUME NEW d \in seen PROVE d.seq <= x.seq
    <3>1. MaxSequence - x.seq <= MaxSequence - d.seq
      BY <2>2, <2>3
    <3>2. d.seq \in Nat /\ x.seq \in Nat /\ MaxSequence \in Nat
      BY <1>2, <1>3, KeysAre
    <3>. QED BY <3>1, <3>2
  <2>. QED BY <1>1, <2>4
<1>5. ASSUME NEW d \in Visible(S, k, s), NEW e \in Visible(S, k, s) PROVE d = e
  <2>1. d \in S /\ e \in S /\ d.seq <= e.seq /\ e.seq <= d.seq
    BY <1>1, <1>2
  <2>2. d.seq = e.seq
    BY <1>3, <2>1
  <2>. QED BY <2>1, <2>2 DEF Ordered
<1>. QED BY <1>1, <1>4, <1>5 DEF seen

-------------------------------------------------------------------------------
(* The inductive invariant *)

Values(S) == {e \in S : e.type = "value"}
Stored == mem_ \cup UNION {EntriesOf(files_[l]) : l \in LevelNumbers}

Types ==
  /\ Ordered(history) /\ mem_ \subseteq history
  /\ last_sequence_ \in 0..MaxSequence /\ \A e \in history : e.seq <= last_sequence_
  /\ snapshots_ \subseteq 0..last_sequence_
  /\ flushed \in 0..last_sequence_ /\ (mem_ # {} => flushed < last_sequence_)
  /\ DOMAIN files_ = LevelNumbers
  /\ \A l \in LevelNumbers : IsFiniteSet(files_[l]) /\ \A f \in files_[l] : Table(f) /\ f.entries \subseteq history
  /\ Deletes \/ \A e \in history : e.type = "value"

\* What flushes and compactions keep: the memtable is newer than all tables, a table of level 0
\* newer than those with smaller numbers.
MemIsNewest == \A d \in mem_, l \in LevelNumbers : \A e \in EntriesOf(files_[l]) : d.seq > e.seq
Level0InOrder ==
  \A f, g \in files_[0] : /\ f.num <= flushed /\ (f.num = g.num => f = g)
                          /\ f.num < g.num => \A d \in f.entries, e \in g.entries : d.seq < e.seq
\* Below level 0 a key is in one table, unless output files may end inside a key.
KeysTogether ==
  SplitsKeys \/ \A l \in 1..(kNumLevels - 1) : \A f, g \in files_[l] :
                  \A d \in f.entries, e \in g.entries : d.key = e.key => f = g
Order == MemIsNewest /\ Level0InOrder /\ LevelsDisjoint /\ NewerAbove /\ KeysTogether

\* What the memtable and the tables hold is enough for every read.
NothingMissing ==
  \A k \in Keys, s \in snapshots_ \cup {last_sequence_} :
    Values(Visible(Stored, k, s)) = Values(Visible(history, k, s))

\* The tables of the output level that are not merged: on one side of the inputs, and without
\* the keys of those of the upper level.
Apart(rest, in0, in1) ==
  \A f \in rest :
    /\ (\A e \in EntriesOf(in0 \cup in1) : Before(e, f.smallest)) \/ (\A e \in EntriesOf(in0 \cup in1) : Before(f.largest, e))
    /\ \A e \in f.entries, d \in EntriesOf(in0) : e.key # d.key

\* No table that a flush put below the output level has a key of the inputs.
Deeper(c) ==
  \A l \in (c.level + 2)..(kNumLevels - 1) :
    \A f \in files_[l] \ c.base[l] : \A e \in f.entries, d \in EntriesOf(c.in0 \cup c.in1) : e.key # d.key

CompactionInv ==
  compact # Nothing =>
    LET c == compact IN
    /\ c.level \in 0..(kNumLevels - 2) /\ c.in0 \subseteq files_[c.level] /\ c.in1 \subseteq files_[c.level + 1] /\ c.in0 # {}
    /\ c.smallest_snapshot \in Nat /\ \A s \in snapshots_ \cup {last_sequence_} : c.smallest_snapshot <= s
    /\ OldestOf(files_[c.level], c.in0) /\ Apart(files_[c.level + 1] \ c.in1, c.in0, c.in1) /\ Deeper(c)
    /\ FlushesInCompaction => Solid(c.in0 \cup c.in1)

LevelInv == Types /\ Order /\ NothingMissing /\ CompactionInv

\* The numbers of levels
LEMMA LevelsAre ==
  /\ kNumLevels \in Nat /\ kNumLevels >= 2 /\ kMaxMemCompactLevel \in LevelNumbers /\ 0 \in LevelNumbers
  /\ LevelNumbers \subseteq Nat
  /\ \A l \in 0..(kNumLevels - 2) : l \in LevelNumbers /\ l + 1 \in LevelNumbers /\ l \in Nat
                                    /\ l + 1 \in 1..(kNumLevels - 1)
  /\ \A l \in LevelNumbers : l # 0 => l \in 1..(kNumLevels - 1)
  /\ \A l \in 1..(kNumLevels - 1) : l \in LevelNumbers
BY LevelsAssumption DEF LevelsAssumption, LevelNumbers

\* The entries of files together
LEMMA EntriesOfUnion ==
  /\ \A A, B : EntriesOf(A \cup B) = EntriesOf(A) \cup EntriesOf(B)
  /\ \A f : EntriesOf({f}) = f.entries
  /\ EntriesOf({}) = {}
  /\ \A A, B : A \subseteq B => EntriesOf(A) \subseteq EntriesOf(B)
BY DEF EntriesOf

\* The tables of two levels
LEMMA LevelTables ==
  ASSUME Types, NEW l \in LevelNumbers, NEW m \in LevelNumbers
  PROVE  /\ Tables(files_[l]) /\ Tables(files_[l] \cup files_[m])
         /\ EntriesOf(files_[l]) \subseteq history /\ EntriesOf(files_[l]) \subseteq Stored
<1>1. \A n \in LevelNumbers : IsFiniteSet(files_[n]) /\ EntriesOf(files_[n]) \subseteq history /\ \A f \in files_[n] : Table(f)
  BY DEF Types, EntriesOf
<1>2. \A S : S \subseteq history => Ordered(S)
  BY DEF Types, Ordered
<1>3. IsFiniteSet(files_[l] \cup files_[m])
  BY <1>1, FS_Union
<1>4. EntriesOf(files_[l] \cup files_[m]) \subseteq history
  BY <1>1, EntriesOfUnion
<1>5. EntriesOf(files_[l]) \subseteq Stored
  BY DEF Stored
<1>. QED BY <1>1, <1>2, <1>3, <1>4, <1>5 DEF Tables

\* What the memtable and the tables hold was written once.
LEMMA StoredIs ==
  ASSUME Types
  PROVE  /\ Stored \subseteq history /\ Ordered(Stored)
         /\ \A e \in history : e \in Entry /\ e.seq \in Nat /\ e.seq <= last_sequence_ /\ e.key \in Nat
         /\ last_sequence_ \in Nat
<1>1. \A n \in LevelNumbers : EntriesOf(files_[n]) \subseteq history
  BY DEF Types, EntriesOf
<1>2. Stored \subseteq history
  BY <1>1 DEF Types, Stored
<1>3. \A e \in history : e \in Entry /\ e.seq \in Nat /\ e.key \in Nat
  BY EntryIs DEF Types, Ordered
<1>4. last_sequence_ \in Nat
  BY KeysAre DEF Types
<1>. QED BY <1>2, <1>3, <1>4 DEF Types, Ordered

\* An empty database
LEMMA InitLevels == LevelsInit => LevelInv
<1>1. SUFFICES ASSUME LevelsInit PROVE LevelInv
  OBVIOUS
<1>2. Types
  <2>1. IsFiniteSet({})
    BY FS_EmptySet
  <2>. QED BY <1>1, <2>1, KeysAre DEF LevelsInit, Types, Ordered
<1>3. \A l \in LevelNumbers : files_[l] = {} /\ EntriesOf(files_[l]) = {}
  BY <1>1 DEF LevelsInit, EntriesOf
<1>4. Order
  BY <1>1, <1>3, LevelsAre DEF LevelsInit, Order, MemIsNewest, Level0InOrder, LevelsDisjoint, NewerAbove, KeysTogether
<1>5. Stored = history
  BY <1>1, <1>3 DEF LevelsInit, Stored
<1>6. NothingMissing /\ CompactionInv
  BY <1>1, <1>5 DEF LevelsInit, NothingMissing, CompactionInv
<1>. QED BY <1>2, <1>4, <1>6 DEF LevelInv

-------------------------------------------------------------------------------
(* Writes and snapshots *)

\* What the next entry changes for a lookup.
LEMMA NewestSeen ==
  ASSUME NEW S, NEW n \in Nat, NEW top, top = n + 1, NEW x, x.seq = top,
         \A e \in S : e.seq \in Nat /\ e.seq <= n, NEW k, NEW T, T = S \cup {x}
  PROVE  /\ \A s \in Nat : s <= n => Visible(T, k, s) = Visible(S, k, s)
         /\ Visible(T, x.key, top) = {x}
         /\ k # x.key => Visible(T, k, top) = Visible(S, k, n)
<1>1. ASSUME NEW s \in Nat, s <= n PROVE Seen(T, k, s) = Seen(S, k, s)
  BY <1>1 DEF Seen
<1>2. k # x.key => Seen(T, k, top) = Seen(S, k, n)
  BY DEF Seen
<1>3. Visible(T, x.key, top) = {x}
  <2>1. \A d \in Seen(T, x.key, top) : d.seq <= x.seq
    BY DEF Seen
  <2>2. x \in Seen(T, x.key, top)
    BY DEF Seen
  <2>3. ASSUME NEW d \in Seen(T, x.key, top), d # x PROVE ~(x.seq <= d.seq)
    BY <2>3 DEF Seen
  <2>. QED BY <2>1, <2>2, <2>3 DEF Visible, Seen
<1>. DEFINE Newest(U) == {e \in U : \A d \in U : d.seq <= e.seq}
<1>4. \A U, s : Visible(U, k, s) = Newest(Seen(U, k, s))
  BY DEF Visible, Seen
<1>. HIDE DEF Newest
<1>5. ASSUME NEW s \in Nat, s <= n PROVE Visible(T, k, s) = Visible(S, k, s)
  BY <1>1, <1>4, <1>5
<1>6. k # x.key => Visible(T, k, top) = Visible(S, k, n)
  BY <1>2, <1>4
<1>. QED BY <1>3, <1>5, <1>6

\* A write: the newest entry goes to the memtable.
LEMMA AddKeeps ==
  ASSUME LevelInv, NEW k \in Keys, NEW type \in {"value", "deletion"}, type = "deletion" => Deletes, Add(k, type)
  PROVE  LevelInv'
<1>. DEFINE n == last_sequence_
            x == [key |-> k, seq |-> n + 1, type |-> type]
<1>1. Types /\ Order /\ NothingMissing /\ CompactionInv
  BY DEF LevelInv
<1>2. /\ n \in Nat /\ n < MaxSequence /\ n' = n + 1 /\ mem_' = mem_ \cup {x} /\ history' = history \cup {x}
      /\ files_' = files_ /\ flushed' = flushed /\ snapshots_' = snapshots_ /\ compact' = compact
  BY <1>1, StoredIs DEF Add
<1>3. x \in Entry /\ x.seq = n + 1 /\ x.key = k /\ x.type = type
  BY <1>2, KeysAre DEF Entry
<1>. HIDE DEF x
<1>4. /\ Stored \subseteq history
      /\ \A e \in history : e \in Entry /\ e.seq \in Nat /\ e.seq <= n
  BY <1>1, StoredIs
<1>5. Types'
  <2>1. Ordered(history)'
    <3>1. \A e \in history : e.seq # x.seq
      BY <1>2, <1>3, <1>4
    <3>. QED BY <1>1, <1>2, <1>3, <3>1 DEF Types, Ordered
  <2>2. /\ mem_' \subseteq history'
        /\ \A l \in LevelNumbers : IsFiniteSet(files_[l])' /\ \A f \in files_'[l] : Table(f) /\ f.entries \subseteq history'
    BY <1>1, <1>2 DEF Types
  <2>3. /\ n' \in 0..MaxSequence /\ \A e \in history' : e.seq <= n'
        /\ snapshots_' \subseteq 0..n' /\ flushed' \in 0..n' /\ flushed' < n'
    <3>1. snapshots_ \subseteq 0..n /\ flushed \in 0..n
      BY <1>1 DEF Types
    <3>. QED BY <1>2, <1>3, <1>4, <3>1, KeysAre
  <2>4. Deletes \/ \A e \in history' : e.type = "value"
    BY <1>1, <1>2, <1>3 DEF Types
  <2>5. DOMAIN files_' = LevelNumbers
    BY <1>1, <1>2 DEF Types
  <2>. QED BY <2>1, <2>2, <2>3, <2>4, <2>5 DEF Types
<1>6. Order'
  <2>1. MemIsNewest'
    <3>1. \A l \in LevelNumbers : EntriesOf(files_[l]) \subseteq history
      BY <1>1, LevelTables
    <3>2. \A l \in LevelNumbers : EntriesOf(files_[l])' = EntriesOf(files_[l])
      BY <1>2 DEF EntriesOf
    <3>3. \A d \in mem_', l \in LevelNumbers, e \in history : e \in EntriesOf(files_[l]) => d.seq > e.seq
      BY <1>1, <1>2, <1>3, <1>4 DEF Order, MemIsNewest
    <3>. QED BY <3>1, <3>2, <3>3 DEF MemIsNewest
  <2>. QED BY <1>1, <1>2, <2>1 DEF Order, Level0InOrder, LevelsDisjoint, NewerAbove, KeysTogether, EntriesOf
<1>7. NothingMissing'
  <2>1. Stored' = Stored \cup {x}
    BY <1>2 DEF Stored, EntriesOf
  <2>2. SUFFICES ASSUME NEW j \in Keys, NEW s \in snapshots_ \cup {n + 1}
                 PROVE  Values(Visible(Stored \cup {x}, j, s)) = Values(Visible(history \cup {x}, j, s))
    BY <1>2, <2>1 DEF NothingMissing, Values, Visible
  <2>. HIDE DEF n
  <2>3. PICK S, H, m, y, SS, HH, top : top = n + 1 /\ S = Stored /\ H = history /\ m = n /\ y = x /\ SS = S \cup {y} /\ HH = H \cup {y}
    OBVIOUS
  <2>4. /\ m \in Nat /\ top = m + 1 /\ SS = S \cup {y} /\ HH = H \cup {y} /\ y.seq = top
        /\ \A e \in S : e.seq \in Nat /\ e.seq <= m
        /\ \A e \in H : e.seq \in Nat /\ e.seq <= m
    BY <1>2, <1>3, <1>4, <2>3
  <2>5. /\ \A i \in Nat : i <= m => Visible(SS, j, i) = Visible(S, j, i)
        /\ Visible(SS, y.key, top) = {y}
        /\ j # y.key => Visible(SS, j, top) = Visible(S, j, m)
    BY <2>4, NewestSeen
  <2>6. /\ \A i \in Nat : i <= m => Visible(HH, j, i) = Visible(H, j, i)
        /\ Visible(HH, y.key, top) = {y}
        /\ j # y.key => Visible(HH, j, top) = Visible(H, j, m)
    BY <2>4, NewestSeen
  <2>7. \A i \in snapshots_ \cup {m} : Values(Visible(S, j, i)) = Values(Visible(H, j, i))
    BY <1>1, <2>3 DEF NothingMissing, n
  <2>8. CASE s = n + 1
    BY <2>3, <2>5, <2>6, <2>7, <2>8
  <2>9. CASE s \in snapshots_
    <3>1. s \in Nat /\ s <= m
      <4>1. snapshots_ \subseteq 0..m
        BY <1>1, <2>3 DEF Types, n
      <4>. QED BY <2>4, <2>9, <4>1
    <3>. QED BY <2>3, <2>5, <2>6, <2>7, <2>9, <3>1
  <2>. QED BY <2>8, <2>9
<1>8. CompactionInv'
  <2>1. compact # Nothing => compact.smallest_snapshot \in Nat /\ compact.smallest_snapshot <= n
    BY <1>1 DEF CompactionInv
  <2>2. compact # Nothing => compact.smallest_snapshot <= n + 1
    BY <1>2, <2>1
  <2>. QED BY <1>1, <1>2, <2>2 DEF CompactionInv, OldestOf, Apart, Deeper, Solid, Covers, GetRange, EntriesOf
<1>. QED BY <1>5, <1>6, <1>7, <1>8 DEF LevelInv

\* A snapshot of the last write
LEMMA GetSnapshotKeeps == LevelInv /\ GetSnapshot => LevelInv'
<1>1. SUFFICES ASSUME Types, Order, NothingMissing, CompactionInv, GetSnapshot PROVE LevelInv'
  BY DEF LevelInv
<1>2. /\ snapshots_' = snapshots_ \cup {last_sequence_} /\ last_sequence_' = last_sequence_
      /\ mem_' = mem_ /\ files_' = files_ /\ flushed' = flushed /\ history' = history /\ compact' = compact
  BY <1>1 DEF GetSnapshot
<1>3. snapshots_' \cup {last_sequence_'} = snapshots_ \cup {last_sequence_}
  BY <1>2
<1>4. Types'
  <2>1. last_sequence_ \in 0..last_sequence_
    BY <1>1, StoredIs
  <2>. QED BY <1>1, <1>2, <2>1 DEF Types
<1>5. Order'
  BY <1>1, <1>2 DEF Order, MemIsNewest, Level0InOrder, LevelsDisjoint, NewerAbove, KeysTogether, EntriesOf
<1>6. NothingMissing'
  BY <1>1, <1>2, <1>3 DEF NothingMissing, Stored, EntriesOf
<1>7. CompactionInv'
  BY <1>1, <1>2, <1>3 DEF CompactionInv, OldestOf, Apart, Deeper, Solid, Covers, GetRange, EntriesOf
<1>. QED BY <1>4, <1>5, <1>6, <1>7 DEF LevelInv

\* A snapshot less, for which nothing needs to be kept any more
LEMMA ReleaseSnapshotKeeps == ASSUME LevelInv, NEW s, ReleaseSnapshot(s) PROVE LevelInv'
<1>1. Types /\ Order /\ NothingMissing /\ CompactionInv
  BY DEF LevelInv
<1>2. /\ snapshots_' = snapshots_ \ {s} /\ last_sequence_' = last_sequence_
      /\ mem_' = mem_ /\ files_' = files_ /\ flushed' = flushed /\ history' = history /\ compact' = compact
  BY DEF ReleaseSnapshot
<1>3. snapshots_' \cup {last_sequence_'} \subseteq snapshots_ \cup {last_sequence_} /\ snapshots_' \subseteq snapshots_
  BY <1>2
<1>4. Types'
  BY <1>1, <1>2, <1>3 DEF Types
<1>5. Order'
  BY <1>1, <1>2 DEF Order, MemIsNewest, Level0InOrder, LevelsDisjoint, NewerAbove, KeysTogether, EntriesOf
<1>6. NothingMissing'
  BY <1>1, <1>2, <1>3 DEF NothingMissing, Stored, EntriesOf
<1>7. CompactionInv'
  BY <1>1, <1>2, <1>3 DEF CompactionInv, OldestOf, Apart, Deeper, Solid, Covers, GetRange, EntriesOf
<1>. QED BY <1>4, <1>5, <1>6, <1>7 DEF LevelInv

-------------------------------------------------------------------------------
(* Flushes *)

\* Tables whose ranges of keys do not meet have no key in common, and one is before the other.
LEMMA ApartTables ==
  ASSUME NEW f, NEW g, Table(f), Table(g), ~(f.smallest.key <= g.largest.key /\ g.smallest.key <= f.largest.key)
  PROVE  /\ \A d \in f.entries, e \in g.entries : d.key # e.key
         /\ Before(f.largest, g.smallest) \/ Before(g.largest, f.smallest)
<1>1. /\ {f.smallest.key, f.largest.key, g.smallest.key, g.largest.key} \subseteq Nat
      /\ \A d \in f.entries : d.key \in Nat /\ f.smallest.key <= d.key /\ d.key <= f.largest.key
      /\ \A e \in g.entries : e.key \in Nat /\ g.smallest.key <= e.key /\ e.key <= g.largest.key
  BY TableIs, EntryIs
<1>. QED BY <1>1 DEF Before

\* CompactMemTable: the table goes to level 0, or below where nothing overlaps it down to there, also while a
\* compaction works.
LEMMA FlushKeeps == LevelInv /\ Flush => LevelInv'
<1>1. SUFFICES ASSUME Types, Order, NothingMissing, CompactionInv, Flush PROVE LevelInv'
  BY DEF LevelInv
<1>2. PICK level \in PickLevelForMemTableOutput(GetRange({File(0, mem_)})) :
        files_' = [files_ EXCEPT ![level] = @ \cup {File(IF level = 0 THEN flushed + 1 ELSE 0, mem_)}]
  BY <1>1 DEF Flush
<1>. DEFINE num == IF level = 0 THEN flushed + 1 ELSE 0
            F == File(num, mem_)
            q == GetRange({File(0, mem_)})
<1>3. /\ mem_ # {} /\ (compact = Nothing \/ FlushesInCompaction)
      /\ flushed' = flushed + 1 /\ mem_' = {} /\ history' = history
      /\ last_sequence_' = last_sequence_ /\ snapshots_' = snapshots_ /\ compact' = compact
  BY <1>1 DEF Flush
<1>4. flushed \in Nat /\ last_sequence_ \in Nat /\ flushed < last_sequence_ /\ num \in Nat
  <2>1. last_sequence_ \in Nat
    BY <1>1, StoredIs
  <2>2. flushed \in 0..last_sequence_ /\ flushed < last_sequence_
    BY <1>1, <1>3 DEF Types
  <2>. QED BY <2>1, <2>2
<1>5. Ordered(mem_) /\ mem_ \subseteq history
  BY <1>1 DEF Types, Ordered
<1>6. Table(F) /\ F.entries = mem_ /\ F.num = num /\ Table(File(0, mem_)) /\ File(0, mem_).entries = mem_
  <2>1. PICK S : S = mem_
    OBVIOUS
  <2>2. PICK i \in Nat : i = num
    BY <1>4
  <2>3. Table(File(i, S)) /\ File(i, S).entries = S /\ File(i, S).num = i /\ Table(File(0, S)) /\ File(0, S).entries = S
    BY <1>3, <1>5, <2>1, FileIsTable
  <2>. QED BY <2>1, <2>2, <2>3
<1>7. q \in Ranges /\ q.begin = F.smallest.key /\ q.end = F.largest.key
  <2>1. PICK g : g = File(0, mem_)
    OBVIOUS
  <2>2. Tables({g})
    BY <1>5, <1>6, <2>1, EntriesOfUnion, FS_Singleton DEF Tables
  <2>3. GetRange({g}) \in Ranges /\ GetRange({g}).begin = g.smallest.key /\ GetRange({g}).end = g.largest.key
    BY <2>2, RangeIs
  <2>4. g.smallest = F.smallest /\ g.largest = F.largest
    BY <2>1 DEF File
  <2>. QED BY <2>1, <2>3, <2>4
<1>8. level \in LevelNumbers /\ level \in Nat
  BY <1>2, LevelsAre DEF PickLevelForMemTableOutput, LevelNumbers
<1>. HIDE DEF F, num
<1>9. ASSUME level # 0, NEW m \in 0..level, NEW f \in files_[m]
      PROVE  /\ ~Overlaps(f, q) /\ Table(f) /\ m \in LevelNumbers
             /\ \A e \in f.entries, d \in mem_ : e.key # d.key
             /\ Before(f.largest, F.smallest) \/ Before(F.largest, f.smallest)
  <2>1. m \in LevelNumbers /\ ~Overlaps(f, q)
    <3>1. \A i \in 0..level : ~OverlapInLevel(i, q)
      <4>1. level > 0
        BY <1>8, <1>9
      <4>. HIDE DEF q
      <4>2. level \in PickLevelForMemTableOutput(q)
        BY <1>2 DEF q
      <4>. QED BY <4>1, <4>2 DEF PickLevelForMemTableOutput
    <3>2. 0..level \subseteq LevelNumbers
      BY <1>8, LevelsAre DEF LevelNumbers
    <3>. QED BY <1>9, <3>1, <3>2 DEF OverlapInLevel
  <2>2. Table(f)
    BY <1>1, <1>9, <2>1 DEF Types
  <2>3. ~(f.smallest.key <= F.largest.key /\ F.smallest.key <= f.largest.key)
    BY <1>7, <2>1 DEF Overlaps
  <2>4. PICK g : g = F
    OBVIOUS
  <2>5. /\ \A e \in f.entries, d \in g.entries : e.key # d.key
        /\ Before(f.largest, g.smallest) \/ Before(g.largest, f.smallest)
    BY <1>6, <2>2, <2>3, <2>4, ApartTables
  <2>. QED BY <1>6, <2>1, <2>2, <2>4, <2>5
<1>10. /\ DOMAIN files_' = LevelNumbers
       /\ \A l \in LevelNumbers : files_'[l] = IF l = level THEN files_[l] \cup {F} ELSE files_[l]
  BY <1>1, <1>2 DEF Types, F, num
<1>11. \A l \in LevelNumbers : EntriesOf(files_'[l]) = IF l = level THEN EntriesOf(files_[l]) \cup mem_ ELSE EntriesOf(files_[l])
  <2>1. ASSUME NEW l \in LevelNumbers, l = level PROVE EntriesOf(files_'[l]) = EntriesOf(files_[l]) \cup mem_
    <3>1. files_'[l] = files_[l] \cup {F}
      BY <1>10, <2>1
    <3>2. EntriesOf(files_[l] \cup {F}) = EntriesOf(files_[l]) \cup EntriesOf({F}) /\ EntriesOf({F}) = F.entries
      BY EntriesOfUnion
    <3>. QED BY <1>6, <3>1, <3>2
  <2>2. \A l \in LevelNumbers : l # level => EntriesOf(files_'[l]) = EntriesOf(files_[l])
    BY <1>10
  <2>. QED BY <2>1, <2>2
<1>12. \A l \in LevelNumbers : EntriesOf(files_[l])' = EntriesOf(files_'[l])
  BY DEF EntriesOf
<1>13. \A d \in mem_, l \in LevelNumbers : \A f \in files_[l] : \A e \in f.entries : d.seq > e.seq
  BY <1>1 DEF Order, MemIsNewest, EntriesOf
<1>14. Types'
  <2>1. Ordered(history)'
    BY <1>1, <1>3 DEF Types, Ordered
  <2>2. ASSUME NEW l \in LevelNumbers
        PROVE  IsFiniteSet(files_'[l]) /\ \A f \in files_'[l] : Table(f) /\ f.entries \subseteq history
    <3>1. IsFiniteSet(files_[l]) /\ IsFiniteSet(files_[l] \cup {F})
      BY <1>1, FS_AddElement DEF Types
    <3>2. \A f \in files_[l] : Table(f) /\ f.entries \subseteq history
      BY <1>1 DEF Types
    <3>. QED BY <1>5, <1>6, <1>10, <3>1, <3>2
  <2>3. flushed + 1 \in 0..last_sequence_
    BY <1>4
  <2>. QED BY <1>1, <1>3, <1>10, <2>1, <2>2, <2>3 DEF Types
<1>15. Order'
  <2>1. MemIsNewest'
    BY <1>3 DEF MemIsNewest
  <2>2. Level0InOrder'
    <3>1. \A f \in files_[0] : f.num <= flushed /\ f.num \in Nat
      BY <1>1, LevelsAre DEF Order, Level0InOrder, Types, Table
    <3>2. CASE level = 0
      <4>1. files_'[0] = files_[0] \cup {F} /\ F.num = flushed + 1
        BY <1>6, <1>10, <3>2, LevelsAre DEF num
      <4>2. \A f \in files_[0] : \A e \in f.entries, d \in F.entries : e.seq < d.seq
        <5>1. \A f \in files_[0] : \A e \in f.entries, d \in mem_ : e.seq \in Nat /\ d.seq \in Nat /\ d.seq > e.seq
          <6>1. \A f \in files_[0] : f.entries \subseteq history
            BY <1>1, LevelsAre DEF Types
          <6>2. \A e \in history : e.seq \in Nat
            BY <1>1, StoredIs
          <6>. QED BY <1>5, <1>13, <6>1, <6>2, LevelsAre
        <5>. QED BY <1>6, <5>1
      <4>3. \A f, g \in files_[0] : f.num = g.num => f = g
        BY <1>1 DEF Order, Level0InOrder
      <4>4. \A f, g \in files_[0] : f.num < g.num => \A d \in f.entries, e \in g.entries : d.seq < e.seq
        BY <1>1 DEF Order, Level0InOrder
      <4>5. SUFFICES ASSUME NEW f \in files_[0] \cup {F}, NEW g \in files_[0] \cup {F}
                     PROVE  /\ f.num <= flushed + 1 /\ (f.num = g.num => f = g)
                            /\ f.num < g.num => \A d \in f.entries, e \in g.entries : d.seq < e.seq
        BY <1>3, <4>1 DEF Level0InOrder
      <4>6. f.num <= flushed + 1 /\ (f.num = g.num => f = g)
        BY <1>4, <3>1, <4>1, <4>3
      <4>7. ASSUME f.num < g.num PROVE \A d \in f.entries, e \in g.entries : d.seq < e.seq
        <5>1. f \in files_[0]
          BY <1>4, <3>1, <4>1, <4>7
        <5>. QED BY <4>2, <4>4, <4>7, <5>1
      <4>. QED BY <4>6, <4>7
    <3>3. CASE level # 0
      <4>1. files_'[0] = files_[0]
        BY <1>10, <3>3, LevelsAre
      <4>2. \A f \in files_[0] : f.num <= flushed + 1
        BY <1>4, <3>1
      <4>. QED BY <1>1, <1>3, <4>1, <4>2 DEF Order, Level0InOrder
    <3>. QED BY <3>2, <3>3
  <2>3. LevelsDisjoint'
    <3>1. SUFFICES ASSUME NEW l \in 1..(kNumLevels - 1), NEW f \in files_'[l], NEW g \in files_'[l], f # g
                   PROVE  Before(f.largest, g.smallest) \/ Before(g.largest, f.smallest)
      BY DEF LevelsDisjoint
    <3>2. l \in LevelNumbers /\ l # 0
      BY LevelsAre
    <3>3. CASE f \in files_[l] /\ g \in files_[l]
      BY <1>1, <3>1, <3>3 DEF Order, LevelsDisjoint
    <3>4. CASE ~(f \in files_[l] /\ g \in files_[l])
      <4>1. l = level /\ l \in 0..level /\ level # 0
        BY <1>8, <1>10, <3>2, <3>4
      <4>2. (f = F /\ g \in files_[l]) \/ (g = F /\ f \in files_[l])
        BY <1>10, <3>1, <3>2, <3>4, <4>1
      <4>. QED BY <1>9, <4>1, <4>2
    <3>. QED BY <3>3, <3>4
  <2>4. NewerAbove'
    <3>1. SUFFICES ASSUME NEW l \in LevelNumbers, NEW m \in (l + 1)..(kNumLevels - 1),
                          NEW d \in EntriesOf(files_'[l]), NEW e \in EntriesOf(files_'[m]), d.key = e.key
                   PROVE  d.seq > e.seq
      BY DEF NewerAbove, EntriesOf
    <3>2. m \in LevelNumbers /\ l # m /\ l < m /\ l \in Nat /\ m \in Nat
      BY LevelsAre DEF LevelNumbers
    <3>3. CASE d \in EntriesOf(files_[l]) /\ e \in EntriesOf(files_[m])
      BY <1>1, <3>1, <3>3 DEF Order, NewerAbove
    <3>4. CASE l = level /\ d \in mem_
      <4>1. e \in EntriesOf(files_[m])
        BY <1>11, <3>2, <3>4
      <4>. QED BY <1>13, <3>2, <3>4, <4>1 DEF EntriesOf
    <3>5. CASE m = level /\ e \in mem_
      <4>1. d \in EntriesOf(files_[l])
        BY <1>11, <3>2, <3>5
      <4>3. level # 0 /\ l \in 0..level
        BY <3>2, <3>5
      <4>2. PICK f \in files_[l] : d \in f.entries
        BY <4>1 DEF EntriesOf
      <4>. QED BY <1>9, <3>1, <3>5, <4>2, <4>3
    <3>. QED BY <1>11, <3>2, <3>3, <3>4, <3>5
  <2>5. KeysTogether'
    <3>1. SUFFICES ASSUME ~SplitsKeys, NEW l \in 1..(kNumLevels - 1), NEW f \in files_'[l], NEW g \in files_'[l],
                          NEW d \in f.entries, NEW e \in g.entries, d.key = e.key
                   PROVE  f = g
      BY DEF KeysTogether
    <3>2. l \in LevelNumbers /\ l # 0
      BY LevelsAre
    <3>3. CASE f \in files_[l] /\ g \in files_[l]
      BY <1>1, <3>1, <3>3 DEF Order, KeysTogether
    <3>4. CASE f = F /\ g = F
      BY <3>4
    <3>5. CASE l = level /\ ((f = F /\ g \in files_[l]) \/ (g = F /\ f \in files_[l]))
      <4>1. l \in 0..level /\ level # 0
        BY <1>8, <3>2, <3>5
      <4>. QED BY <1>6, <1>9, <3>1, <3>5, <4>1
    <3>. QED BY <1>10, <3>1, <3>2, <3>3, <3>4, <3>5
  <2>. QED BY <2>1, <2>2, <2>3, <2>4, <2>5 DEF Order
<1>16. NothingMissing'
  <2>1. Stored' = Stored
    <3>1. Stored' = UNION {EntriesOf(files_'[l]) : l \in LevelNumbers}
      BY <1>3 DEF Stored, EntriesOf
    <3>2. ASSUME NEW e PROVE e \in Stored' <=> e \in Stored
      <4>1. e \in Stored' <=> \E l \in LevelNumbers : e \in EntriesOf(files_'[l])
        BY <3>1
      <4>2. e \in Stored <=> e \in mem_ \/ \E l \in LevelNumbers : e \in EntriesOf(files_[l])
        BY DEF Stored
      <4>3. \A l \in LevelNumbers : e \in EntriesOf(files_'[l]) <=> e \in EntriesOf(files_[l]) \/ (l = level /\ e \in mem_)
        BY <1>11
      <4>. QED BY <1>8, <4>1, <4>2, <4>3
    <3>. QED BY <3>2 DEF Stored
  <2>. QED BY <1>1, <1>3, <2>1 DEF NothingMissing
<1>17. CompactionInv'
  <2>1. SUFFICES ASSUME compact # Nothing PROVE CompactionInv'
    BY <1>3 DEF CompactionInv
  <2>. DEFINE c == compact
              in == EntriesOf(c.in0 \cup c.in1)
  <2>2. /\ c.level \in 0..(kNumLevels - 2) /\ c.in0 \subseteq files_[c.level] /\ c.in1 \subseteq files_[c.level + 1] /\ c.in0 # {}
        /\ c.smallest_snapshot \in Nat /\ \A s \in snapshots_ \cup {last_sequence_} : c.smallest_snapshot <= s
        /\ OldestOf(files_[c.level], c.in0) /\ Apart(files_[c.level + 1] \ c.in1, c.in0, c.in1) /\ Deeper(c)
        /\ Solid(c.in0 \cup c.in1)
    BY <1>1, <1>3, <2>1 DEF CompactionInv
  <2>3. c.level \in LevelNumbers /\ c.level + 1 \in LevelNumbers /\ c.level \in Nat
    BY <2>2, LevelsAre
  <2>4. c.in0 \subseteq files_'[c.level] /\ c.in1 \subseteq files_'[c.level + 1]
    BY <1>10, <2>2, <2>3
  <2>5. OldestOf(files_'[c.level], c.in0)
    <3>1. \A d \in EntriesOf(c.in0) : d \in EntriesOf(files_[c.level])
      BY <2>2, EntriesOfUnion
    <3>2. \A e \in mem_, d \in EntriesOf(c.in0) : e.seq > d.seq
      BY <1>1, <2>3, <3>1 DEF Order, MemIsNewest
    <3>. QED BY <1>6, <1>10, <2>2, <2>3, <3>2 DEF OldestOf
  <2>6. \A f \in c.in0 \cup c.in1 : Table(f)
    BY <1>1, <2>2, <2>3 DEF Types
  <2>7. ASSUME level # 0, level \in {c.level, c.level + 1} \/ c.level + 1 < level, NEW f \in c.in0
        PROVE  \A e \in mem_, d \in f.entries : e.key # d.key
    <3>1. c.level \in 0..level /\ f \in files_[c.level]
      BY <1>8, <2>2, <2>3, <2>7
    <3>. QED BY <1>9, <2>7, <3>1
  <2>8. ASSUME level # 0, level = c.level + 1 \/ c.level + 1 < level, NEW f \in c.in1
        PROVE  \A e \in mem_, d \in f.entries : e.key # d.key
    <3>1. c.level + 1 \in 0..level /\ f \in files_[c.level + 1]
      BY <1>8, <2>2, <2>3, <2>8
    <3>. QED BY <1>9, <2>8, <3>1
  <2>9. Apart(files_'[c.level + 1] \ c.in1, c.in0, c.in1)
    <3>1. SUFFICES ASSUME level = c.level + 1
                   PROVE  /\ (\A e \in in : Before(e, F.smallest)) \/ (\A e \in in : Before(F.largest, e))
                          /\ \A e \in F.entries, d \in EntriesOf(c.in0) : e.key # d.key
      BY <1>10, <2>2, <2>3 DEF Apart
    <3>2. level # 0
      BY <2>3, <3>1
    <3>3. \A e \in F.entries, d \in EntriesOf(c.in0) : e.key # d.key
      BY <1>6, <2>7, <3>1, <3>2 DEF EntriesOf
    <3>4. \A f \in c.in0 \cup c.in1 : ~Overlaps(f, q)
      <4>1. c.level \in 0..level /\ level \in 0..level
        BY <1>8, <2>3, <3>1
      <4>. QED BY <1>9, <2>2, <3>1, <3>2, <4>1
    <3>. DEFINE r == GetRange(c.in0 \cup c.in1)
    <3>5. Tables(c.in0 \cup c.in1) /\ c.in0 \cup c.in1 # {}
      <4>1. Tables(files_[c.level] \cup files_[c.level + 1])
        BY <1>1, <2>3, LevelTables
      <4>2. c.in0 \cup c.in1 \subseteq files_[c.level] \cup files_[c.level + 1]
        BY <2>2
      <4>3. PICK A, B : A = c.in0 \cup c.in1 /\ B = files_[c.level] \cup files_[c.level + 1]
        OBVIOUS
      <4>4. Tables(A)
        BY <4>1, <4>2, <4>3, TablesAre
      <4>. QED BY <2>2, <4>3, <4>4
    <3>6. PICK A : A = c.in0 \cup c.in1
      OBVIOUS
    <3>7. /\ GetRange(A) \in Ranges /\ \A e \in EntriesOf(A) : e \in Entry /\ GetRange(A).begin <= e.key /\ e.key <= GetRange(A).end
          /\ \E f \in A : GetRange(A).begin = f.smallest.key
          /\ \A f \in A : GetRange(A).begin <= f.smallest.key /\ f.largest.key <= GetRange(A).end
      BY <3>5, <3>6, RangeIs
    <3>8. \A f \in A : {f.smallest.key, f.largest.key} \subseteq Keys /\ f.smallest.key <= f.largest.key
      BY <3>5, <3>6, TablesAre
    <3>9. PICK t, p : t = GetRange(A) /\ p = q
      OBVIOUS
    <3>10. {t.begin, t.end, p.begin, p.end} \subseteq Nat /\ t \in Ranges /\ p \in Ranges
      BY <1>7, <3>7, <3>9, KeysAre DEF Ranges
    <3>11. t.begin <= t.end /\ p.begin <= p.end
      <4>1. t.begin <= t.end
        <5>1. PICK f \in A : t.begin = f.smallest.key
          BY <3>7, <3>9
        <5>2. f.smallest.key <= f.largest.key /\ f.largest.key <= t.end /\ {f.smallest.key, f.largest.key} \subseteq Nat
          BY <3>7, <3>8, <3>9, KeysAre
        <5>. QED BY <3>10, <5>1, <5>2
      <4>2. F.smallest.key <= F.largest.key
        <5>1. PICK g : g = F
          OBVIOUS
        <5>2. g.smallest.key <= g.largest.key
          BY <1>6, <5>1, TableIs
        <5>. QED BY <5>1, <5>2
      <4>. QED BY <1>7, <3>9, <4>1, <4>2
    <3>12. Covers(A, t)
      BY <2>2, <3>6, <3>9 DEF Solid
    <3>13. \A f \in A : ~Overlaps(f, p)
      BY <3>4, <3>6, <3>9
    <3>14. p.end < t.begin \/ t.end < p.begin
      BY <3>8, <3>10, <3>11, <3>12, <3>13, NoGap
    <3>15. \A e \in EntriesOf(A) : e.key \in Nat /\ t.begin <= e.key /\ e.key <= t.end
      BY <3>7, <3>9, EntryIs
    <3>16. (\A e \in EntriesOf(A) : Before(e, F.smallest)) \/ (\A e \in EntriesOf(A) : Before(F.largest, e))
      BY <1>7, <3>9, <3>10, <3>14, <3>15 DEF Before
    <3>. QED BY <3>3, <3>6, <3>16
  <2>10. Deeper(c)'
    <3>1. SUFFICES ASSUME NEW l \in (c.level + 2)..(kNumLevels - 1), NEW f \in files_'[l] \ c.base[l],
                          NEW e \in f.entries, NEW d \in EntriesOf(c.in0 \cup c.in1)
                   PROVE  e.key # d.key
      BY <1>3 DEF Deeper, EntriesOf
    <3>2. l \in LevelNumbers /\ c.level + 1 < l
      BY <2>3 DEF LevelNumbers
    <3>3. CASE f \in files_[l]
      BY <2>2, <3>1, <3>3 DEF Deeper
    <3>4. CASE f = F /\ l = level
      <4>1. PICK g \in c.in0 \cup c.in1 : d \in g.entries
        BY DEF EntriesOf
      <4>2. level # 0 /\ e \in mem_
        BY <1>6, <2>3, <3>2, <3>4
      <4>. QED BY <2>7, <2>8, <3>2, <3>4, <4>1, <4>2
    <3>. QED BY <1>10, <3>1, <3>2, <3>3, <3>4
  <2>. QED BY <1>3, <2>2, <2>4, <2>5, <2>9, <2>10 DEF CompactionInv, OldestOf, Apart, EntriesOf, Solid, Covers, GetRange
<1>. QED BY <1>14, <1>15, <1>16, <1>17 DEF LevelInv

-------------------------------------------------------------------------------
(* Compactions *)

\* The tables of the next level that do not overlap the inputs of a compaction
LEMMA ApartIs ==
  ASSUME NEW fs, NEW gs, Tables(fs \cup gs), Disjoint(gs), NEW in0, in0 # {}, in0 \subseteq fs,
         NEW in1, in1 = Hit(gs, GetRange(in0))
  PROVE  Apart(gs \ in1, in0, in1)
<1>. DEFINE r == GetRange(in0)
<1>1. Tables(in0) /\ \A f \in fs \cup gs : Table(f)
  <2>1. in0 \subseteq fs \cup gs
    OBVIOUS
  <2>. QED BY <2>1, TablesAre DEF Tables
<1>2. r \in Ranges /\ \A e \in EntriesOf(in0) : e \in Entry /\ r.begin <= e.key /\ e.key <= r.end
  BY <1>1, RangeIs
<1>3. {r.begin, r.end} \subseteq Nat /\ \A e \in EntriesOf(in0) : e.key \in Nat
  BY <1>2, EntryIs, KeysAre DEF Ranges
<1>4. SUFFICES ASSUME NEW f \in gs \ in1
               PROVE  /\ \A e \in f.entries, d \in EntriesOf(in0) : e.key # d.key
                      /\ (\A e \in EntriesOf(in0 \cup in1) : Before(e, f.smallest)) \/ (\A e \in EntriesOf(in0 \cup in1) : Before(f.largest, e))
  BY DEF Apart
<1>5. Table(f) /\ ~Overlaps(f, r)
  BY <1>1, <1>4 DEF Hit
<1>6. /\ f.smallest.key \in Nat /\ f.largest.key \in Nat /\ f.smallest.key <= f.largest.key
      /\ \A e \in f.entries : e.key \in Nat /\ f.smallest.key <= e.key /\ e.key <= f.largest.key
  BY <1>5, TableIs, EntryIs
<1>. HIDE DEF r
<1>7. r.end < f.smallest.key \/ f.largest.key < r.begin
  BY <1>3, <1>5, <1>6 DEF Overlaps
<1>8. \A e \in f.entries, d \in EntriesOf(in0) : e.key # d.key
  BY <1>2, <1>3, <1>6, <1>7
<1>9. ASSUME NEW e \in EntriesOf(in1), NEW g \in in1, e \in g.entries
      PROVE  /\ r.end < f.smallest.key => Before(e, f.smallest)
             /\ f.largest.key < r.begin => Before(f.largest, e)
  <2>1. g \in gs /\ Table(g) /\ Overlaps(g, r) /\ f # g
    BY <1>1, <1>4 DEF Hit, r
  <2>2. g.smallest.key \in Nat /\ g.largest.key \in Nat
    BY <2>1, TableIs, EntryIs
  <2>3. Before(f.largest, g.smallest) \/ Before(g.largest, f.smallest)
    BY <1>4, <2>1 DEF Disjoint
  <2>4. CASE Before(g.largest, f.smallest)
    <3>1. Before(e, f.smallest) /\ g.largest.key <= f.smallest.key
      BY <1>5, <1>9, <2>1, <2>4, SidesAre, TableIs
    <3>2. ~(f.largest.key < r.begin)
      BY <1>3, <1>6, <2>1, <2>2, <3>1 DEF Overlaps
    <3>. QED BY <3>1, <3>2
  <2>5. CASE Before(f.largest, g.smallest)
    <3>1. Before(f.largest, e) /\ f.largest.key <= g.smallest.key
      BY <1>5, <1>9, <2>1, <2>5, SidesAre, TableIs
    <3>2. ~(r.end < f.smallest.key)
      BY <1>3, <1>6, <2>1, <2>2, <3>1 DEF Overlaps
    <3>. QED BY <3>1, <3>2
  <2>. QED BY <2>3, <2>4, <2>5
<1>10. ASSUME NEW e \in EntriesOf(in0)
       PROVE  /\ r.end < f.smallest.key => Before(e, f.smallest)
              /\ f.largest.key < r.begin => Before(f.largest, e)
  BY <1>2, <1>3, <1>6 DEF Before
<1>11. \A e \in EntriesOf(in0 \cup in1) : e \in EntriesOf(in0) \/ \E g \in in1 : e \in g.entries /\ e \in EntriesOf(in1)
  BY DEF EntriesOf
<1>12. ASSUME NEW e \in EntriesOf(in0 \cup in1)
       PROVE  /\ r.end < f.smallest.key => Before(e, f.smallest)
              /\ f.largest.key < r.begin => Before(f.largest, e)
  BY <1>9, <1>10, <1>11
<1>. QED BY <1>7, <1>8, <1>12

\* What takes tables of a level and of the next away and adds others with some of their entries
\* to the next keeps the order of the levels.
LEMMA MergeKeeps ==
  ASSUME Types, Order, NEW level \in 0..(kNumLevels - 2), NEW in0, in0 \subseteq files_[level],
         NEW in1, in1 \subseteq files_[level + 1], OldestOf(files_[level], in0),
         Apart(files_[level + 1] \ in1, in0, in1),
         NEW out, IsFiniteSet(out), Disjoint(out), EntriesOf(out) \subseteq EntriesOf(in0 \cup in1),
         \A f \in out : Table(f) /\ f.entries \subseteq EntriesOf(out),
         SplitsKeys \/ \A f, g \in out : \A d \in f.entries, e \in g.entries : d.key = e.key => f = g,
         files_' = [files_ EXCEPT ![level] = @ \ in0, ![level + 1] = (@ \ in1) \cup out],
         UNCHANGED <<mem_, flushed, last_sequence_, snapshots_, history>>
  PROVE  Types' /\ Order'
<1>. DEFINE next == level + 1
            in == EntriesOf(in0 \cup in1)
<1>1. /\ level \in LevelNumbers /\ next \in LevelNumbers /\ level # next /\ level \in Nat /\ next \in 1..(kNumLevels - 1)
      /\ 0 \in LevelNumbers /\ next # 0
  BY LevelsAre
<1>2. /\ DOMAIN files_' = LevelNumbers
      /\ files_'[level] = files_[level] \ in0
      /\ files_'[next] = (files_[next] \ in1) \cup out
      /\ \A l \in LevelNumbers : l # level /\ l # next => files_'[l] = files_[l]
  BY <1>1 DEF Types
<1>3. mem_' = mem_ /\ flushed' = flushed /\ last_sequence_' = last_sequence_ /\ snapshots_' = snapshots_ /\ history' = history
  OBVIOUS
<1>4. in \subseteq EntriesOf(files_[level]) \cup EntriesOf(files_[next])
  BY DEF EntriesOf
<1>5. EntriesOf(files_[level]) \subseteq history /\ EntriesOf(files_[next]) \subseteq history
  BY <1>1, LevelTables
<1>6. \A l \in LevelNumbers : l # next => files_'[l] \subseteq files_[l]
  BY <1>2
<1>7. \A l \in LevelNumbers : l # next => EntriesOf(files_'[l]) \subseteq EntriesOf(files_[l])
  BY <1>6, EntriesOfUnion
<1>8. EntriesOf(files_'[next]) \subseteq EntriesOf(files_[next]) \cup EntriesOf(in0)
  <2>1. EntriesOf(files_'[next]) = EntriesOf(files_[next] \ in1) \cup EntriesOf(out)
    <3>1. EntriesOf((files_[next] \ in1) \cup out) = EntriesOf(files_[next] \ in1) \cup EntriesOf(out)
      BY EntriesOfUnion
    <3>. HIDE DEF next
    <3>. QED BY <1>2, <3>1
  <2>2. in = EntriesOf(in0) \cup EntriesOf(in1)
    BY EntriesOfUnion
  <2>3. EntriesOf(in1) \subseteq EntriesOf(files_[next]) /\ EntriesOf(files_[next] \ in1) \subseteq EntriesOf(files_[next])
    BY EntriesOfUnion
  <2>. QED BY <2>1, <2>2, <2>3
<1>9. EntriesOf(in0) \subseteq EntriesOf(files_[level])
  BY EntriesOfUnion
<1>10. \A l \in LevelNumbers : \A e \in EntriesOf(files_'[l]) :
         \/ e \in EntriesOf(files_[l])
         \/ l = next /\ e \in EntriesOf(in0)
  BY <1>7, <1>8
<1>. HIDE DEF next, in
<1>11. Types'
  <2>1. ASSUME NEW l \in LevelNumbers
        PROVE  IsFiniteSet(files_'[l]) /\ \A f \in files_'[l] : Table(f) /\ f.entries \subseteq history
    <3>1. IsFiniteSet(files_[l]) /\ \A f \in files_[l] : Table(f) /\ f.entries \subseteq history
      BY DEF Types
    <3>2. CASE l # next
      <4>1. files_'[l] \subseteq files_[l]
        BY <1>6, <3>2
      <4>. QED BY <3>1, <4>1, FS_Subset
    <3>3. CASE l = next
      <4>1. IsFiniteSet(files_[l] \ in1) /\ IsFiniteSet((files_[l] \ in1) \cup out)
        BY <3>1, FS_Difference, FS_Union
      <4>2. \A f \in out : Table(f) /\ f.entries \subseteq history
        BY <1>4, <1>5 DEF in
      <4>. QED BY <1>2, <3>1, <3>3, <4>1, <4>2
    <3>. QED BY <3>2, <3>3
  <2>2. Ordered(history)'
    BY <1>3 DEF Types, Ordered
  <2>. QED BY <1>2, <1>3, <2>1, <2>2 DEF Types
<1>12. MemIsNewest'
  <2>1. SUFFICES ASSUME NEW d \in mem_, NEW l \in LevelNumbers, NEW e \in EntriesOf(files_'[l]) PROVE d.seq > e.seq
    BY <1>3 DEF MemIsNewest, EntriesOf
  <2>2. \E m \in LevelNumbers : e \in EntriesOf(files_[m])
    BY <1>1, <1>9, <1>10
  <2>. QED BY <2>2 DEF Order, MemIsNewest
<1>13. Level0InOrder'
  <2>1. files_'[0] \subseteq files_[0]
    BY <1>1, <1>6
  <2>. QED BY <1>3, <2>1 DEF Order, Level0InOrder
<1>14. LevelsDisjoint'
  <2>1. SUFFICES ASSUME NEW l \in 1..(kNumLevels - 1), NEW f \in files_'[l], NEW g \in files_'[l], f # g
                 PROVE  Before(f.largest, g.smallest) \/ Before(g.largest, f.smallest)
    BY DEF LevelsDisjoint
  <2>2. l \in LevelNumbers
    BY LevelsAre
  <2>3. CASE f \in files_[l] /\ g \in files_[l]
    BY <2>1, <2>3 DEF Order, LevelsDisjoint
  <2>4. CASE l = next /\ f \in out /\ g \in out
    BY <2>1, <2>4 DEF Disjoint
  <2>5. ASSUME NEW o \in out, NEW x \in files_[next] \ in1
        PROVE  Before(o.largest, x.smallest) \/ Before(x.largest, o.smallest)
    <3>1. o.largest \in o.entries /\ o.smallest \in o.entries
      BY TableIs
    <3>2. o.largest \in in /\ o.smallest \in in
      BY <3>1 DEF in
    <3>. QED BY <3>2 DEF Apart, in, next
  <2>. QED BY <1>2, <1>6, <2>1, <2>2, <2>3, <2>4, <2>5
<1>15. NewerAbove'
  <2>1. SUFFICES ASSUME NEW l \in LevelNumbers, NEW m \in (l + 1)..(kNumLevels - 1),
                        NEW d \in EntriesOf(files_'[l]), NEW e \in EntriesOf(files_'[m]), d.key = e.key
                 PROVE  d.seq > e.seq
    BY DEF NewerAbove, EntriesOf
  <2>2. m \in LevelNumbers /\ l < m /\ l \in Nat /\ m \in Nat
    BY LevelsAre DEF LevelNumbers
  <2>3. \A i, j \in LevelNumbers : i < j => \A x \in EntriesOf(files_[i]), y \in EntriesOf(files_[j]) : x.key = y.key => x.seq > y.seq
    <3>1. \A i, j \in LevelNumbers : i < j => j \in (i + 1)..(kNumLevels - 1)
      BY LevelsAre DEF LevelNumbers
    <3>. QED BY <3>1 DEF Order, NewerAbove
  <2>4. CASE d \in EntriesOf(files_[l]) /\ e \in EntriesOf(files_[m])
    BY <2>1, <2>2, <2>3, <2>4
  <2>5. CASE l = next /\ d \in EntriesOf(in0)
    <3>1. level < m /\ m # next
      BY <1>1, <2>2, <2>5 DEF next
    <3>2. e \in EntriesOf(files_[m])
      BY <1>10, <2>2, <3>1
    <3>. QED BY <1>1, <1>9, <2>1, <2>2, <2>3, <2>5, <3>1, <3>2
  <2>6. CASE m = next /\ e \in EntriesOf(in0) /\ d \in EntriesOf(files_[l])
    <3>1. l < level \/ l = level
      BY <1>1, <2>2, <2>6 DEF next
    <3>2. CASE l < level
      BY <1>1, <1>9, <2>1, <2>3, <2>6, <3>2
    <3>3. CASE l = level
      <4>1. PICK f \in files_[level] \ in0 : d \in f.entries
        BY <1>2, <2>1, <3>3 DEF EntriesOf
      <4>. QED BY <2>1, <2>6, <4>1 DEF OldestOf
    <3>. QED BY <3>1, <3>2, <3>3
  <2>. QED BY <1>10, <2>2, <2>4, <2>5, <2>6
<1>16. KeysTogether'
  <2>1. SUFFICES ASSUME ~SplitsKeys, NEW l \in 1..(kNumLevels - 1), NEW f \in files_'[l], NEW g \in files_'[l],
                        NEW d \in f.entries, NEW e \in g.entries, d.key = e.key
                 PROVE  f = g
    BY DEF KeysTogether
  <2>2. l \in LevelNumbers
    BY LevelsAre
  <2>3. CASE f \in files_[l] /\ g \in files_[l]
    BY <2>1, <2>3 DEF Order, KeysTogether
  <2>4. CASE l = next /\ f \in out /\ g \in out
    BY <2>1, <2>4
  <2>5. ASSUME NEW o \in out, NEW x \in files_[next] \ in1, NEW a \in o.entries, NEW b \in x.entries
        PROVE  a.key # b.key
    <3>1. a \in in
      BY DEF in
    <3>2. CASE a \in EntriesOf(in0)
      BY <3>2 DEF Apart, next
    <3>3. CASE a \notin EntriesOf(in0)
      <4>1. PICK y \in in1 : a \in y.entries
        BY <3>1, <3>3 DEF in, EntriesOf
      <4>. QED BY <1>1, <2>1, <4>1 DEF Order, KeysTogether, next
    <3>. QED BY <3>2, <3>3
  <2>6. CASE l = next /\ ((f \in out /\ g \in files_[next] \ in1) \/ (g \in out /\ f \in files_[next] \ in1))
    BY <2>1, <2>5, <2>6
  <2>. QED BY <1>2, <1>6, <2>1, <2>2, <2>3, <2>4, <2>6
<1>. QED BY <1>11, <1>12, <1>13, <1>14, <1>15, <1>16 DEF Order

\* What PickCompaction and CompactRange hand to SetupOtherInputs.
LEMMA StartKeeps ==
  ASSUME LevelInv, NEW level \in 0..(kNumLevels - 2), NEW picked, Chosen(files_[level], picked),
         FlushesInCompaction => Solid(picked), Start(level, picked)
  PROVE  LevelInv'
<1>1. Types /\ Order /\ NothingMissing /\ CompactionInv
  BY DEF LevelInv
<1>2. level \in LevelNumbers /\ level + 1 \in LevelNumbers /\ level \in Nat
  BY LevelsAre
<1>3. PICK in \in SetupOtherInputs(level, picked) :
        compact' = [level |-> level, in0 |-> in[1], in1 |-> in[2],
                       base |-> [l \in (level + 2)..(kNumLevels - 1) |-> files_[l]],
                       smallest_snapshot |-> IF snapshots_ = {} THEN last_sequence_ ELSE Min(snapshots_)]
  BY DEF Start
<1>4. /\ mem_' = mem_ /\ files_' = files_ /\ flushed' = flushed /\ last_sequence_' = last_sequence_
      /\ snapshots_' = snapshots_ /\ history' = history
  BY DEF Start
<1>5. PICK fs, gs : fs = files_[level] /\ gs = files_[level + 1]
  OBVIOUS
<1>6. Tables(fs \cup gs) /\ (level # 0 => Disjoint(fs)) /\ Disjoint(gs)
  <2>1. Tables(files_[level] \cup files_[level + 1])
    BY <1>1, <1>2, LevelTables
  <2>2. \A l \in 1..(kNumLevels - 1) : Disjoint(files_[l])
    BY <1>1 DEF Order, LevelsDisjoint, Disjoint
  <2>. QED BY <1>2, <1>5, <2>1, <2>2, LevelsAre
<1>7. /\ in[1] # {} /\ in[1] \subseteq fs /\ OldestOf(fs, in[1])
      /\ in[2] = Hit(gs, GetRange(in[1]))
      /\ Solid(picked) => Solid(in[1] \cup in[2])
  <2>1. Chosen(fs, picked) /\ level \in Nat /\ (level # 0 => Disjoint(fs))
    BY <1>2, <1>5, <1>6
  <2>2. Inputs(fs, gs, picked, in[1], in[2])
    BY <1>5, <1>6, <2>1, InputsAre
  <2>. QED BY <2>2 DEF Inputs
<1>8. Apart(gs \ in[2], in[1], in[2])
  <2>1. PICK in0, in1 : in0 = in[1] /\ in1 = in[2]
    OBVIOUS
  <2>2. Apart(gs \ in1, in0, in1)
    BY <1>6, <1>7, <2>1, ApartIs
  <2>. QED BY <2>1, <2>2
<1>. DEFINE smallest == IF snapshots_ = {} THEN last_sequence_ ELSE Min(snapshots_)
<1>9. smallest \in Nat /\ \A s \in snapshots_ \cup {last_sequence_} : smallest <= s
  <2>1. last_sequence_ \in Nat /\ snapshots_ \subseteq 0..last_sequence_
    BY <1>1, StoredIs DEF Types
  <2>2. ASSUME snapshots_ # {} PROVE Min(snapshots_) \in snapshots_ /\ \A s \in snapshots_ : Min(snapshots_) <= s
    <3>1. PICK S : S = snapshots_
      OBVIOUS
    <3>2. S \subseteq Nat /\ S # {}
      BY <2>1, <2>2, <3>1
    <3>3. Min(S) \in S /\ \A s \in S : Min(S) <= s
      BY <3>2, MinIs
    <3>. QED BY <3>1, <3>3
  <2>3. CASE snapshots_ = {}
    BY <2>1, <2>3
  <2>4. CASE snapshots_ # {}
    <3>1. smallest = Min(snapshots_) /\ smallest \in 0..last_sequence_
      BY <2>1, <2>2, <2>4
    <3>. HIDE DEF smallest
    <3>. QED BY <2>1, <2>2, <2>4, <3>1
  <2>. QED BY <2>3, <2>4
<1>10. PICK c : c = compact'
  OBVIOUS
<1>15. /\ c.level = level /\ c.in0 = in[1] /\ c.in1 = in[2] /\ c.smallest_snapshot = smallest
       /\ \A l \in (level + 2)..(kNumLevels - 1) : c.base[l] = files_[l]
  BY <1>3, <1>10
<1>11. CompactionInv'
  <2>. HIDE DEF smallest
  <2>1. \A l \in (c.level + 2)..(kNumLevels - 1) : files_'[l] \ c.base[l] = {}
    BY <1>4, <1>15
  <2>2. Hit(gs, GetRange(in[1])) \subseteq gs
    BY DEF Hit
  <2>3. /\ c.level \in 0..(kNumLevels - 2) /\ c.in0 \subseteq files_'[c.level] /\ c.in1 \subseteq files_'[c.level + 1] /\ c.in0 # {}
        /\ c.smallest_snapshot \in Nat /\ \A s \in snapshots_' \cup {last_sequence_'} : c.smallest_snapshot <= s
    BY <1>4, <1>5, <1>7, <1>9, <1>15, <2>2
  <2>4. /\ OldestOf(files_'[c.level], c.in0)
        /\ Apart(files_'[c.level + 1] \ c.in1, c.in0, c.in1)
        /\ FlushesInCompaction => Solid(c.in0 \cup c.in1)
    BY <1>4, <1>5, <1>7, <1>8, <1>15
  <2>. QED BY <1>10, <2>1, <2>3, <2>4 DEF CompactionInv, Deeper, OldestOf, Apart, EntriesOf, Solid, Covers, GetRange
<1>12. Types'
  BY <1>1, <1>4 DEF Types, Ordered
<1>13. Order'
  BY <1>1, <1>4 DEF Order, MemIsNewest, Level0InOrder, LevelsDisjoint, NewerAbove, KeysTogether, EntriesOf
<1>14. NothingMissing'
  BY <1>1, <1>4 DEF NothingMissing, Stored, EntriesOf
<1>. QED BY <1>11, <1>12, <1>13, <1>14 DEF LevelInv

\* An automatic compaction starts, from one file or from a closed set of level 0.
LEMMA PickCompactionKeeps == LevelInv /\ PickCompaction => LevelInv'
<1>1. SUFFICES ASSUME LevelInv, NEW level \in 0..(kNumLevels - 2), NEW picked \in PickedFiles(level), Start(level, picked)
               PROVE  LevelInv'
  BY DEF PickCompaction
<1>2. level \in LevelNumbers
  BY LevelsAre
<1>3. PICK fs : fs = files_[level]
  OBVIOUS
<1>4. Tables(fs) /\ (level # 0 => Disjoint(fs))
  <2>1. Types /\ Order
    BY <1>1 DEF LevelInv
  <2>2. Tables(files_[level])
    BY <1>2, <2>1, LevelTables
  <2>3. level # 0 => Disjoint(files_[level])
    BY <1>2, <2>1, LevelsAre DEF Order, LevelsDisjoint, Disjoint
  <2>. QED BY <1>3, <2>2, <2>3
<1>5. PICK p : p = picked
  OBVIOUS
<1>6. Chosen(fs, p) /\ Solid(p)
  BY <1>3, <1>4, <1>5, PickedAre
<1>7. Chosen(files_[level], p) /\ Start(level, p)
  BY <1>1, <1>3, <1>5, <1>6
<1>. QED BY <1>1, <1>6, <1>7, StartKeeps

\* A gap that a flush could fill: not with compactions that clients ask for.
LEMMA CompactRangeKeeps ==
  ASSUME ~(ManualCompactions /\ FlushesInCompaction)
  PROVE  LevelInv /\ CompactRange => LevelInv'
<1>1. SUFFICES ASSUME LevelInv, ManualCompactions,
                      NEW level \in 0..(kNumLevels - 2), NEW picked \in ManualFiles(level), Start(level, picked)
               PROVE  LevelInv'
  BY DEF CompactRange
<1>2. level \in LevelNumbers
  BY LevelsAre
<1>3. PICK fs : fs = files_[level]
  OBVIOUS
<1>4. Tables(fs) /\ (level # 0 => Disjoint(fs))
  <2>1. Types /\ Order
    BY <1>1 DEF LevelInv
  <2>2. Tables(files_[level])
    BY <1>2, <2>1, LevelTables
  <2>3. level # 0 => Disjoint(files_[level])
    BY <1>2, <2>1, LevelsAre DEF Order, LevelsDisjoint, Disjoint
  <2>. QED BY <1>3, <2>2, <2>3
<1>5. Chosen(fs, picked)
  BY <1>3, <1>4, ManualAre
<1>6. Chosen(files_[level], picked) /\ (FlushesInCompaction => Solid(picked))
  BY <1>1, <1>3, <1>5
<1>. QED BY <1>1, <1>6, StartKeeps

\* A file moves to the next level, where nothing overlaps it.
LEMMA TrivialMoveKeeps == LevelInv /\ TrivialMove => LevelInv'
<1>1. SUFFICES ASSUME Types, Order, NothingMissing, CompactionInv, TrivialMove PROVE LevelInv'
  BY DEF LevelInv
<1>2. PICK level \in 0..(kNumLevels - 2) : \E picked \in PickedFiles(level) :
        LET in0 == AddBoundaryInputs(files_[level], picked) IN
        /\ Cardinality(in0) = 1 /\ GetOverlappingInputs(level + 1, GetRange(in0)) = {}
        /\ files_' = [files_ EXCEPT ![level] = @ \ in0, ![level + 1] = @ \cup {File(0, EntriesOf(in0))}]
  BY <1>1 DEF TrivialMove
<1>3. PICK picked \in PickedFiles(level) :
        LET in0 == AddBoundaryInputs(files_[level], picked) IN
        /\ Cardinality(in0) = 1 /\ GetOverlappingInputs(level + 1, GetRange(in0)) = {}
        /\ files_' = [files_ EXCEPT ![level] = @ \ in0, ![level + 1] = @ \cup {File(0, EntriesOf(in0))}]
  BY <1>2
<1>4. PICK in0 : in0 = AddBoundaryInputs(files_[level], picked)
  OBVIOUS
<1>5. /\ GetOverlappingInputs(level + 1, GetRange(in0)) = {}
      /\ files_' = [files_ EXCEPT ![level] = @ \ in0, ![level + 1] = @ \cup {File(0, EntriesOf(in0))}]
      /\ compact = Nothing /\ compact' = Nothing
  BY <1>1, <1>3, <1>4 DEF TrivialMove
<1>6. UNCHANGED <<mem_, flushed, last_sequence_, snapshots_, history>>
  BY <1>1 DEF TrivialMove
<1>7. level \in LevelNumbers /\ level + 1 \in LevelNumbers /\ level \in Nat /\ level + 1 # 0 /\ level + 1 \in 1..(kNumLevels - 1)
  BY LevelsAre
<1>8. PICK fs, gs : fs = files_[level] /\ gs = files_[level + 1]
  OBVIOUS
<1>9. Tables(fs) /\ Tables(fs \cup gs) /\ (level # 0 => Disjoint(fs)) /\ Disjoint(gs)
  <2>1. Tables(files_[level] \cup files_[level + 1]) /\ Tables(files_[level])
    BY <1>1, <1>7, LevelTables
  <2>2. \A l \in 1..(kNumLevels - 1) : Disjoint(files_[l])
    BY <1>1 DEF Order, LevelsDisjoint, Disjoint
  <2>. QED BY <1>7, <1>8, <2>1, <2>2, LevelsAre
<1>10. in0 # {} /\ in0 \subseteq fs /\ OldestOf(fs, in0)
  <2>1. PICK p : p = picked
    OBVIOUS
  <2>2. Chosen(fs, p)
    BY <1>8, <1>9, <2>1, PickedAre
  <2>3. p \subseteq AddBoundaryInputs(fs, p) /\ AddBoundaryInputs(fs, p) \subseteq fs /\ OldestOf(fs, AddBoundaryInputs(fs, p))
    BY <1>9, <2>2, GrowthEnds
  <2>. QED BY <1>4, <1>8, <2>1, <2>2, <2>3 DEF Chosen
<1>11. Hit(gs, GetRange(in0)) = {}
  BY <1>5, <1>7, <1>8 DEF GetOverlappingInputs
<1>12. Apart(files_[level + 1] \ {}, in0, {})
  <2>1. Apart(gs \ {}, in0, {})
    BY <1>9, <1>10, <1>11, ApartIs
  <2>. QED BY <1>8, <2>1
<1>13. PICK S : S = EntriesOf(in0)
  OBVIOUS
<1>14. Ordered(S) /\ S # {}
  <2>1. Tables(in0)
    BY <1>9, <1>10, TablesAre
  <2>2. PICK f \in in0 : TRUE
    BY <1>10
  <2>3. f.smallest \in EntriesOf(in0)
    BY <2>1, <2>2, TablesAre
  <2>. QED BY <1>13, <2>1, <2>3 DEF Tables
<1>15. PICK F : F = File(0, S)
  OBVIOUS
<1>16. Table(F) /\ F.entries = S
  BY <1>14, <1>15, FileIsTable
<1>17. PICK out : out = {F}
  OBVIOUS
<1>18. /\ IsFiniteSet(out) /\ Disjoint(out) /\ EntriesOf(out) = S
       /\ \A f \in out : Table(f) /\ f.entries \subseteq EntriesOf(out)
       /\ \A f, g \in out : \A d \in f.entries, e \in g.entries : d.key = e.key => f = g
  <2>1. IsFiniteSet(out) /\ EntriesOf(out) = S
    BY <1>16, <1>17, FS_Singleton, EntriesOfUnion
  <2>. QED BY <1>16, <1>17, <2>1 DEF Disjoint
<1>19. EntriesOf(out) \subseteq EntriesOf(in0 \cup {})
  BY <1>13, <1>18, EntriesOfUnion
<1>20. files_' = [files_ EXCEPT ![level] = @ \ in0, ![level + 1] = (@ \ {}) \cup out]
  <2>1. \A A : A \ {} = A
    OBVIOUS
  <2>. QED BY <1>5, <1>13, <1>15, <1>17, <2>1
<1>21. in0 \subseteq files_[level] /\ {} \subseteq files_[level + 1] /\ OldestOf(files_[level], in0)
  BY <1>8, <1>10
<1>22. Types' /\ Order'
  BY <1>1, <1>6, <1>12, <1>18, <1>19, <1>20, <1>21, MergeKeeps
<1>23. NothingMissing'
  <2>1. /\ files_'[level] = files_[level] \ in0 /\ files_'[level + 1] = files_[level + 1] \cup out
        /\ \A l \in LevelNumbers : l # level /\ l # level + 1 => files_'[l] = files_[l]
    BY <1>1, <1>7, <1>20 DEF Types
  <2>2. /\ EntriesOf(files_[level]) = EntriesOf(files_[level] \ in0) \cup EntriesOf(in0)
        /\ EntriesOf(files_'[level + 1]) = EntriesOf(files_[level + 1]) \cup EntriesOf(in0)
    <3>1. files_[level] = (files_[level] \ in0) \cup in0
      BY <1>21
    <3>. QED BY <1>13, <1>18, <2>1, <3>1, EntriesOfUnion
  <2>3. ASSUME NEW e
        PROVE  (\E l \in LevelNumbers : e \in EntriesOf(files_'[l])) <=> \E l \in LevelNumbers : e \in EntriesOf(files_[l])
    <3>1. ASSUME NEW l \in LevelNumbers, e \in EntriesOf(files_'[l]) PROVE \E m \in LevelNumbers : e \in EntriesOf(files_[m])
      <4>1. CASE l = level
        BY <1>7, <2>1, <2>2, <3>1, <4>1
      <4>2. CASE l = level + 1
        BY <1>7, <2>2, <3>1, <4>2
      <4>3. CASE l # level /\ l # level + 1
        BY <2>1, <3>1, <4>3
      <4>. QED BY <4>1, <4>2, <4>3
    <3>2. ASSUME NEW l \in LevelNumbers, e \in EntriesOf(files_[l]) PROVE \E m \in LevelNumbers : e \in EntriesOf(files_'[m])
      <4>1. CASE l = level
        BY <1>7, <2>1, <2>2, <3>2, <4>1
      <4>2. CASE l = level + 1
        BY <1>7, <2>2, <3>2, <4>2
      <4>3. CASE l # level /\ l # level + 1
        BY <2>1, <3>2, <4>3
      <4>. QED BY <4>1, <4>2, <4>3
    <3>. QED BY <3>1, <3>2
  <2>4. Stored' = Stored
    <3>1. ASSUME NEW e PROVE e \in Stored' <=> e \in Stored
      <4>1. e \in Stored' <=> e \in mem_' \/ \E l \in LevelNumbers : e \in EntriesOf(files_'[l])
        BY DEF Stored, EntriesOf
      <4>2. e \in Stored <=> e \in mem_ \/ \E l \in LevelNumbers : e \in EntriesOf(files_[l])
        BY DEF Stored
      <4>. QED BY <1>6, <2>3, <4>1, <4>2
    <3>. QED BY <3>1 DEF Stored
  <2>. QED BY <1>1, <1>6, <2>4 DEF NothingMissing
<1>24. CompactionInv'
  BY <1>5 DEF CompactionInv
<1>. QED BY <1>22, <1>23, <1>24 DEF LevelInv

\* What lacks only entries that a compaction drops, and no marker that hides an older entry.
Cleaned(c, in, S, T) ==
  /\ T \subseteq S /\ in \subseteq S /\ \A e \in S \ T : e \in in /\ Dropped(c, in, e)
  /\ \A v \in S \ T : v.type = "deletion" /\ v.seq <= c.smallest_snapshot /\ IsBaseLevelForKey(c, v.key)
                         => \A e \in T : e.key = v.key => e.seq > v.seq

\* What DoCompactionWork drops: entries that no read can need.
LEMMA DroppedUnread ==
  ASSUME NEW S, Ordered(S), NEW T, NEW in, NEW c, Cleaned(c, in, S, T),
         NEW k, NEW s \in Nat, c.smallest_snapshot \in Nat, c.smallest_snapshot <= s
  PROVE  Values(Visible(T, k, s)) = Values(Visible(S, k, s))
<1>8. T \subseteq S /\ in \subseteq S /\ \A e \in S \ T : e \in in /\ Dropped(c, in, e)
  BY DEF Cleaned
<1>1. Ordered(T) /\ \A e \in S : e.seq \in Nat
  BY <1>8, EntryIs DEF Ordered
<1>2. /\ \A e : e \in Visible(S, k, s) <=> e \in Seen(S, k, s) /\ \A d \in Seen(S, k, s) : d.seq <= e.seq
      /\ Seen(S, k, s) # {} => Visible(S, k, s) # {}
      /\ \A d, e \in Visible(S, k, s) : d = e
  BY VisibleIs
<1>3. \A e : e \in Visible(T, k, s) <=> e \in Seen(T, k, s) /\ \A d \in Seen(T, k, s) : d.seq <= e.seq
  BY <1>1, VisibleIs
<1>4. \A e : /\ e \in Seen(S, k, s) <=> e \in S /\ e.key = k /\ e.seq <= s
             /\ e \in Seen(T, k, s) <=> e \in T /\ e.key = k /\ e.seq <= s
  BY DEF Seen
\* Of what S shows, only a marker can be missing in T.
<1>5. ASSUME NEW v \in Visible(S, k, s), v \notin T
      PROVE  v.type = "deletion" /\ \A e \in T : e.key = k => e.seq > v.seq
  <2>1. v \in S /\ v.key = k /\ Dropped(c, in, v) /\ \A d \in Seen(S, k, s) : d.seq <= v.seq
    BY <1>2, <1>4, <1>5, <1>8
  <2>2. ASSUME NEW d \in in, d.key = v.key, d.seq > v.seq, d.seq <= c.smallest_snapshot PROVE FALSE
    <3>1. d \in S /\ d.seq \in Nat /\ v.seq \in Nat
      BY <1>1, <1>8, <2>1
    <3>2. d.seq <= s
      BY <2>2, <3>1
    <3>3. d \in Seen(S, k, s)
      BY <1>4, <2>1, <2>2, <3>1, <3>2
    <3>. QED BY <2>1, <2>2, <3>1, <3>3
  <2>3. v.type = "deletion" /\ v.seq <= c.smallest_snapshot /\ IsBaseLevelForKey(c, v.key)
    BY <2>1, <2>2 DEF Dropped
  <2>. QED BY <1>5, <2>1, <2>3 DEF Cleaned
<1>6. ASSUME NEW e \in Visible(T, k, s), e.type = "value" PROVE e \in Visible(S, k, s)
  <2>1. e \in T /\ e \in S /\ e.key = k /\ e.seq <= s /\ \A d \in Seen(T, k, s) : d.seq <= e.seq
    BY <1>3, <1>4, <1>8
  <2>2. PICK v : v \in Visible(S, k, s)
    BY <1>2, <1>4, <2>1
  <2>3. v \in S /\ v.key = k /\ v.seq <= s /\ e.seq <= v.seq /\ v.seq \in Nat /\ e.seq \in Nat
    BY <1>1, <1>2, <1>4, <2>1, <2>2
  <2>4. v \in T
    BY <1>5, <2>1, <2>2, <2>3
  <2>5. v.seq = e.seq
    BY <1>4, <2>1, <2>3, <2>4
  <2>. QED BY <2>1, <2>2, <2>3, <2>5 DEF Ordered
<1>7. ASSUME NEW e \in Visible(S, k, s), e.type = "value" PROVE e \in Visible(T, k, s)
  <2>1. e \in T
    BY <1>5, <1>7
  <2>. QED BY <1>2, <1>3, <1>4, <1>8, <2>1
<1>. QED BY <1>6, <1>7 DEF Values

\* The tables that a compaction writes, if it writes any
LEMMA WrittenAre ==
  ASSUME NEW kept, Ordered(kept), NEW cuts \in Cuts(kept), NEW out, out = IF kept = {} THEN {} ELSE OutputFiles(kept, cuts)
  PROVE  /\ IsFiniteSet(out) /\ Disjoint(out) /\ EntriesOf(out) = kept
         /\ \A f \in out : Table(f) /\ f.entries \subseteq kept
         /\ SplitsKeys \/ \A f, g \in out : \A d \in f.entries, e \in g.entries : d.key = e.key => f = g
<1>1. CASE kept = {}
  BY <1>1, FS_EmptySet, EntriesOfUnion DEF Disjoint
<1>2. CASE kept # {}
  <2>1. out = OutputFiles(kept, cuts)
    BY <1>2
  <2>. QED BY <1>2, <2>1, OutputsAre
<1>. QED BY <1>1, <1>2

\* The entries that a compaction leaves: in the memtable, among those that it keeps, or in a
\* table that is none of its inputs.
Left(c, in, e) ==
  \/ e \in mem_
  \/ e \in in /\ ~Dropped(c, in, e)
  \/ \E l \in LevelNumbers : \E f \in files_[l] :
       e \in f.entries /\ (l = c.level => f \notin c.in0) /\ (l = c.level + 1 => f \notin c.in1)

\* A deletion marker that a compaction drops has nothing older below or beside it.  An output
\* file that ended between two entries of a key would leave some in a table beside the inputs.
LEMMA MarkerHidesNothing ==
  ASSUME ~(SplitsKeys /\ Deletes), Types, Order, CompactionInv, NEW c, c = compact, c # Nothing,
         NEW in, in = EntriesOf(c.in0 \cup c.in1), NEW v \in in, v.type = "deletion", v.seq <= c.smallest_snapshot,
         IsBaseLevelForKey(c, v.key), NEW e \in Stored, e.key = v.key, Left(c, in, e)
  PROVE  e = v \/ e.seq > v.seq
<1>1. /\ c.level \in 0..(kNumLevels - 2) /\ c.in0 \subseteq files_[c.level] /\ c.in1 \subseteq files_[c.level + 1]
      /\ OldestOf(files_[c.level], c.in0) /\ Apart(files_[c.level + 1] \ c.in1, c.in0, c.in1) /\ Deeper(c)
  BY DEF CompactionInv
<1>. DEFINE L == c.level
<1>2. L \in LevelNumbers /\ L + 1 \in LevelNumbers /\ L \in Nat /\ L + 1 \in 1..(kNumLevels - 1) /\ kNumLevels \in Nat
  BY <1>1, LevelsAre
<1>3. v \in EntriesOf(c.in0) \/ v \in EntriesOf(c.in1)
  BY EntriesOfUnion
<1>4. EntriesOf(c.in0) \subseteq EntriesOf(files_[L]) /\ EntriesOf(c.in1) \subseteq EntriesOf(files_[L + 1])
  BY <1>1, EntriesOfUnion
<1>5. v \in history /\ e \in history /\ v.seq \in Nat /\ e.seq \in Nat
  <2>1. EntriesOf(files_[L]) \subseteq history /\ EntriesOf(files_[L + 1]) \subseteq history
    BY <1>2, LevelTables
  <2>. QED BY <1>3, <1>4, <2>1, StoredIs
<1>6. ~SplitsKeys
  BY <1>5 DEF Types
<1>. HIDE DEF L
<1>7. \A i, j \in LevelNumbers : i < j => \A x \in EntriesOf(files_[i]), y \in EntriesOf(files_[j]) : x.key = y.key => x.seq > y.seq
  <2>1. \A i, j \in LevelNumbers : i < j => j \in (i + 1)..(kNumLevels - 1)
    BY LevelsAre DEF LevelNumbers
  <2>. QED BY <2>1 DEF Order, NewerAbove
<1>8. CASE e \in mem_
  BY <1>2, <1>3, <1>4, <1>8 DEF Order, MemIsNewest
<1>9. CASE e \in in /\ ~Dropped(c, in, e)
  <2>1. ~(v.seq > e.seq)
    BY <1>9 DEF Dropped
  <2>2. e.seq = v.seq => e = v
    BY <1>5 DEF Types, Ordered
  <2>. QED BY <1>5, <2>1, <2>2
<1>10. ASSUME NEW l \in LevelNumbers, NEW f \in files_[l], e \in f.entries,
              l = c.level => f \notin c.in0, l = c.level + 1 => f \notin c.in1
       PROVE  e = v \/ e.seq > v.seq
  <2>1. e \in EntriesOf(files_[l]) /\ l \in Nat /\ Table(f)
    BY <1>10, LevelsAre DEF EntriesOf, Types
  <2>2. CASE l < L
    BY <1>2, <1>3, <1>4, <1>7, <2>1, <2>2
  <2>3. CASE l = L
    <3>1. v \in EntriesOf(c.in0) => e.seq > v.seq
      BY <1>1, <1>10, <2>3 DEF OldestOf, L
    <3>2. v \in EntriesOf(c.in1) => e.seq > v.seq
      BY <1>2, <1>4, <1>7, <2>1, <2>3
    <3>. QED BY <1>3, <3>1, <3>2
  <2>4. CASE l = L + 1
    <3>1. v \notin EntriesOf(c.in0)
      BY <1>1, <1>10, <2>4 DEF Apart, L
    <3>2. PICK g \in c.in1 : v \in g.entries
      BY <1>3, <3>1 DEF EntriesOf
    <3>3. g = f
      BY <1>1, <1>2, <1>6, <1>10, <2>4, <3>2 DEF Order, KeysTogether, L
    <3>. QED BY <1>10, <2>4, <3>2, <3>3 DEF L
  <2>5. CASE L + 1 < l
    <3>1. l \in (L + 2)..(kNumLevels - 1)
      BY <1>2, <2>1, <2>5 DEF LevelNumbers
    <3>2. f \in c.base[l]
      BY <1>1, <1>10, <3>1 DEF Deeper, L
    <3>3. v.key \notin f.smallest.key..f.largest.key
      BY <3>1, <3>2 DEF IsBaseLevelForKey, L
    <3>4. f.smallest.key <= e.key /\ e.key <= f.largest.key /\ {f.smallest.key, f.largest.key} \subseteq Nat /\ e.key \in Nat
      BY <1>10, <2>1, TableIs, EntryIs
    <3>. QED BY <3>3, <3>4
  <2>. QED BY <1>2, <2>1, <2>2, <2>3, <2>4, <2>5
<1>. QED BY <1>8, <1>9, <1>10 DEF Left

\* DoCompactionWork and InstallCompactionResults: the outputs take the place of the inputs.
LEMMA FinishCompactionKeeps ==
  ASSUME ~(SplitsKeys /\ Deletes)
  PROVE  LevelInv /\ FinishCompaction => LevelInv'
<1>1. SUFFICES ASSUME Types, Order, NothingMissing, CompactionInv, FinishCompaction PROVE LevelInv'
  BY DEF LevelInv
<1>. DEFINE In == EntriesOf(compact.in0 \cup compact.in1)
            Kept == {e \in In : ~Dropped(compact, In, e)}
<1>20. \E cuts \in Cuts(Kept) :
         files_' = [files_ EXCEPT ![compact.level] = @ \ compact.in0,
                                  ![compact.level + 1] = (@ \ compact.in1) \cup
                                                              (IF Kept = {} THEN {} ELSE OutputFiles(Kept, cuts))]
  BY <1>1 DEF FinishCompaction
<1>21. \A e : e \in Kept <=> e \in In /\ ~Dropped(compact, In, e)
  OBVIOUS
<1>. HIDE DEF Kept
<1>22. PICK c, in, kept : c = compact /\ in = In /\ kept = Kept
  OBVIOUS
<1>2. c = compact
  BY <1>22
<1>3. in = EntriesOf(c.in0 \cup c.in1)
  BY <1>22
<1>4. \A e : e \in kept <=> e \in in /\ ~Dropped(c, in, e)
  BY <1>21, <1>22
<1>5. PICK cuts \in Cuts(kept) :
        files_' = [files_ EXCEPT ![c.level] = @ \ c.in0,
                                 ![c.level + 1] = (@ \ c.in1) \cup (IF kept = {} THEN {} ELSE OutputFiles(kept, cuts))]
  BY <1>20, <1>22
<1>6. c # Nothing /\ compact' = Nothing /\ UNCHANGED <<mem_, flushed, last_sequence_, snapshots_, history>>
  BY <1>1, <1>2 DEF FinishCompaction
<1>7. PICK out : out = IF kept = {} THEN {} ELSE OutputFiles(kept, cuts)
  OBVIOUS
<1>8. PICK level, in0, in1 : level = c.level /\ in0 = c.in0 /\ in1 = c.in1
  OBVIOUS
<1>9. /\ level \in 0..(kNumLevels - 2) /\ in0 \subseteq files_[level] /\ in1 \subseteq files_[level + 1]
      /\ c.smallest_snapshot \in Nat /\ \A s \in snapshots_ \cup {last_sequence_} : c.smallest_snapshot <= s
      /\ OldestOf(files_[level], in0) /\ Apart(files_[level + 1] \ in1, in0, in1)
  BY <1>1, <1>2, <1>6, <1>8 DEF CompactionInv
<1>10. level \in LevelNumbers /\ level + 1 \in LevelNumbers /\ level \in Nat
  BY <1>9, LevelsAre
<1>11. in = EntriesOf(in0) \cup EntriesOf(in1) /\ in = EntriesOf(in0 \cup in1)
  BY <1>3, <1>8, EntriesOfUnion
<1>12. in \subseteq Stored /\ in \subseteq history
  <2>1. /\ EntriesOf(files_[level]) \subseteq history /\ EntriesOf(files_[level + 1]) \subseteq history
        /\ EntriesOf(files_[level]) \subseteq Stored /\ EntriesOf(files_[level + 1]) \subseteq Stored
    BY <1>1, <1>10, LevelTables
  <2>2. EntriesOf(in0) \subseteq EntriesOf(files_[level]) /\ EntriesOf(in1) \subseteq EntriesOf(files_[level + 1])
    BY <1>9, EntriesOfUnion
  <2>. QED BY <1>11, <2>1, <2>2
<1>13. Ordered(kept) /\ kept \subseteq in
  <2>1. kept \subseteq in
    BY <1>4
  <2>. QED BY <1>1, <1>12, <2>1 DEF Types, Ordered
<1>14. /\ IsFiniteSet(out) /\ Disjoint(out) /\ EntriesOf(out) = kept
       /\ \A f \in out : Table(f) /\ f.entries \subseteq kept
       /\ SplitsKeys \/ \A f, g \in out : \A d \in f.entries, e \in g.entries : d.key = e.key => f = g
  BY <1>7, <1>13, WrittenAre
<1>15. EntriesOf(out) \subseteq EntriesOf(in0 \cup in1) /\ \A f \in out : Table(f) /\ f.entries \subseteq EntriesOf(out)
  BY <1>11, <1>13, <1>14
<1>16. files_' = [files_ EXCEPT ![level] = @ \ in0, ![level + 1] = (@ \ in1) \cup out]
  BY <1>5, <1>7, <1>8
<1>17. Types' /\ Order'
  BY <1>1, <1>6, <1>9, <1>14, <1>15, <1>16, MergeKeeps
<1>18. NothingMissing'
  <2>1. /\ files_'[level] = files_[level] \ in0 /\ files_'[level + 1] = (files_[level + 1] \ in1) \cup out
        /\ \A l \in LevelNumbers : l # level /\ l # level + 1 => files_'[l] = files_[l]
    BY <1>1, <1>10, <1>16 DEF Types
  <2>2. \A e : e \in Stored' <=> e \in mem_ \/ \E l \in LevelNumbers : \E f \in files_'[l] : e \in f.entries
    BY <1>6 DEF Stored, EntriesOf
  <2>3. \A e : e \in Stored <=> e \in mem_ \/ \E l \in LevelNumbers : \E f \in files_[l] : e \in f.entries
    BY DEF Stored, EntriesOf
  <2>4. \A e : e \in kept <=> \E f \in out : e \in f.entries
    BY <1>14 DEF EntriesOf
  <2>5. ASSUME NEW e \in Stored' PROVE e \in Stored /\ Left(c, in, e)
    <3>1. CASE e \in mem_
      BY <2>3, <3>1 DEF Left
    <3>2. ASSUME NEW l \in LevelNumbers, NEW f \in files_'[l], e \in f.entries PROVE e \in Stored /\ Left(c, in, e)
      <4>1. CASE e \in kept
        BY <1>4, <1>12, <4>1 DEF Left
      <4>2. CASE e \notin kept
        <5>1. f \in files_[l] /\ (l = level => f \notin in0) /\ (l = level + 1 => f \notin in1)
          BY <1>10, <2>1, <2>4, <3>2, <4>2
        <5>. QED BY <1>8, <2>3, <3>2, <5>1 DEF Left
      <4>. QED BY <4>1, <4>2
    <3>. QED BY <2>2, <3>1, <3>2
  <2>6. ASSUME NEW e \in Stored, e \notin Stored' PROVE e \in in /\ Dropped(c, in, e)
    <3>0. PICK l \in LevelNumbers : \E f \in files_[l] : e \in f.entries
      BY <2>2, <2>3, <2>6
    <3>1. PICK f \in files_[l] : e \in f.entries
      BY <3>0
    <3>2. f \notin files_'[l]
      BY <2>2, <2>6, <3>1
    <3>3. f \in in0 \cup in1
      BY <2>1, <3>1, <3>2
    <3>4. e \in in
      BY <1>11, <3>1, <3>3 DEF EntriesOf
    <3>5. e \notin kept
      BY <1>10, <2>1, <2>2, <2>4, <2>6
    <3>. QED BY <1>4, <3>4, <3>5
  <2>7. ASSUME NEW v \in Stored, v \notin Stored', v.type = "deletion", v.seq <= c.smallest_snapshot, IsBaseLevelForKey(c, v.key),
               NEW e \in Stored', e.key = v.key
        PROVE  e.seq > v.seq
    <3>1. v \in in /\ e \in Stored /\ Left(c, in, e) /\ e # v
      BY <2>5, <2>6, <2>7
    <3>. QED BY <1>1, <1>2, <1>3, <1>6, <2>7, <3>1, MarkerHidesNothing
  <2>8. PICK S, T : S = Stored /\ T = Stored'
    OBVIOUS
  <2>9. Ordered(S) /\ Cleaned(c, in, S, T)
    BY <1>1, <1>12, <2>5, <2>6, <2>7, <2>8, StoredIs DEF Cleaned
  <2>10. ASSUME NEW k \in Keys, NEW s \in snapshots_ \cup {last_sequence_}
         PROVE  Values(Visible(T, k, s)) = Values(Visible(S, k, s))
    <3>1. s \in Nat /\ c.smallest_snapshot \in Nat /\ c.smallest_snapshot <= s
      <4>1. last_sequence_ \in Nat /\ snapshots_ \subseteq 0..last_sequence_
        BY <1>1, StoredIs DEF Types
      <4>2. s \in Nat
        BY <4>1
      <4>3. c.smallest_snapshot \in Nat /\ c.smallest_snapshot <= s
        BY <1>9
      <4>. QED BY <4>2, <4>3
    <3>. QED BY <2>9, <3>1, DroppedUnread
  <2>11. \A k \in Keys, s \in snapshots_ \cup {last_sequence_} : Values(Visible(Stored', k, s)) = Values(Visible(history, k, s))
    BY <1>1, <2>8, <2>10 DEF NothingMissing
  <2>. QED BY <1>6, <2>11 DEF NothingMissing, Values, Visible
<1>19. CompactionInv'
  BY <1>6 DEF CompactionInv
<1>. QED BY <1>17, <1>18, <1>19 DEF LevelInv

-------------------------------------------------------------------------------
(* What Get finds *)

\* The newest entry of a part is the newest of all, if nothing outside the part is newer.
LEMMA PartShows ==
  ASSUME NEW S, Ordered(S), NEW T, T \subseteq S, NEW k, NEW s, NEW x \in Visible(T, k, s),
         \A y \in Seen(S, k, s) : y.seq <= x.seq
  PROVE  Visible(T, k, s) = Visible(S, k, s)
<1>1. Ordered(T)
  BY DEF Ordered
<1>2. /\ \A e : e \in Visible(S, k, s) <=> e \in Seen(S, k, s) /\ \A d \in Seen(S, k, s) : d.seq <= e.seq
      /\ \A d, e \in Visible(S, k, s) : d = e
  BY VisibleIs
<1>3. /\ \A e : e \in Visible(T, k, s) <=> e \in Seen(T, k, s) /\ \A d \in Seen(T, k, s) : d.seq <= e.seq
      /\ \A d, e \in Visible(T, k, s) : d = e
  BY <1>1, VisibleIs
<1>4. Seen(T, k, s) \subseteq Seen(S, k, s)
  BY DEF Seen
<1>5. x \in Visible(S, k, s)
  BY <1>2, <1>3, <1>4
<1>. QED BY <1>2, <1>3, <1>5

\* In level 0 the newest table that has the key shows its newest entry.
LEMMA FoundInLevel0 ==
  ASSUME Types, Order, NEW k, NEW s
  PROVE  FoundIn(0, k, s) = Visible(EntriesOf(files_[0]), k, s)
<1>. DEFINE found == {f \in files_[0] : Visible(f.entries, k, s) # {}}
            top == {g \in found : \A h \in found : h.num <= g.num}
<1>1. FoundIn(0, k, s) = UNION {Visible(f.entries, k, s) : f \in top}
  BY DEF FoundIn
<1>2. PICK all : all = EntriesOf(files_[0])
  OBVIOUS
<1>3. Ordered(all) /\ \A f \in files_[0] : Table(f) /\ Ordered(f.entries) /\ f.num \in Nat /\ f.entries \subseteq all
  <2>1. Tables(files_[0])
    BY LevelsAre, LevelTables
  <2>. QED BY <1>2, <2>1 DEF Tables, Table, EntriesOf
<1>4. /\ \A e : e \in Visible(all, k, s) <=> e \in Seen(all, k, s) /\ \A d \in Seen(all, k, s) : d.seq <= e.seq
      /\ \A d, e \in Visible(all, k, s) : d = e
  BY <1>3, VisibleIs
<1>5. ASSUME NEW f \in files_[0]
      PROVE  /\ \A e : e \in Visible(f.entries, k, s) <=> e \in Seen(f.entries, k, s) /\ \A d \in Seen(f.entries, k, s) : d.seq <= e.seq
             /\ Seen(f.entries, k, s) # {} => Visible(f.entries, k, s) # {}
             /\ Seen(f.entries, k, s) \subseteq Seen(all, k, s)
  <2>1. PICK S : S = f.entries
    OBVIOUS
  <2>2. /\ \A e : e \in Visible(S, k, s) <=> e \in Seen(S, k, s) /\ \A d \in Seen(S, k, s) : d.seq <= e.seq
        /\ Seen(S, k, s) # {} => Visible(S, k, s) # {}
    BY <1>3, <2>1, VisibleIs
  <2>3. Seen(S, k, s) \subseteq Seen(all, k, s)
    BY <1>3, <2>1 DEF Seen
  <2>. QED BY <2>1, <2>2, <2>3
<1>6. \A y \in Seen(all, k, s) : \E h \in files_[0] : y \in Seen(h.entries, k, s)
  BY <1>2 DEF Seen, EntriesOf
<1>7. \A e \in all : e.seq \in Nat
  BY <1>3, EntryIs DEF Ordered
<1>8. \A f, g \in files_[0] : /\ f.num = g.num => f = g
                              /\ f.num < g.num => \A d \in f.entries, e \in g.entries : d.seq < e.seq
  BY DEF Order, Level0InOrder
<1>9. \A S : Seen(S, k, s) \subseteq S
  BY DEF Seen
<1>10. ASSUME NEW f \in top, NEW x \in Visible(f.entries, k, s) PROVE x \in Visible(all, k, s)
  <2>1. f \in files_[0] /\ x \in Seen(f.entries, k, s) /\ x \in Seen(all, k, s)
    BY <1>5
  <2>2. ASSUME NEW y \in Seen(all, k, s) PROVE y.seq <= x.seq
    <3>1. PICK h \in files_[0] : y \in Seen(h.entries, k, s)
      BY <1>6
    <3>2. h \in found
      BY <1>5, <3>1
    <3>3. h.num <= f.num /\ h.num \in Nat /\ f.num \in Nat
      BY <1>3, <2>1, <3>2
    <3>4. CASE h.num = f.num
      <4>1. h = f
        BY <1>8, <2>1, <3>4
      <4>. QED BY <1>5, <2>1, <3>1, <4>1
    <3>5. CASE h.num < f.num
      <4>1. y.seq < x.seq
        BY <1>8, <1>9, <2>1, <3>1, <3>5
      <4>2. y.seq \in Nat /\ x.seq \in Nat
        BY <1>7, <1>9, <2>1, <2>2
      <4>. QED BY <4>1, <4>2
    <3>. QED BY <3>3, <3>4, <3>5
  <2>. QED BY <1>4, <2>1, <2>2
<1>11. ASSUME NEW v \in Visible(all, k, s) PROVE \E g \in top : v \in Visible(g.entries, k, s)
  <2>1. v \in Seen(all, k, s) /\ \A d \in Seen(all, k, s) : d.seq <= v.seq
    BY <1>4
  <2>2. PICK g \in files_[0] : v \in Seen(g.entries, k, s)
    BY <1>6, <2>1
  <2>3. v \in Visible(g.entries, k, s)
    BY <1>5, <2>1, <2>2
  <2>4. ASSUME NEW h \in found PROVE h.num <= g.num
    <3>1. PICK y : y \in Visible(h.entries, k, s)
      OBVIOUS
    <3>2. y \in Seen(h.entries, k, s) /\ y \in Seen(all, k, s) /\ h \in files_[0]
      BY <1>5, <3>1
    <3>3. y.seq <= v.seq /\ y.seq \in Nat /\ v.seq \in Nat
      BY <1>7, <1>9, <2>1, <3>2
    <3>4. ~(g.num < h.num)
      <4>1. SUFFICES ASSUME g.num < h.num PROVE FALSE
        OBVIOUS
      <4>2. v.seq < y.seq
        BY <1>8, <1>9, <2>2, <3>2, <4>1
      <4>. QED BY <3>3, <4>2
    <3>5. g.num \in Nat /\ h.num \in Nat
      BY <1>3, <3>2
    <3>. QED BY <3>4, <3>5
  <2>. QED BY <2>2, <2>3, <2>4
<1>. HIDE DEF top
<1>. QED BY <1>1, <1>2, <1>10, <1>11

\* In a level below 0 the lookup goes to the table that holds the newest entry of the key.
LEMMA FoundBelow ==
  ASSUME Types, Order, NEW l \in 1..(kNumLevels - 1), NEW k \in Keys, NEW s \in Nat
  PROVE  FoundIn(l, k, s) = Visible(EntriesOf(files_[l]), k, s)
<1>. DEFINE target == [key |-> k, seq |-> s]
            later == {f \in files_[l] : ~Before(f.largest, target)}
            there == FindFile(l, k, s)
<1>1. FoundIn(l, k, s) = UNION {Visible(f.entries, k, s) : f \in FindFile(l, k, s)}
  BY LevelsAre DEF FoundIn
<1>2. PICK all : all = EntriesOf(files_[l])
  OBVIOUS
<1>3. Ordered(all) /\ \A f \in files_[l] : Table(f) /\ Ordered(f.entries) /\ f.entries \subseteq all
  <2>1. Tables(files_[l])
    BY LevelsAre, LevelTables
  <2>. QED BY <1>2, <2>1 DEF Tables, Table, EntriesOf
<1>4. \A e : e \in Visible(all, k, s) <=> e \in Seen(all, k, s) /\ \A d \in Seen(all, k, s) : d.seq <= e.seq
  BY <1>3, VisibleIs
<1>5. ASSUME NEW f \in files_[l]
      PROVE  /\ \A e : e \in Visible(f.entries, k, s) <=> e \in Seen(f.entries, k, s) /\ \A d \in Seen(f.entries, k, s) : d.seq <= e.seq
             /\ Seen(f.entries, k, s) \subseteq Seen(all, k, s)
  <2>1. PICK S : S = f.entries
    OBVIOUS
  <2>2. \A e : e \in Visible(S, k, s) <=> e \in Seen(S, k, s) /\ \A d \in Seen(S, k, s) : d.seq <= e.seq
    BY <1>3, <2>1, VisibleIs
  <2>3. Seen(S, k, s) \subseteq Seen(all, k, s)
    BY <1>3, <2>1 DEF Seen
  <2>. QED BY <2>1, <2>2, <2>3
<1>6. \A f, g \in files_[l] : f # g => Before(f.largest, g.smallest) \/ Before(g.largest, f.smallest)
  BY DEF Order, LevelsDisjoint
<1>7. /\ \A S, e : e \in Seen(S, k, s) <=> e \in S /\ e.key = k /\ e.seq <= s
      /\ \A e : Before(e, target) <=> e.key < k \/ (e.key = k /\ e.seq > s)
      /\ k \in Nat /\ s \in Nat
  BY KeysAre DEF Seen, Before
<1>. HIDE DEF target
<1>8. \A f \in files_[l] : f \in there <=> /\ f \in later /\ f.smallest.key <= k
                                            /\ \A g \in later : ~Before(g.largest, f.largest)
  BY DEF FindFile, target
<1>. HIDE DEF there
<1>9. there \subseteq files_[l] /\ later \subseteq files_[l]
  BY DEF FindFile, there
<1>10. ASSUME NEW v \in Visible(all, k, s), NEW g \in files_[l], v \in g.entries PROVE g \in there
  <2>1. v.key = k /\ v.seq <= s /\ \A d \in Seen(all, k, s) : d.seq <= v.seq
    BY <1>4, <1>7
  <2>2. /\ Table(g) /\ v \in Entry /\ g.largest \in Entry /\ g.largest \in all
        /\ v = g.largest \/ Before(v, g.largest)
        /\ g.smallest.key <= v.key
    BY <1>3, <1>10, TableIs
  <2>3. {v.key, v.seq, g.largest.key, g.largest.seq} \subseteq Nat
    BY <2>2, EntryIs
  <2>4. ~Before(g.largest, target)
    <3>1. v = g.largest \/ v.key < g.largest.key \/ (v.key = g.largest.key /\ v.seq > g.largest.seq)
      BY <2>2 DEF Before
    <3>. QED BY <1>7, <2>1, <2>3, <3>1
  <2>5. ASSUME NEW h \in later PROVE ~Before(h.largest, g.largest)
    <3>1. SUFFICES ASSUME Before(h.largest, g.largest) PROVE FALSE
      OBVIOUS
    <3>2. h \in files_[l] /\ Table(h) /\ h.largest \in all /\ h.largest \in Entry /\ h.largest \in h.entries
      BY <1>3, <1>9, TableIs
    <3>3. h # g
      BY <2>2, <3>1, BeforeIsOrder
    <3>4. ~Before(g.largest, h.smallest)
      <4>1. SUFFICES ASSUME Before(g.largest, h.smallest) PROVE FALSE
        OBVIOUS
      <4>2. Before(g.largest, h.largest)
        BY <2>2, <3>2, <4>1, SidesAre
      <4>. QED BY <2>2, <3>1, <3>2, <4>2, BeforeIsOrder
    <3>5. Before(h.largest, g.smallest)
      BY <1>6, <3>2, <3>3, <3>4
    <3>6. Before(h.largest, v)
      BY <1>10, <2>2, <3>2, <3>5, SidesAre
    <3>7. h.largest.key \in Nat /\ h.largest.seq \in Nat
      BY <3>2, EntryIs
    <3>8. h.largest.key <= k /\ (h.largest.key = k => h.largest.seq > v.seq)
      BY <2>1, <2>3, <3>6, <3>7 DEF Before
    <3>9. ~(h.largest.key < k \/ (h.largest.key = k /\ h.largest.seq > s))
      BY <1>7, <2>5
    <3>10. h.largest.key = k /\ h.largest.seq <= s
      BY <1>7, <3>7, <3>8, <3>9
    <3>11. h.largest \in Seen(all, k, s)
      BY <1>7, <3>2, <3>10
    <3>. QED BY <2>1, <2>3, <3>7, <3>8, <3>10, <3>11
  <2>. QED BY <1>8, <2>1, <2>2, <2>4, <2>5
<1>11. ASSUME NEW f \in there, NEW g \in there PROVE f = g
  <2>1. f \in files_[l] /\ g \in files_[l] /\ ~Before(f.largest, g.largest) /\ ~Before(g.largest, f.largest)
    BY <1>8, <1>9
  <2>2. Table(f) /\ Table(g)
    BY <1>3, <2>1
  <2>3. ~Before(f.largest, g.smallest) /\ ~Before(g.largest, f.smallest)
    BY <2>1, <2>2, SidesAre
  <2>. QED BY <1>6, <2>1, <2>3
<1>12. ASSUME NEW v \in Visible(all, k, s) PROVE \E g \in there : v \in Visible(g.entries, k, s)
  <2>1. v \in all /\ v \in Seen(all, k, s) /\ \A d \in Seen(all, k, s) : d.seq <= v.seq
    BY <1>4, <1>7
  <2>2. PICK g \in files_[l] : v \in g.entries
    BY <1>2, <2>1 DEF EntriesOf
  <2>3. v \in Visible(g.entries, k, s)
    BY <1>5, <1>7, <2>1, <2>2
  <2>. QED BY <1>10, <2>2, <2>3
<1>13. ASSUME NEW f \in there, NEW x \in Visible(f.entries, k, s) PROVE x \in Visible(all, k, s)
  <2>1. f \in files_[l] /\ x \in Seen(f.entries, k, s) /\ x \in Seen(all, k, s) /\ \A d \in Seen(f.entries, k, s) : d.seq <= x.seq
    BY <1>5, <1>9
  <2>2. PICK v : v \in Visible(all, k, s)
    <3>1. Seen(all, k, s) # {} => Visible(all, k, s) # {}
      BY <1>3, VisibleIs
    <3>. QED BY <2>1, <3>1
  <2>3. PICK g \in there : v \in Visible(g.entries, k, s)
    BY <1>12, <2>2
  <2>4. v \in Seen(f.entries, k, s)
    BY <1>5, <1>11, <2>1, <2>3
  <2>5. v.seq <= x.seq /\ x.seq <= v.seq /\ v.seq \in Nat /\ x.seq \in Nat /\ v \in all /\ x \in all
    <3>1. v.seq <= x.seq /\ x.seq <= v.seq /\ v \in all /\ x \in all
      BY <1>4, <1>7, <2>1, <2>2, <2>4
    <3>2. \A e \in all : e.seq \in Nat
      BY <1>3, EntryIs DEF Ordered
    <3>. QED BY <3>1, <3>2
  <2>6. v.seq = x.seq
    BY <2>5
  <2>7. v = x
    BY <1>3, <2>5, <2>6 DEF Ordered
  <2>. QED BY <2>2, <2>7
<1>. QED BY <1>1, <1>2, <1>12, <1>13 DEF there

\* Get stops at the first place that shows an entry of the key: nothing below is newer.
LEMMA GetIs ==
  ASSUME LevelInv, NEW k \in Keys, NEW s \in snapshots_ \cup {last_sequence_}
  PROVE  Get(k, s) = Values(Visible(history, k, s))
<1>1. /\ Types /\ Order /\ s \in Nat /\ Ordered(Stored)
      /\ Values(Visible(Stored, k, s)) = Values(Visible(history, k, s))
  <2>1. Types /\ Order /\ NothingMissing
    BY DEF LevelInv
  <2>2. s \in Nat
    BY <2>1, StoredIs DEF Types
  <2>. QED BY <2>1, <2>2, StoredIs DEF NothingMissing
<1>2. \A l \in LevelNumbers : FoundIn(l, k, s) = Visible(EntriesOf(files_[l]), k, s)
  <2>1. FoundIn(0, k, s) = Visible(EntriesOf(files_[0]), k, s)
    BY <1>1, FoundInLevel0
  <2>2. \A l \in 1..(kNumLevels - 1) : FoundIn(l, k, s) = Visible(EntriesOf(files_[l]), k, s)
    BY <1>1, FoundBelow
  <2>. QED BY <2>1, <2>2, LevelsAre
<1>3. PICK part : part = [l \in LevelNumbers |-> EntriesOf(files_[l])]
  OBVIOUS
<1>4. PICK all : all = Stored
  OBVIOUS
<1>5. /\ Ordered(all) /\ mem_ \subseteq all /\ Ordered(mem_)
      /\ \A l \in LevelNumbers : part[l] \subseteq all /\ Ordered(part[l])
      /\ \A y \in all : y.seq \in Nat /\ (y \in mem_ \/ \E l \in LevelNumbers : y \in part[l])
  <2>1. mem_ \subseteq all /\ \A l \in LevelNumbers : part[l] \subseteq all
    BY <1>3, <1>4 DEF Stored
  <2>2. Ordered(all) /\ \A y \in all : y.seq \in Nat
    BY <1>1, <1>4, EntryIs DEF Ordered
  <2>3. \A S : S \subseteq all => Ordered(S)
    BY <2>2 DEF Ordered
  <2>4. \A y \in all : y \in mem_ \/ \E l \in LevelNumbers : y \in part[l]
    BY <1>3, <1>4 DEF Stored
  <2>. QED BY <2>1, <2>2, <2>3, <2>4
<1>6. ASSUME NEW S, S = mem_ \/ \E l \in LevelNumbers : S = part[l]
      PROVE  /\ \A e : e \in Visible(S, k, s) <=> e \in Seen(S, k, s) /\ \A d \in Seen(S, k, s) : d.seq <= e.seq
             /\ Seen(S, k, s) # {} => Visible(S, k, s) # {}
  <2>1. Ordered(S)
    BY <1>5, <1>6
  <2>. QED BY <2>1, VisibleIs
<1>7. \A S, e : e \in Seen(S, k, s) <=> e \in S /\ e.key = k /\ e.seq <= s
  BY DEF Seen
<1>. DEFINE levels == {l \in LevelNumbers : FoundIn(l, k, s) # {}}
            found == IF Visible(mem_, k, s) # {} THEN Visible(mem_, k, s)
                     ELSE IF levels = {} THEN {} ELSE FoundIn(Min(levels), k, s)
<1>8. Get(k, s) = Values(found)
  BY DEF Get, Values
<1>9. \A l \in LevelNumbers : FoundIn(l, k, s) = Visible(part[l], k, s)
  BY <1>2, <1>3
<1>10. /\ \A d \in mem_, l \in LevelNumbers : \A e \in part[l] : d.seq > e.seq
       /\ \A l \in LevelNumbers : \A m \in (l + 1)..(kNumLevels - 1) :
            \A d \in part[l], e \in part[m] : d.key = e.key => d.seq > e.seq
  <2>1. \A m \in LevelNumbers : part[m] = EntriesOf(files_[m])
    BY <1>3
  <2>2. \A l \in LevelNumbers : \A m \in (l + 1)..(kNumLevels - 1) : m \in LevelNumbers
    BY LevelsAre DEF LevelNumbers
  <2>. QED BY <1>1, <2>1, <2>2 DEF Order, MemIsNewest, NewerAbove
<1>11. CASE Visible(mem_, k, s) # {}
  <2>1. PICK x : x \in Visible(mem_, k, s)
    BY <1>11
  <2>2. x \in mem_ /\ \A y \in Seen(mem_, k, s) : y.seq <= x.seq
    BY <1>6, <1>7, <2>1
  <2>3. ASSUME NEW y \in Seen(all, k, s) PROVE y.seq <= x.seq
    <3>1. CASE y \in mem_
      BY <1>7, <2>2, <2>3, <3>1
    <3>2. CASE \E l \in LevelNumbers : y \in part[l]
      <4>1. x.seq > y.seq /\ x.seq \in Nat /\ y.seq \in Nat
        BY <1>5, <1>7, <1>10, <2>2, <2>3, <3>2
      <4>. QED BY <4>1
    <3>. QED BY <1>5, <1>7, <2>3, <3>1, <3>2
  <2>4. Visible(mem_, k, s) = Visible(all, k, s)
    BY <1>5, <2>1, <2>3, PartShows
  <2>. QED BY <1>1, <1>4, <1>8, <1>11, <2>4
<1>12. CASE Visible(mem_, k, s) = {} /\ levels = {}
  <2>1. Seen(mem_, k, s) = {} /\ \A l \in LevelNumbers : Seen(part[l], k, s) = {}
    BY <1>6, <1>9, <1>12
  <2>2. Seen(all, k, s) = {}
    BY <1>5, <1>7, <2>1
  <2>3. Visible(all, k, s) = {}
    BY <1>5, <2>2, VisibleIs
  <2>. QED BY <1>1, <1>4, <1>8, <1>12, <2>3
<1>13. CASE Visible(mem_, k, s) = {} /\ levels # {}
  <2>1. PICK m : m = Min(levels)
    OBVIOUS
  <2>2. m \in levels /\ \A l \in levels : m <= l
    <3>1. levels \subseteq Nat
      BY LevelsAre
    <3>. HIDE DEF levels
    <3>. QED BY <1>13, <2>1, <3>1, MinIs
  <2>3. found = Visible(part[m], k, s) /\ m \in LevelNumbers
    BY <1>9, <1>13, <2>1, <2>2
  <2>4. PICK x : x \in Visible(part[m], k, s)
    BY <1>9, <2>2
  <2>5. x \in part[m] /\ x.key = k /\ \A y \in Seen(part[m], k, s) : y.seq <= x.seq
    BY <1>6, <1>7, <2>3, <2>4
  <2>6. ASSUME NEW y \in Seen(all, k, s) PROVE y.seq <= x.seq
    <3>1. y \in all /\ y.key = k /\ y.seq <= s
      BY <1>7, <2>6
    <3>2. y \notin mem_
      BY <1>6, <1>7, <1>13, <3>1
    <3>3. PICK l \in LevelNumbers : y \in part[l]
      BY <1>5, <3>1, <3>2
    <3>4. l \in levels
      BY <1>6, <1>7, <1>9, <3>1, <3>3
    <3>5. CASE l = m
      BY <1>7, <2>5, <3>1, <3>3, <3>5
    <3>6. CASE l # m
      <4>1. l \in (m + 1)..(kNumLevels - 1)
        BY <2>2, <2>3, <3>3, <3>4, <3>6 DEF LevelNumbers
      <4>2. x.seq > y.seq
        BY <1>10, <2>3, <2>5, <3>1, <3>3, <4>1
      <4>3. x.seq \in Nat /\ y.seq \in Nat
        BY <1>5, <2>3, <2>5, <3>1
      <4>. QED BY <4>2, <4>3
    <3>. QED BY <3>5, <3>6
  <2>7. Visible(part[m], k, s) = Visible(all, k, s)
    <3>1. PICK T : T = part[m]
      OBVIOUS
    <3>. QED BY <1>5, <2>3, <2>4, <2>6, <3>1, PartShows
  <2>. QED BY <1>1, <1>4, <1>8, <2>3, <2>7
<1>. QED BY <1>11, <1>12, <1>13

-------------------------------------------------------------------------------
(* The theorems *)

\* Every step keeps the invariant.
LEMMA NextKeeps ==
  ASSUME ~(SplitsKeys /\ Deletes), ~(ManualCompactions /\ FlushesInCompaction)
  PROVE  LevelInv /\ [LevelsNext]_levelVars => LevelInv'
<1>1. SUFFICES ASSUME LevelInv, [LevelsNext]_levelVars PROVE LevelInv'
  OBVIOUS
<1>2. ASSUME NEW k \in Keys, Put(k) PROVE LevelInv'
  BY <1>1, <1>2, AddKeeps DEF Put
<1>3. ASSUME NEW k \in Keys, Delete(k) PROVE LevelInv'
  BY <1>1, <1>3, AddKeeps DEF Delete
<1>4. CASE GetSnapshot
  BY <1>1, <1>4, GetSnapshotKeeps
<1>5. ASSUME NEW s \in snapshots_, ReleaseSnapshot(s) PROVE LevelInv'
  BY <1>1, <1>5, ReleaseSnapshotKeeps
<1>6. CASE Flush
  BY <1>1, <1>6, FlushKeeps
<1>7. CASE PickCompaction
  BY <1>1, <1>7, PickCompactionKeeps
<1>8. CASE CompactRange
  BY <1>1, <1>8, CompactRangeKeeps
<1>9. CASE TrivialMove
  BY <1>1, <1>9, TrivialMoveKeeps
<1>10. CASE FinishCompaction
  BY <1>1, <1>10, FinishCompactionKeeps
<1>11. CASE UNCHANGED levelVars
  <2>1. UNCHANGED <<mem_, files_, flushed, last_sequence_, snapshots_, compact, history>>
    BY <1>11 DEF levelVars
  <2>2. Types' /\ Order'
    BY <1>1, <2>1 DEF LevelInv, Types, Order, MemIsNewest, Level0InOrder, LevelsDisjoint, NewerAbove, KeysTogether
  <2>3. NothingMissing'
    BY <1>1, <2>1 DEF LevelInv, NothingMissing, Stored
  <2>4. CompactionInv'
    <3>1. Types /\ CompactionInv
      BY <1>1 DEF LevelInv
    <3>2. CompactionInv' <=> CompactionInv
      BY <2>1 DEF CompactionInv, Deeper
    <3>. QED BY <3>1, <3>2
  <2>. QED BY <2>2, <2>3, <2>4 DEF LevelInv
<1>. QED BY <1>1, <1>2, <1>3, <1>4, <1>5, <1>6, <1>7, <1>8, <1>9, <1>10, <1>11 DEF LevelsNext

\* Every state of the levels keeps the invariant: flushes and compactions put tables where
\* nothing newer is below them, and drop only what no read can see.
THEOREM LevelsStayRight ==
  ASSUME ~(SplitsKeys /\ Deletes), ~(ManualCompactions /\ FlushesInCompaction)
  PROVE  LevelsSpec => []LevelInv
<1>1. LevelsInit => LevelInv
  BY InitLevels
<1>2. LevelInv /\ [LevelsNext]_levelVars => LevelInv'
  BY NextKeeps
<1>. QED BY <1>1, <1>2, PTL DEF LevelsSpec

\* The invariant implies what the run checks.
LEMMA InvIsEnough == LevelInv => ReadsAreRight
<1>1. SUFFICES ASSUME LevelInv PROVE ReadsAreRight
  OBVIOUS
<1>2. Types /\ LevelsDisjoint /\ NewerAbove
  BY <1>1 DEF LevelInv, Order
<1>3. TypeOK
  <2>1. history \subseteq Entry /\ mem_ \subseteq Entry
    BY <1>2 DEF Types, Ordered
  <2>2. \A l \in LevelNumbers : \A f \in files_[l] : f.entries # {} /\ f.entries \subseteq Entry
    BY <1>2, <2>1 DEF Types, Table
  <2>3. flushed \in 0..MaxSequence /\ last_sequence_ \in 0..MaxSequence
    BY <1>2, KeysAre DEF Types
  <2>. QED BY <1>2, <2>1, <2>2, <2>3 DEF Types, TypeOK
<1>4. GetIsRight
  BY <1>1, GetIs DEF GetIsRight, Values
<1>. QED BY <1>2, <1>3, <1>4 DEF ReadsAreRight

\* ReadsAreRight: a read finds what the last write to its key that it may see left, in
\* whatever files and levels DBImpl::CompactMemTable and DoCompactionWork, with
\* the inputs that VersionSet chooses and what it drops, have put the entries of the key.
\* That holds if no output file may end inside a key or nothing is ever deleted, and if
\* no memtable is flushed while a manual compaction works: the two cases in
\* which the code itself goes wrong.
THEOREM LevelsReadRight ==
  ASSUME ~(SplitsKeys /\ Deletes), ~(ManualCompactions /\ FlushesInCompaction)
  PROVE  LevelsSpec => []ReadsAreRight
<1>1. LevelsSpec => []LevelInv
  BY LevelsStayRight
<1>2. LevelInv => ReadsAreRight
  BY InvIsEnough
<1>. QED BY <1>1, <1>2, PTL

===============================================================================

------------------------------ MODULE MemTableProofs ------------------------------
(****************************************************************************)
(* The memtable's data structures.  Searches in a skip list are right while *)
(* another thread inserts, for any number of keys, heights and any          *)
(* interleaving of loads and stores; the arena hands no memory out twice,   *)
(* for blocks and requests of any size.                                     *)
(****************************************************************************)
EXTENDS SkipList, Sequences, TLAPS

-------------------------------------------------------------------------------
(* The invariant *)

\* Node x is in the list of level i: its link there is set, and the link to it as well.
Linked(x, i) ==
  /\ next_[x][i] # Garbage
  /\ ~(writer.pc = "publish" /\ writer.level = i /\ writer.key = x)

\* The list of a level is sorted and leads to every node of the level.
Sorted ==
  \A i \in Levels, x \in Nodes : Linked(x, i) =>
    /\ x < next_[x][i]
    /\ next_[x][i] # Null => Linked(next_[x][i], i)
    /\ \A y \in Nodes : Linked(y, i) /\ x < y => next_[x][i] <= y

\* A node of a level is in all the levels below, and max_height_ is above it.
Nested ==
  /\ \A i \in Levels : Linked(head_, i)
  /\ \A i, j \in Levels, x \in Nodes : j <= i /\ Linked(x, i) => Linked(x, j)
  /\ \A i \in Levels, x \in Keys : Linked(x, i) => i < max_height_

\* The keys whose Insert has returned are in the list; of the others only the key that is
\* being inserted has links, on the levels that the writer has come to.
Contents ==
  /\ \A k \in inserted : Linked(k, 0)
  /\ \A k \in Keys \ inserted, i \in Levels : next_[k][i] # Garbage =>
       /\ writer.pc \in {"link", "publish"} /\ k = writer.key
       /\ i < writer.level \/ (i = writer.level /\ writer.pc = "publish")

\* The new key belongs between p and its successor on level j.
Fits(p, j) == Linked(p, j) /\ p < writer.key /\ writer.key < next_[p][j]

\* What the writer knows of the list, which nobody else changes.
WriterInv ==
  /\ writer.pc # "idle" => writer.key \in Keys \ inserted
  /\ writer.pc = "find" =>
       /\ Linked(writer.x, writer.level) /\ writer.x < writer.key /\ writer.level < max_height_
       /\ \A j \in Levels : writer.level < j /\ j < max_height_ => Fits(prev[j], j)
  /\ writer.pc = "height" => \A j \in Levels : j < max_height_ => Fits(prev[j], j)
  /\ writer.pc \in {"link", "publish"} =>
       /\ writer.level < writer.height /\ writer.height <= max_height_
       /\ \A j \in Levels : writer.level <= j /\ j < writer.height => Fits(prev[j], j)
       /\ \A j \in Levels : j < writer.level => Linked(writer.key, j)
  /\ writer.pc = "publish" =>
       next_[writer.key][writer.level] = next_[prev[writer.level]][writer.level]

\* A search stands on a node of its level before its target, an iterator on one of the list.
ReaderInv ==
  /\ reader.pc # "idle" => Linked(reader.x, reader.level) /\ reader.x < reader.key
  /\ node_ # Null => Linked(node_, 0)
  /\ seen \subseteq inserted

ListInv == TypeOK /\ Sorted /\ Nested /\ Contents /\ WriterInv /\ ReaderInv

-------------------------------------------------------------------------------
(* The numbers behind the keys *)

LEMMA Numbers ==
  ASSUME SkipListAssumption
  PROVE  /\ Nodes = Keys \cup {head_} /\ head_ \notin Keys /\ Keys \subseteq Nodes
         /\ Null \notin Nodes /\ Garbage \notin Nodes /\ Garbage # Null
         /\ Nodes \subseteq Int /\ Null \in Int /\ Garbage \in Int
         /\ \A k \in Keys : head_ < k /\ k < Null
         /\ Levels \subseteq Nat /\ 0 \in Levels
         /\ \A h \in 1..kMaxHeight : h - 1 \in Levels
         /\ \A i \in Levels : i < kMaxHeight
         /\ \A i, j \in Nat : i \in Levels /\ j <= i => j \in Levels
  BY DEF SkipListAssumption, Nodes, Keys, head_, Null, Garbage, Levels

\* The same nodes are in the list, with the same links: only what the list does not
\* show yet may have changed.
SameLists ==
  \A x \in Nodes, i \in Levels :
    /\ Linked(x, i)' <=> Linked(x, i)
    /\ Linked(x, i) => next_'[x][i] = next_[x][i]

\* Outside of the publication of a node, Linked depends on the links alone.
LEMMA SameLinks ==
  ASSUME UNCHANGED next_,
         \/ writer' = writer
         \/ writer.pc # "publish" /\ writer'.pc # "publish"
  PROVE  SameLists
  BY DEF SameLists, Linked

\* As long as the lists stay the same, they stay sorted and nested.
LEMMA ListsKept ==
  ASSUME SkipListAssumption, TypeOK, TypeOK', Sorted, Nested, SameLists,
         max_height_ <= max_height_'
  PROVE  Sorted' /\ Nested'
<1>1. Sorted'
  <2>1. SUFFICES ASSUME NEW i \in Levels, NEW x \in Nodes, Linked(x, i)'
                 PROVE  /\ x < next_'[x][i]
                        /\ (next_[x][i] # Null => Linked(next_[x][i], i))'
                        /\ \A y \in Nodes : Linked(y, i)' /\ x < y => next_'[x][i] <= y
    BY DEF Sorted
  <2>2. Linked(x, i) /\ next_'[x][i] = next_[x][i]
    BY <2>1 DEF SameLists
  <2>3. next_[x][i] # Null => next_[x][i] \in Nodes
    BY <2>2, Numbers DEF Linked, TypeOK
  <2>4. x < next_'[x][i]
    BY <2>2 DEF Sorted
  <2>5. (next_[x][i] # Null => Linked(next_[x][i], i))'
    <3>1. CASE next_[x][i] = Null
      BY <2>2, <3>1
    <3>2. CASE next_[x][i] # Null
      <4>1. PICK n \in Nodes : n = next_[x][i]
        BY <2>3, <3>2
      <4>2. Linked(n, i)
        BY <2>2, <3>2, <4>1 DEF Sorted
      <4>3. Linked(n, i)'
        BY <4>2 DEF SameLists
      <4>. QED  BY <2>2, <4>1, <4>3 DEF Linked
    <3>. QED  BY <3>1, <3>2
  <2>6. \A y \in Nodes : Linked(y, i)' /\ x < y => next_'[x][i] <= y
    BY <2>2 DEF Sorted, SameLists
  <2>. QED  BY <2>4, <2>5, <2>6
<1>2. Nested'
  <2>1. max_height_ \in Nat /\ max_height_' \in Nat
    BY DEF TypeOK, SkipListAssumption
  <2>2. \A i \in Levels, x \in Keys : Linked(x, i)' => i < max_height_'
    BY <2>1, Numbers DEF Nested, SameLists
  <2>3. \A i \in Levels : Linked(head_, i)'
    BY Numbers DEF Nested, SameLists
  <2>4. \A i, j \in Levels, x \in Nodes : j <= i /\ Linked(x, i)' => Linked(x, j)'
    BY DEF Nested, SameLists
  <2>. QED  BY <2>2, <2>3, <2>4 DEF Nested
<1>. QED  BY <1>1, <1>2

\* A node that fits stays one that does.
LEMMA FitsKept ==
  ASSUME SameLists, writer'.key = writer.key, NEW p \in Nodes, NEW j \in Levels, Fits(p, j)
  PROVE  Fits(p, j)'
  BY DEF Fits, SameLists

\* A search and an iterator stay where they are.
LEMMA ReaderKept ==
  ASSUME SkipListAssumption, TypeOK, ReaderInv,
         \A x \in Nodes, i \in Levels : Linked(x, i) => Linked(x, i)',
         UNCHANGED <<reader, node_, seen>>, inserted \subseteq inserted'
  PROVE  ReaderInv'
<1>1. node_ # Null => node_ \in Nodes
  BY Numbers DEF TypeOK
<1>. QED  BY <1>1, Numbers DEF ReaderInv, TypeOK

\* A successor in the list is a node of it, or there is none.
LEMMA Successor ==
  ASSUME SkipListAssumption, TypeOK, Sorted, NEW x \in Nodes, NEW i \in Levels, Linked(x, i)
  PROVE  /\ next_[x][i] \in Keys \cup {Null}
         /\ next_[x][i] \in Int /\ x < next_[x][i]
         /\ next_[x][i] # Null => next_[x][i] \in Nodes /\ Linked(next_[x][i], i)
<1>1. next_[x][i] \in Keys \cup {Null, Garbage} /\ next_[x][i] # Garbage
  BY DEF TypeOK, Linked
<1>2. x < next_[x][i] /\ (next_[x][i] # Null => Linked(next_[x][i], i))
  BY DEF Sorted
<1>. QED  BY <1>1, <1>2, Numbers

-------------------------------------------------------------------------------
(* The writer *)

LEMMA BeginInsertStep ==
  ASSUME SkipListAssumption, ListInv, NEW k \in Keys, BeginInsert(k)
  PROVE  ListInv'
<1>1. /\ writer.pc = "idle" /\ k \notin inserted
      /\ writer' = [pc |-> "find", key |-> k, x |-> head_, level |-> max_height_ - 1,
                    height |-> 1]
      /\ UNCHANGED <<next_, max_height_, prev, inserted, reader, node_, seen>>
  BY DEF BeginInsert
<1>2. TypeOK /\ max_height_ \in Nat /\ max_height_ - 1 \in Levels /\ 1 \in 1..kMaxHeight
  BY Numbers DEF ListInv, TypeOK, SkipListAssumption
<1>3. TypeOK'
  BY <1>1, <1>2, Numbers DEF TypeOK
<1>4. SameLists
  BY <1>1, SameLinks
<1>5. Sorted' /\ Nested'
  BY <1>1, <1>2, <1>3, <1>4, ListsKept DEF ListInv
<1>6. Contents'
  <2>1. \A q \in inserted : Linked(q, 0)'
    BY <1>1, <1>2, <1>4, Numbers DEF ListInv, Contents, SameLists, TypeOK
  <2>2. \A q \in Keys \ inserted, i \in Levels : next_[q][i] = Garbage
    BY <1>1 DEF ListInv, Contents
  <2>3. inserted' = inserted /\ next_' = next_
    BY <1>1
  <2>4. \A q \in Keys \ inserted', i \in Levels : next_'[q][i] = Garbage
    BY <2>2, <2>3
  <2>. QED  BY <2>1, <2>3, <2>4 DEF Contents
<1>7. WriterInv'
  <2>0. PICK highest \in Levels : highest = max_height_ - 1
    BY <1>2
  <2>1. Linked(head_, highest)'
    BY <1>4, Numbers DEF ListInv, Nested, SameLists
  <2>2. head_ < k /\ max_height_ - 1 < max_height_
        /\ \A j \in Levels : ~(max_height_ - 1 < j /\ j < max_height_)
    BY <1>2, Numbers
  <2>3. /\ writer'.pc = "find" /\ writer'.key = k /\ writer'.x = head_
        /\ writer'.level = max_height_ - 1 /\ max_height_' = max_height_
        /\ inserted' = inserted
    BY <1>1
  <2>4. Linked(writer.x, writer.level)'
    BY <2>0, <2>1, <2>3 DEF Linked
  <2>. QED  BY <1>1, <2>2, <2>3, <2>4 DEF WriterInv
<1>8. ReaderInv'
  BY <1>1, <1>2, <1>4, ReaderKept DEF ListInv, SameLists
<1>. QED  BY <1>3, <1>5, <1>6, <1>7, <1>8 DEF ListInv

\* While the writer searches, the new key has no links.
LEMMA NewKeyAbsent ==
  ASSUME SkipListAssumption, ListInv, writer.pc \in {"find", "height"}, NEW i \in Levels
  PROVE  /\ writer.key \in Keys /\ next_[writer.key][i] = Garbage
         /\ ~Linked(writer.key, i)
  BY DEF ListInv, WriterInv, Contents, Linked

LEMMA FindPrevStep ==
  ASSUME SkipListAssumption, ListInv, FindPrev
  PROVE  ListInv'
<1>1. PICK x \in Nodes : x = writer.x
  BY DEF ListInv, TypeOK
<1>2. PICK i \in Levels : i = writer.level
  BY DEF ListInv, TypeOK
<1>3. PICK n : n = next_[x][i]
  OBVIOUS
<1>4. PICK key \in Keys : key = writer.key
  BY DEF FindPrev, ListInv, WriterInv
<1>5. /\ writer.pc = "find" /\ TypeOK /\ Sorted /\ Nested /\ key \notin inserted
      /\ Linked(x, i) /\ x < key /\ i < max_height_ /\ max_height_ \in Nat
      /\ UNCHANGED <<next_, max_height_, inserted, reader, node_, seen>>
  BY <1>1, <1>2, <1>4 DEF FindPrev, ListInv, WriterInv, TypeOK, SkipListAssumption
<1>6. /\ n \in Keys \cup {Null} /\ n \in Int /\ x < n
      /\ n # Null => n \in Nodes /\ Linked(n, i)
  BY <1>3, <1>5, Successor
<1>7. \/ /\ n # Null /\ n < key /\ writer' = [writer EXCEPT !.x = n] /\ UNCHANGED prev
      \/ /\ ~(n # Null /\ n < key) /\ prev' = [prev EXCEPT ![i] = x]
         /\ writer' = IF i = 0 THEN [writer EXCEPT !.pc = "height"]
                      ELSE [writer EXCEPT !.level = i - 1]
  BY <1>1, <1>2, <1>3, <1>4 DEF FindPrev, KeyIsAfterNode
<1>8. writer'.pc \in {"find", "height"} /\ writer'.key = key
  BY <1>4, <1>5, <1>7 DEF TypeOK
<1>9. i \in Nat /\ (i # 0 => i - 1 \in Levels)
  BY Numbers
<1>10. TypeOK'
  <2>1. writer' \in [pc : {"idle", "find", "height", "link", "publish"}, key : Nodes, x : Nodes,
                     level : Levels, height : 1..kMaxHeight]
    BY <1>5, <1>6, <1>7, <1>9 DEF TypeOK
  <2>2. prev' \in [Levels -> Nodes]
    BY <1>5, <1>7 DEF TypeOK
  <2>. QED  BY <1>5, <2>1, <2>2 DEF TypeOK
<1>11. SameLists
  BY <1>5, <1>8, SameLinks
<1>12. Sorted' /\ Nested'
  BY <1>5, <1>10, <1>11, ListsKept
<1>13. Contents'
  <2>1. \A q \in inserted : Linked(q, 0)'
    BY <1>5, <1>11, Numbers DEF ListInv, Contents, SameLists, TypeOK
  <2>. QED  BY <1>5, <2>1 DEF ListInv, Contents
<1>14. ReaderInv'
  BY <1>5, <1>11, ReaderKept DEF ListInv, SameLists
<1>15. \A j \in Levels : i < j /\ j < max_height_ => Fits(prev[j], j)'
  <2>1. TAKE j \in Levels
  <2>2. HAVE i < j /\ j < max_height_
  <2>3. PICK p \in Nodes : p = prev[j]
    BY <1>5 DEF TypeOK
  <2>4. Fits(p, j)
    BY <1>2, <1>5, <2>2, <2>3 DEF ListInv, WriterInv
  <2>5. Fits(p, j)'
    BY <1>4, <1>8, <1>11, <2>4, FitsKept
  <2>6. prev'[j] = p
    BY <1>5, <1>7, <1>9, <2>2, <2>3, Numbers DEF TypeOK
  <2>. QED  BY <2>5, <2>6 DEF Fits, Linked
<1>16. WriterInv'
  <2>1. CASE n # Null /\ n < key /\ writer' = [writer EXCEPT !.x = n] /\ UNCHANGED prev
    <3>1. Linked(n, i)'
      BY <1>6, <1>11, <2>1 DEF SameLists
    <3>2. /\ writer'.pc = "find" /\ writer'.x = n /\ writer'.level = i /\ writer'.key = key
      BY <1>2, <1>4, <1>5, <2>1 DEF TypeOK
    <3>3. Linked(writer.x, writer.level)'
      BY <3>1, <3>2 DEF Linked
    <3>. QED  BY <1>5, <1>15, <2>1, <3>2, <3>3 DEF WriterInv
  <2>2. CASE /\ ~(n # Null /\ n < key) /\ prev' = [prev EXCEPT ![i] = x]
             /\ writer' = IF i = 0 THEN [writer EXCEPT !.pc = "height"]
                          ELSE [writer EXCEPT !.level = i - 1]
    <3>1. key < n
      <4>1. n # key
        BY <1>4, <1>5, <1>6, NewKeyAbsent, Numbers
      <4>. QED  BY <1>6, <2>2, <4>1, Numbers
    <3>2. Fits(x, i)
      BY <1>3, <1>4, <1>5, <3>1 DEF Fits
    <3>3. Fits(x, i)'
      BY <1>4, <1>8, <1>11, <3>2, FitsKept
    <3>4. prev'[i] = x
      BY <1>5, <2>2 DEF TypeOK
    <3>5. \A j \in Levels : i <= j /\ j < max_height_ => Fits(prev[j], j)'
      <4>1. TAKE j \in Levels
      <4>2. HAVE i <= j /\ j < max_height_
      <4>3. CASE j = i
        BY <3>3, <3>4, <4>3 DEF Fits, Linked
      <4>4. CASE j # i
        BY <1>9, <1>15, <4>2, <4>4, Numbers
      <4>. QED  BY <4>3, <4>4
    <3>6. CASE i = 0
      <4>1. writer'.pc = "height" /\ writer'.key = key
        BY <1>4, <1>5, <2>2, <3>6 DEF TypeOK
      <4>2. \A j \in Levels : i <= j
        BY <3>6, Numbers
      <4>. QED  BY <1>5, <3>5, <4>1, <4>2 DEF WriterInv
    <3>7. CASE i # 0
      <4>1. writer'.pc = "find" /\ writer'.key = key /\ writer'.x = x /\ writer'.level = i - 1
        BY <1>1, <1>4, <1>5, <2>2, <3>7 DEF TypeOK
      <4>2. Linked(x, i - 1)'
        BY <1>5, <1>9, <1>11, <3>7 DEF Nested, SameLists
      <4>3. Linked(writer.x, writer.level)'
        BY <4>1, <4>2 DEF Linked
      <4>4. i - 1 < max_height_ /\ \A j \in Levels : i - 1 < j => i <= j
        BY <1>5, <1>9, Numbers
      <4>. QED  BY <1>5, <3>5, <4>1, <4>3, <4>4 DEF WriterInv
    <3>. QED  BY <3>6, <3>7
  <2>. QED  BY <1>7, <2>1, <2>2
<1>. QED  BY <1>10, <1>12, <1>13, <1>14, <1>16 DEF ListInv

LEMMA ChooseHeightStep ==
  ASSUME SkipListAssumption, ListInv, NEW h \in 1..kMaxHeight, ChooseHeight(h)
  PROVE  ListInv'
<1>1. PICK key \in Keys : key = writer.key
  BY DEF ChooseHeight, ListInv, WriterInv
<1>2. /\ writer.pc = "height" /\ TypeOK /\ Sorted /\ Nested /\ key \notin inserted
      /\ max_height_ \in Nat /\ max_height_ \in 1..kMaxHeight /\ h \in Nat /\ h > 0
      /\ writer' = [writer EXCEPT !.pc = "link", !.height = h, !.level = 0]
      /\ prev' = [i \in Levels |-> IF i \in max_height_..h - 1 THEN head_ ELSE prev[i]]
      /\ max_height_' = IF h > max_height_ THEN h ELSE max_height_
      /\ UNCHANGED <<next_, inserted, reader, node_, seen>>
  BY <1>1 DEF ChooseHeight, ListInv, WriterInv, TypeOK, SkipListAssumption
<1>3. /\ writer'.pc = "link" /\ writer'.key = key /\ writer'.height = h /\ writer'.level = 0
      /\ h <= max_height_' /\ max_height_ <= max_height_' /\ max_height_' \in 1..kMaxHeight
  BY <1>1, <1>2 DEF TypeOK
<1>4. TypeOK'
  <2>1. writer' \in [pc : {"idle", "find", "height", "link", "publish"}, key : Nodes, x : Nodes,
                     level : Levels, height : 1..kMaxHeight]
    BY <1>2, Numbers DEF TypeOK
  <2>2. prev' \in [Levels -> Nodes]
    BY <1>2, Numbers DEF TypeOK
  <2>. QED  BY <1>2, <1>3, <2>1, <2>2 DEF TypeOK
<1>5. SameLists
  BY <1>2, <1>3, SameLinks
<1>6. Sorted' /\ Nested'
  BY <1>2, <1>3, <1>4, <1>5, ListsKept
<1>7. Contents'
  <2>1. \A q \in inserted : Linked(q, 0)'
    BY <1>2, <1>5, Numbers DEF ListInv, Contents, SameLists, TypeOK
  <2>2. \A q \in Keys \ inserted, i \in Levels : next_[q][i] = Garbage
    BY <1>2 DEF ListInv, Contents
  <2>3. \A q \in Keys \ inserted', i \in Levels : next_'[q][i] = Garbage
    BY <1>2, <2>2
  <2>. QED  BY <1>2, <2>1, <2>3 DEF Contents
<1>8. \A j \in Levels : j < h => Fits(prev[j], j)'
  <2>1. TAKE j \in Levels
  <2>2. HAVE j < h
  <2>3. PICK p \in Nodes : p = prev'[j]
    BY <1>4 DEF TypeOK
  <2>4. Fits(p, j)
    <3>1. CASE j < max_height_
      <4>1. p = prev[j]
        BY <1>2, <2>3, <3>1, Numbers
      <4>. QED  BY <1>2, <3>1, <4>1 DEF ListInv, WriterInv
    <3>2. CASE ~(j < max_height_)
      <4>1. p = head_
        BY <1>2, <2>2, <2>3, <3>2, Numbers
      <4>2. Linked(head_, j)
        BY <1>2 DEF Nested
      <4>3. PICK n : n = next_[head_][j]
        OBVIOUS
      <4>4. n \in Keys \cup {Null} /\ (n # Null => Linked(n, j))
        BY <1>2, <4>2, <4>3, Successor, Numbers
      <4>5. n = Null
        BY <1>2, <3>2, <4>4 DEF Nested
      <4>. QED  BY <1>1, <4>1, <4>2, <4>3, <4>5, Numbers DEF Fits
    <3>. QED  BY <3>1, <3>2
  <2>5. Fits(p, j)'
    BY <1>1, <1>3, <1>5, <2>4, FitsKept
  <2>. QED  BY <2>3, <2>5 DEF Fits, Linked
<1>9. WriterInv'
  <2>1. \A j \in Levels : ~(j < 0)
    BY Numbers
  <2>. QED  BY <1>2, <1>3, <1>8, <2>1 DEF WriterInv
<1>10. ReaderInv'
  BY <1>2, <1>5, ReaderKept DEF ListInv, SameLists
<1>. QED  BY <1>4, <1>6, <1>7, <1>9, <1>10 DEF ListInv

LEMMA LinkStep ==
  ASSUME SkipListAssumption, ListInv, Link
  PROVE  ListInv'
<1>1. PICK key \in Keys : key = writer.key
  BY DEF Link, ListInv, WriterInv
<1>2. PICK i \in Levels : i = writer.level
  BY DEF ListInv, TypeOK
<1>3. PICK p \in Nodes : p = prev[i]
  BY DEF ListInv, TypeOK
<1>4. /\ writer.pc = "link" /\ TypeOK /\ Sorted /\ Nested /\ key \notin inserted
      /\ writer.level < writer.height /\ writer.height <= max_height_ /\ max_height_ \in Nat
      /\ writer' = [writer EXCEPT !.pc = "publish"]
      /\ next_' = [next_ EXCEPT ![key][i] = next_[p][i]]
      /\ UNCHANGED <<max_height_, prev, inserted, reader, node_, seen>>
  BY <1>1, <1>2, <1>3 DEF Link, ListInv, WriterInv, TypeOK, SkipListAssumption
<1>5. /\ writer'.pc = "publish" /\ writer'.key = key /\ writer'.level = i
      /\ writer'.height = writer.height
  BY <1>1, <1>2, <1>4 DEF TypeOK
<1>6. Fits(p, i) /\ Linked(p, i) /\ p < key /\ key < next_[p][i]
  BY <1>1, <1>2, <1>3, <1>4, Numbers DEF ListInv, WriterInv, Fits, TypeOK
<1>7. next_[p][i] \in Keys \cup {Null} /\ p # key
  BY <1>4, <1>6, Successor, Numbers
<1>8. /\ next_'[key][i] = next_[p][i]
      /\ \A x \in Nodes, j \in Levels : ~(x = key /\ j = i) => next_'[x][j] = next_[x][j]
  BY <1>4, <1>1, Numbers DEF TypeOK
<1>9. next_[key][i] = Garbage
  BY <1>1, <1>2, <1>4, Numbers DEF ListInv, Contents, TypeOK
<1>10. SameLists
  <2>1. SUFFICES ASSUME NEW x \in Nodes, NEW j \in Levels
                 PROVE  /\ Linked(x, j)' <=> Linked(x, j)
                        /\ Linked(x, j) => next_'[x][j] = next_[x][j]
    BY DEF SameLists
  <2>2. CASE x = key /\ j = i
    BY <1>5, <1>9, <2>2 DEF Linked
  <2>3. CASE ~(x = key /\ j = i)
    BY <1>4, <1>5, <1>8, <2>3 DEF Linked
  <2>. QED  BY <2>2, <2>3
<1>11. TypeOK'
  <2>1. writer' \in [pc : {"idle", "find", "height", "link", "publish"}, key : Nodes, x : Nodes,
                     level : Levels, height : 1..kMaxHeight]
    BY <1>4 DEF TypeOK
  <2>2. next_' \in [Nodes -> [Levels -> Keys \cup {Null, Garbage}]]
    BY <1>4, <1>7, Numbers DEF TypeOK
  <2>. QED  BY <1>4, <2>1, <2>2 DEF TypeOK
<1>12. Sorted' /\ Nested'
  BY <1>4, <1>10, <1>11, ListsKept
<1>13. Contents'
  <2>1. \A q \in inserted : Linked(q, 0)'
    BY <1>4, <1>10, Numbers DEF ListInv, Contents, SameLists, TypeOK
  <2>2. \A q \in Keys \ inserted, j \in Levels : next_'[q][j] # Garbage =>
           q = key /\ (j < i \/ j = i)
    <3>1. SUFFICES ASSUME NEW q \in Keys \ inserted, NEW j \in Levels, next_'[q][j] # Garbage
                   PROVE  q = key /\ (j < i \/ j = i)
      OBVIOUS
    <3>2. CASE q = key /\ j = i
      BY <3>2
    <3>3. CASE ~(q = key /\ j = i)
      <4>1. next_[q][j] # Garbage
        BY <1>8, <3>1, <3>3, Numbers
      <4>. QED  BY <1>1, <1>2, <1>4, <4>1 DEF ListInv, Contents
    <3>. QED  BY <3>2, <3>3
  <2>. QED  BY <1>4, <1>5, <2>1, <2>2 DEF Contents
<1>14. WriterInv'
  <2>1. \A j \in Levels : i <= j /\ j < writer.height => Fits(prev[j], j)'
    <3>1. TAKE j \in Levels
    <3>2. HAVE i <= j /\ j < writer.height
    <3>3. PICK q \in Nodes : q = prev[j]
      BY <1>4 DEF TypeOK
    <3>4. Fits(q, j)
      BY <1>2, <1>4, <3>2, <3>3 DEF ListInv, WriterInv
    <3>5. Fits(q, j)'
      BY <1>1, <1>5, <1>10, <3>4, FitsKept
    <3>. QED  BY <1>4, <3>3, <3>5 DEF Fits, Linked
  <2>2. \A j \in Levels : j < i => Linked(key, j)'
    BY <1>1, <1>2, <1>4, <1>10, Numbers DEF ListInv, WriterInv, SameLists
  <2>3. next_'[key][i] = next_'[p][i]
    BY <1>7, <1>8
  <2>4. \A j \in Levels : j < i => Linked(writer.key, j)'
    BY <1>5, <2>2 DEF Linked
  <2>. QED  BY <1>2, <1>3, <1>4, <1>5, <2>1, <2>3, <2>4 DEF WriterInv
<1>15. ReaderInv'
  BY <1>4, <1>10, ReaderKept DEF ListInv, SameLists
<1>. QED  BY <1>11, <1>12, <1>13, <1>14, <1>15 DEF ListInv

LEMMA PublishStep ==
  ASSUME SkipListAssumption, ListInv, Publish
  PROVE  ListInv'
<1>1. PICK key \in Keys : key = writer.key
  BY DEF Publish, ListInv, WriterInv
<1>2. PICK i \in Levels : i = writer.level
  BY DEF ListInv, TypeOK
<1>3. PICK p \in Nodes : p = prev[i]
  BY DEF ListInv, TypeOK
<1>4. /\ writer.pc = "publish" /\ TypeOK /\ Sorted /\ Nested /\ key \notin inserted
      /\ i < writer.height /\ writer.height <= max_height_ /\ max_height_ \in Nat
      /\ writer.height \in 1..kMaxHeight
      /\ next_' = [next_ EXCEPT ![p][i] = key]
      /\ UNCHANGED <<max_height_, prev, reader, node_, seen>>
  BY <1>1, <1>2, <1>3 DEF Publish, ListInv, WriterInv, TypeOK, SkipListAssumption
<1>5. \/ /\ i + 1 < writer.height /\ UNCHANGED inserted
         /\ writer' = [writer EXCEPT !.pc = "link", !.level = i + 1]
      \/ ~(i + 1 < writer.height) /\ writer' = Idle /\ inserted' = inserted \cup {key}
  BY <1>1, <1>2 DEF Publish
<1>6. writer'.pc \in {"link", "idle"}
  <2>1. writer \in [pc : {"idle", "find", "height", "link", "publish"}, key : Nodes, x : Nodes,
                    level : Levels, height : 1..kMaxHeight]
    BY <1>4 DEF TypeOK
  <2>2. Idle.pc = "idle"
    BY DEF Idle
  <2>3. [writer EXCEPT !.pc = "link", !.level = i + 1].pc = "link"
    BY <2>1
  <2>. QED  BY <1>5, <2>2, <2>3
<1>7. PICK n \in Keys \cup {Null} : n = next_[p][i]
  <2>1. Linked(p, i)
    BY <1>1, <1>2, <1>3, <1>4, Numbers DEF ListInv, WriterInv, Fits, TypeOK
  <2>. QED  BY <1>4, <2>1, Successor
<1>8. Linked(p, i) /\ p < key /\ key < n /\ next_[key][i] = n /\ p # key /\ n \in Int
  BY <1>1, <1>2, <1>3, <1>4, <1>7, Numbers DEF ListInv, WriterInv, Fits, TypeOK
<1>9. /\ next_'[p][i] = key
      /\ \A x \in Nodes, j \in Levels : ~(x = p /\ j = i) => next_'[x][j] = next_[x][j]
  BY <1>4 DEF TypeOK
<1>10. \A x \in Nodes, j \in Levels : Linked(x, j)' <=> Linked(x, j) \/ (x = key /\ j = i)
  <2>1. TAKE x \in Nodes, j \in Levels
  <2>2. key # Garbage /\ n # Garbage
    BY <1>7, Numbers
  <2>3. CASE x = p /\ j = i
    BY <1>6, <1>8, <1>9, <2>2, <2>3 DEF Linked
  <2>4. CASE ~(x = p /\ j = i)
    <3>1. next_'[x][j] = next_[x][j]
      BY <1>9, <2>4
    <3>2. CASE x = key /\ j = i
      BY <1>6, <1>8, <2>2, <3>1, <3>2 DEF Linked
    <3>3. CASE ~(x = key /\ j = i)
      BY <1>1, <1>2, <1>6, <3>1, <3>3 DEF Linked
    <3>. QED  BY <3>2, <3>3
  <2>. QED  BY <2>3, <2>4
<1>11. TypeOK'
  <2>1. i + 1 < writer.height => i + 1 \in Levels
    BY <1>4, Numbers DEF Levels
  <2>2. writer' \in [pc : {"idle", "find", "height", "link", "publish"}, key : Nodes, x : Nodes,
                     level : Levels, height : 1..kMaxHeight]
    <3>1. Idle \in [pc : {"idle", "find", "height", "link", "publish"}, key : Nodes, x : Nodes,
                    level : Levels, height : 1..kMaxHeight]
      BY Numbers DEF Idle, head_, SkipListAssumption
    <3>. QED  BY <1>4, <1>5, <2>1, <3>1 DEF TypeOK
  <2>3. next_' \in [Nodes -> [Levels -> Keys \cup {Null, Garbage}]]
    BY <1>4 DEF TypeOK
  <2>4. inserted' \subseteq Keys
    BY <1>4, <1>5 DEF TypeOK
  <2>. QED  BY <1>4, <2>2, <2>3, <2>4 DEF TypeOK
<1>12. ~Linked(key, i)
  BY <1>1, <1>2, <1>4 DEF Linked
<1>13. Sorted'
  <2>1. SUFFICES ASSUME NEW j \in Levels, NEW x \in Nodes, Linked(x, j)'
                 PROVE  /\ x < next_'[x][j]
                        /\ (next_[x][j] # Null => Linked(next_[x][j], j))'
                        /\ \A y \in Nodes : Linked(y, j)' /\ x < y => next_'[x][j] <= y
    BY DEF Sorted
  <2>2. PICK m : m = next_'[x][j]
    OBVIOUS
  <2>3. SUFFICES /\ x < m /\ (m # Null => m \in Nodes /\ Linked(m, j)')
                 /\ \A y \in Nodes : Linked(y, j)' /\ x < y => m <= y
    BY <2>2 DEF Linked
  <2>4. CASE j # i
    <3>1. Linked(x, j) /\ m = next_[x][j]
      BY <1>9, <1>10, <2>1, <2>2, <2>4
    <3>2. x < m /\ (m # Null => m \in Nodes /\ Linked(m, j))
      BY <1>4, <3>1, Successor
    <3>3. \A y \in Nodes : Linked(y, j) /\ x < y => m <= y
      BY <1>4, <3>1 DEF Sorted
    <3>. QED  BY <1>10, <2>4, <3>2, <3>3
  <2>5. CASE j = i /\ x = p
    <3>1. m = key /\ key \in Nodes
      BY <1>9, <2>2, <2>5, Numbers
    <3>2. Linked(m, j)'
      BY <1>10, <2>5, <3>1
    <3>3. ASSUME NEW y \in Nodes, Linked(y, j)', x < y PROVE m <= y
      <4>1. CASE y = key
        BY <3>1, <4>1, Numbers
      <4>2. CASE y # key
        <5>1. Linked(y, i)
          BY <1>10, <2>5, <3>3, <4>2
        <5>2. n <= y
          BY <1>4, <1>7, <1>8, <2>5, <3>3, <5>1 DEF Sorted
        <5>. QED  BY <1>8, <3>1, <5>2, Numbers
      <4>. QED  BY <4>1, <4>2
    <3>. QED  BY <1>8, <2>5, <3>1, <3>2, <3>3
  <2>6. CASE j = i /\ x = key
    <3>1. m = n
      BY <1>8, <1>9, <2>2, <2>6
    <3>2. m # Null => m \in Nodes /\ Linked(m, j)
      BY <1>4, <1>7, <1>8, <2>6, <3>1, Successor
    <3>3. ASSUME NEW y \in Nodes, Linked(y, j)', x < y PROVE m <= y
      <4>1. y # key /\ p < y
        BY <1>8, <2>6, <3>3, Numbers
      <4>2. Linked(y, i)
        BY <1>10, <2>6, <3>3, <4>1
      <4>. QED  BY <1>4, <1>7, <1>8, <3>1, <4>1, <4>2 DEF Sorted
    <3>. QED  BY <1>8, <1>10, <2>6, <3>1, <3>2, <3>3
  <2>7. CASE j = i /\ x # p /\ x # key
    <3>1. Linked(x, i) /\ m = next_[x][i]
      BY <1>9, <1>10, <2>1, <2>2, <2>7
    <3>2. x < m /\ m \in Int /\ (m # Null => m \in Nodes /\ Linked(m, i))
      BY <1>4, <3>1, Successor
    <3>3. \A y \in Nodes : Linked(y, i) /\ x < y => m <= y
      BY <1>4, <3>1 DEF Sorted
    <3>4. x < key => m <= key
      <4>1. CASE x < p
        BY <1>8, <3>2, <3>3, <4>1, Numbers
      <4>2. CASE p < x
        <5>1. n <= x
          BY <1>4, <1>7, <1>8, <3>1, <4>2 DEF Sorted
        <5>. QED  BY <1>8, <5>1, Numbers
      <4>. QED  BY <2>7, <4>1, <4>2, Numbers
    <3>. QED  BY <1>10, <2>7, <3>2, <3>3, <3>4
  <2>. QED  BY <2>4, <2>5, <2>6, <2>7
<1>14. Nested'
  <2>1. \A j \in Levels : Linked(head_, j)'
    BY <1>4, <1>10, Numbers DEF Nested
  <2>2. \A j \in Levels : j < i => Linked(key, j)
    BY <1>1, <1>2, <1>4 DEF ListInv, WriterInv
  <2>3. \A a, j \in Levels, x \in Nodes : j <= a /\ Linked(x, a)' => Linked(x, j)'
    <3>1. TAKE a, j \in Levels, x \in Nodes
    <3>2. HAVE j <= a /\ Linked(x, a)'
    <3>3. CASE Linked(x, a)
      BY <1>4, <1>10, <3>2, <3>3 DEF Nested
    <3>4. CASE x = key /\ a = i
      BY <1>10, <2>2, <3>2, <3>4, Numbers
    <3>. QED  BY <1>10, <3>2, <3>3, <3>4
  <2>4. \A j \in Levels, x \in Keys : Linked(x, j)' => j < max_height_'
    <3>1. i < max_height_
      BY <1>4, Numbers
    <3>. QED  BY <1>4, <1>10, <3>1, Numbers DEF Nested
  <2>. QED  BY <2>1, <2>3, <2>4 DEF Nested
<1>15. \A j \in Levels : j <= i => Linked(key, j)'
  <2>1. \A j \in Levels : j < i => Linked(key, j)
    BY <1>1, <1>2, <1>4 DEF ListInv, WriterInv
  <2>. QED  BY <1>10, <2>1, Numbers
<1>16. Contents'
  <2>1. \A q \in inserted' : Linked(q, 0)'
    <3>1. \A q \in inserted : q \in Nodes /\ Linked(q, 0)
      BY <1>4, Numbers DEF ListInv, Contents, TypeOK
    <3>2. \A q \in inserted : Linked(q, 0)'
      BY <1>10, <3>1, Numbers
    <3>3. Linked(key, 0)'
      BY <1>15, Numbers
    <3>. QED  BY <1>5, <3>2, <3>3
  <2>2. ASSUME NEW q \in Keys \ inserted', NEW j \in Levels, next_'[q][j] # Garbage
        PROVE  /\ writer'.pc = "link" /\ q = writer'.key
               /\ j < writer'.level
    <3>1. (q \notin inserted /\ q # p) \/ ~(q = p /\ j = i)
      <4>1. p \in Keys => p \in inserted
        <5>1. p \in Keys \ inserted => p = key
          BY <1>1, <1>8 DEF ListInv, Contents, Linked
        <5>. QED  BY <1>8, <5>1
      <4>. QED  BY <1>5, <2>2, <4>1
    <3>2. next_[q][j] # Garbage
      BY <1>9, <2>2, <3>1, Numbers
    <3>3. q \notin inserted
      BY <1>5
    <3>4. q = key /\ j <= i
      BY <1>1, <1>2, <3>2, <3>3, Numbers DEF ListInv, Contents
    <3>5. i + 1 < writer.height /\ writer' = [writer EXCEPT !.pc = "link", !.level = i + 1]
      BY <1>5, <2>2, <3>4
    <3>. QED  BY <1>1, <1>4, <3>4, <3>5, Numbers DEF TypeOK
  <2>. QED  BY <2>1, <2>2 DEF Contents
<1>17. WriterInv'
  <2>1. CASE writer' = Idle
    BY <2>1 DEF WriterInv, Idle
  <2>2. CASE /\ i + 1 < writer.height /\ UNCHANGED inserted
             /\ writer' = [writer EXCEPT !.pc = "link", !.level = i + 1]
    <3>1. /\ writer'.pc = "link" /\ writer'.key = key /\ writer'.level = i + 1
          /\ writer'.height = writer.height
      BY <1>1, <1>4, <2>2 DEF TypeOK
    <3>2. \A j \in Levels : i + 1 <= j /\ j < writer.height => Fits(prev[j], j)'
      <4>1. TAKE j \in Levels
      <4>2. HAVE i + 1 <= j /\ j < writer.height
      <4>3. PICK q \in Nodes : q = prev[j]
        BY <1>4 DEF TypeOK
      <4>4. i <= j /\ j # i
        BY <4>2, Numbers
      <4>5. Fits(q, j)
        BY <1>2, <1>4, <4>2, <4>3, <4>4 DEF ListInv, WriterInv
      <4>6. Fits(q, j)'
        BY <1>1, <1>9, <1>10, <3>1, <4>4, <4>5 DEF Fits
      <4>. QED  BY <1>4, <4>3, <4>6 DEF Fits, Linked
    <3>3. \A j \in Levels : j < i + 1 => Linked(writer.key, j)'
      <4>1. \A j \in Levels : j < i + 1 => j <= i
        BY Numbers
      <4>. QED  BY <1>15, <3>1, <4>1 DEF Linked
    <3>. QED  BY <1>4, <2>2, <3>1, <3>2, <3>3 DEF WriterInv
  <2>. QED  BY <1>5, <2>1, <2>2
<1>18. ReaderInv'
  BY <1>4, <1>5, <1>10, ReaderKept DEF ListInv
<1>. QED  BY <1>11, <1>13, <1>14, <1>16, <1>17, <1>18 DEF ListInv

-------------------------------------------------------------------------------
(* Readers *)

\* A step of a reader leaves the list and the writer alone.
LEMMA ListAlone ==
  ASSUME SkipListAssumption, ListInv, UNCHANGED list, TypeOK', ReaderInv'
  PROVE  ListInv'
<1>1. UNCHANGED <<next_, max_height_, writer, prev, inserted>>
  BY DEF list
<1>2. Sorted' /\ Nested' /\ Contents' /\ WriterInv'
  BY <1>1 DEF ListInv, Sorted, Nested, Contents, WriterInv, Fits, Linked
<1>. QED  BY <1>2 DEF ListInv

LEMMA BeginSearchStep ==
  ASSUME SkipListAssumption, ListInv, NEW h \in 1..kMaxHeight,
         NEW pc \in {"at_or_after", "before"}, NEW key \in Keys \cup {Null},
         BeginSearch(pc, key, h)
  PROVE  ListInv'
<1>1. /\ reader' = [pc |-> pc, key |-> key, x |-> head_, level |-> h - 1]
      /\ seen' = inserted /\ UNCHANGED <<next_, max_height_, writer, prev, inserted, node_>>
  BY DEF BeginSearch, list
<1>2. PICK i \in Levels : i = h - 1
  BY Numbers
<1>3. TypeOK'
  BY <1>1, <1>2, Numbers DEF ListInv, TypeOK
<1>4. ReaderInv'
  <2>1. Linked(head_, i)'
    BY <1>1 DEF ListInv, Nested, Linked
  <2>2. Linked(reader.x, reader.level)'
    BY <1>1, <1>2, <2>1 DEF Linked
  <2>3. head_ < key
    BY Numbers DEF head_, Null, SkipListAssumption
  <2>4. node_' # Null => Linked(node_, 0)'
    BY <1>1 DEF ListInv, ReaderInv, Linked
  <2>. QED  BY <1>1, <2>2, <2>3, <2>4 DEF ReaderInv
<1>. QED  BY <1>1, <1>3, <1>4, ListAlone DEF list

\* A search goes on to a node of the list, and ends on the right one.
LEMMA SearchStep ==
  ASSUME SkipListAssumption, ListInv, Search
  PROVE  ListInv' /\ SearchFinds
<1>1. PICK x \in Nodes : x = reader.x
  BY DEF ListInv, TypeOK
<1>2. PICK i \in Levels : i = reader.level
  BY DEF ListInv, TypeOK
<1>3. PICK key : key = reader.key
  OBVIOUS
<1>4. /\ reader.pc # "idle" /\ TypeOK /\ Sorted /\ Nested /\ Linked(x, i) /\ x < key
      /\ UNCHANGED <<next_, max_height_, writer, prev, inserted, seen>>
  BY <1>1, <1>2, <1>3 DEF Search, ListInv, ReaderInv, list
<1>5. key \in Int
  BY <1>3, <1>4, Numbers DEF TypeOK
<1>6. PICK n \in Keys \cup {Null} : n = next_[x][i]
  BY <1>4, Successor
<1>7. n \in Int /\ x < n /\ (n # Null => n \in Nodes /\ Linked(n, i))
  BY <1>4, <1>6, Successor
<1>8. \A y \in Nodes : Linked(y, i) /\ x < y => n <= y
  BY <1>4, <1>6 DEF Sorted
<1>9. \A y \in Nodes, j \in Levels : Linked(y, j)' <=> Linked(y, j)
  BY <1>4 DEF Linked
<1>10. /\ UNCHANGED list
       /\ \/ n # Null /\ n < key /\ reader' = [reader EXCEPT !.x = n] /\ UNCHANGED node_
          \/ /\ ~(n # Null /\ n < key) /\ i > 0 /\ UNCHANGED node_
             /\ reader' = [reader EXCEPT !.level = i - 1]
          \/ /\ ~(n # Null /\ n < key) /\ i = 0 /\ reader' = NoSearch
             /\ node_' = IF reader.pc = "at_or_after" THEN n
                         ELSE IF x = head_ THEN Null ELSE x
  BY <1>1, <1>2, <1>3, <1>6, Numbers DEF Search, KeyIsAfterNode
<1>11. node_ # Null => Linked(node_, 0)
  BY DEF ListInv, ReaderInv
<1>12. seen \subseteq inserted
  BY DEF ListInv, ReaderInv
<1>13. CASE n # Null /\ n < key /\ reader' = [reader EXCEPT !.x = n] /\ UNCHANGED node_
  <2>1. reader'.pc = reader.pc /\ reader'.key = key /\ reader'.x = n /\ reader'.level = i
    BY <1>2, <1>3, <1>4, <1>13 DEF TypeOK
  <2>2. TypeOK'
    BY <1>4, <1>7, <1>13 DEF TypeOK
  <2>3. Linked(n, i)'
    BY <1>7, <1>9, <1>13
  <2>4. Linked(reader.x, reader.level)'
    BY <2>1, <2>3 DEF Linked
  <2>5. node_' # Null => Linked(node_, 0)'
    BY <1>4, <1>11, <1>13 DEF Linked
  <2>6. ReaderInv'
    BY <1>4, <1>12, <1>13, <2>1, <2>4, <2>5 DEF ReaderInv
  <2>. QED  BY <1>4, <1>10, <2>1, <2>2, <2>6, ListAlone DEF SearchFinds
<1>14. CASE /\ ~(n # Null /\ n < key) /\ i > 0 /\ UNCHANGED node_
            /\ reader' = [reader EXCEPT !.level = i - 1]
  <2>1. reader'.pc = reader.pc /\ reader'.key = key /\ reader'.x = x /\ reader'.level = i - 1
    BY <1>1, <1>3, <1>4, <1>14 DEF TypeOK
  <2>2. PICK d \in Levels : d = i - 1 /\ d <= i
    BY <1>14, Numbers
  <2>3. TypeOK'
    BY <1>4, <1>14, <2>2 DEF TypeOK
  <2>4. Linked(x, d)'
    BY <1>4, <1>9, <2>2 DEF Nested
  <2>5. Linked(reader.x, reader.level)'
    BY <2>1, <2>2, <2>4 DEF Linked
  <2>6. node_' # Null => Linked(node_, 0)'
    BY <1>4, <1>11, <1>14 DEF Linked
  <2>7. ReaderInv'
    BY <1>4, <1>12, <1>14, <2>1, <2>5, <2>6 DEF ReaderInv
  <2>. QED  BY <1>4, <1>10, <2>1, <2>3, <2>7, ListAlone DEF SearchFinds
<1>15. CASE /\ ~(n # Null /\ n < key) /\ i = 0 /\ reader' = NoSearch
            /\ node_' = IF reader.pc = "at_or_after" THEN n
                        ELSE IF x = head_ THEN Null ELSE x
  <2>1. reader'.pc = "idle" /\ NoSearch \in
          [pc : {"idle", "at_or_after", "before"}, key : Nodes \cup {Null}, x : Nodes, level : Levels]
    BY <1>15, Numbers DEF NoSearch, head_
  <2>2. PICK m : m = node_'
    OBVIOUS
  <2>3. m \in Keys \cup {Null} /\ (m # Null => m \in Nodes /\ Linked(m, 0))
    BY <1>4, <1>7, <1>15, <2>2, Numbers
  <2>4. TypeOK'
    BY <1>4, <1>15, <2>1, <2>2, <2>3 DEF TypeOK
  <2>5. node_' # Null => Linked(node_, 0)'
    BY <1>4, <2>2, <2>3 DEF Linked
  <2>6. ReaderInv'
    BY <1>4, <1>12, <2>1, <2>5 DEF ReaderInv
  <2>7. \A k \in seen : k \in Keys /\ k \in Nodes /\ Linked(k, 0)
    BY <1>4, <1>12, Numbers DEF ListInv, Contents, TypeOK
  <2>8. CASE reader.pc = "at_or_after"
    <3>1. m = n
      BY <1>15, <2>2, <2>8
    <3>2. n # Null => n >= key
      BY <1>5, <1>7, <1>15
    <3>3. \A k \in seen : k >= key => n # Null /\ n <= k
      BY <1>4, <1>5, <1>8, <1>15, <2>7, Numbers
    <3>. QED  BY <1>3, <1>10, <2>2, <2>4, <2>6, <2>8, <3>1, <3>2, <3>3, ListAlone DEF SearchFinds
  <2>9. CASE reader.pc # "at_or_after"
    <3>1. m = IF x = head_ THEN Null ELSE x
      BY <1>15, <2>2, <2>9
    <3>2. ASSUME NEW k \in seen, k < key PROVE m # Null /\ m >= k
      <4>1. n # Null => key <= n
        BY <1>5, <1>7, <1>15
      <4>2. ~(x < k)
        BY <1>5, <1>7, <1>8, <1>15, <2>7, <3>2, <4>1, Numbers
      <4>3. head_ < k
        BY <2>7, Numbers
      <4>. QED  BY <2>7, <3>1, <4>2, <4>3, Numbers
    <3>3. m # Null => m < key
      BY <1>4, <3>1
    <3>. QED  BY <1>3, <1>10, <2>2, <2>4, <2>6, <2>9, <3>2, <3>3, ListAlone DEF SearchFinds
  <2>. QED  BY <2>8, <2>9
<1>. QED  BY <1>10, <1>13, <1>14, <1>15

\* The iterator moves along the list of level 0.
LEMMA MoveStep ==
  ASSUME SkipListAssumption, ListInv, NextNode \/ SeekToFirst
  PROVE  ListInv'
<1>1. PICK x \in Nodes : node_' = next_[x][0] /\ Linked(x, 0)
  <2>1. CASE NextNode
    BY <2>1, Numbers DEF NextNode, ListInv, ReaderInv, TypeOK
  <2>2. CASE SeekToFirst
    BY <2>2, Numbers DEF SeekToFirst, ListInv, Nested
  <2>. QED  BY <2>1, <2>2
<1>2. reader.pc = "idle" /\ UNCHANGED <<next_, max_height_, writer, prev, inserted, reader, seen>>
  BY DEF NextNode, SeekToFirst, list
<1>3. PICK n \in Keys \cup {Null} : n = next_[x][0] /\ (n # Null => n \in Nodes /\ Linked(n, 0))
  BY <1>1, Successor, Numbers DEF ListInv
<1>4. node_' # Null => Linked(node_, 0)'
  BY <1>1, <1>2, <1>3 DEF Linked
<1>5. TypeOK'
  BY <1>1, <1>2, <1>3 DEF ListInv, TypeOK
<1>6. ReaderInv'
  BY <1>2, <1>4 DEF ListInv, ReaderInv
<1>. QED  BY <1>2, <1>5, <1>6, ListAlone DEF list

-------------------------------------------------------------------------------
(* The theorem *)

LEMMA InitIsList ==
  ASSUME SkipListAssumption, Init
  PROVE  ListInv
<1>1. TypeOK
  <2>1. /\ Idle \in [pc : {"idle", "find", "height", "link", "publish"}, key : Nodes, x : Nodes,
                     level : Levels, height : 1..kMaxHeight]
        /\ NoSearch \in [pc : {"idle", "at_or_after", "before"}, key : Nodes \cup {Null},
                         x : Nodes, level : Levels]
        /\ 1 \in 1..kMaxHeight
    BY Numbers DEF Idle, NoSearch, head_, SkipListAssumption
  <2>. QED  BY <2>1, Numbers DEF Init, TypeOK
<1>2. \A x \in Nodes, i \in Levels :
        next_[x][i] = (IF x = head_ THEN Null ELSE Garbage) /\ (Linked(x, i) <=> x = head_)
  BY Numbers DEF Init, Linked, Idle
<1>3. Sorted
  BY <1>2, Numbers DEF Sorted, head_, Null, SkipListAssumption
<1>4. Nested
  BY <1>2, Numbers DEF Nested
<1>5. Contents
  BY <1>2, Numbers DEF Contents, Init
<1>6. WriterInv /\ ReaderInv
  BY DEF Init, WriterInv, ReaderInv, Idle, NoSearch
<1>. QED  BY <1>1, <1>3, <1>4, <1>5, <1>6 DEF ListInv

\* In the invariant's states no search reads garbage.
LEMMA ListHasNoGarbage ==
  ASSUME ListInv
  PROVE  NoGarbage
  BY DEF ListInv, WriterInv, ReaderInv, Linked, NoGarbage

LEMMA NextKeepsList ==
  ASSUME SkipListAssumption, ListInv, [Next]_vars
  PROVE  ListInv' /\ [SearchFinds]_vars
<1>1. ASSUME NEW k \in Keys, BeginInsert(k) PROVE ListInv' /\ SearchFinds
  BY <1>1, BeginInsertStep DEF BeginInsert, SearchFinds
<1>2. CASE FindPrev
  BY <1>2, FindPrevStep DEF FindPrev, SearchFinds
<1>3. ASSUME NEW h \in 1..kMaxHeight, ChooseHeight(h) PROVE ListInv' /\ SearchFinds
  BY <1>3, ChooseHeightStep DEF ChooseHeight, SearchFinds
<1>4. CASE Link
  BY <1>4, LinkStep DEF Link, SearchFinds
<1>5. CASE Publish
  BY <1>5, PublishStep DEF Publish, SearchFinds
<1>6. ASSUME NEW h \in 1..kMaxHeight, NEW k \in Keys, Seek(k, h) PROVE ListInv' /\ SearchFinds
  BY <1>6, BeginSearchStep DEF Seek, BeginSearch, SearchFinds
<1>7. ASSUME NEW h \in 1..kMaxHeight, Prev(h) PROVE ListInv' /\ SearchFinds
  <2>1. node_ \in Keys \cup {Null}
    BY DEF ListInv, TypeOK
  <2>. QED  BY <1>7, <2>1, BeginSearchStep DEF Prev, BeginSearch, SearchFinds
<1>8. ASSUME NEW h \in 1..kMaxHeight, SeekToLast(h) PROVE ListInv' /\ SearchFinds
  BY <1>8, BeginSearchStep DEF SeekToLast, BeginSearch, SearchFinds
<1>9. CASE Search
  BY <1>9, SearchStep
<1>10. CASE NextNode \/ SeekToFirst
  BY <1>10, MoveStep DEF NextNode, SeekToFirst, SearchFinds
<1>11. CASE UNCHANGED vars
  <2>1. UNCHANGED <<list, reader, node_, seen>>
    BY <1>11 DEF vars
  <2>2. UNCHANGED <<next_, max_height_, writer, prev, inserted>>
    BY <2>1 DEF list
  <2>3. TypeOK' /\ ReaderInv'
    BY <2>1, <2>2 DEF ListInv, TypeOK, ReaderInv, Linked
  <2>. QED  BY <1>11, <2>1, <2>3, ListAlone
<1>. QED
  BY <1>1, <1>2, <1>3, <1>4, <1>5, <1>6, <1>7, <1>8, <1>9, <1>10, <1>11 DEF Next, Insertion

\* SearchIsRight: whatever another thread inserts while a reader searches or moves along
\* the list, the reader never reads a link that was not set, and its search ends where the
\* keys that were in the list when it began say (SkipList::Insert sets a node's link before
\* it publishes the node, from the bottom level up).
THEOREM ConcurrentSearchIsRight ==
  ASSUME SkipListAssumption
  PROVE  Spec => SearchIsRight
<1>1. Init => ListInv
  BY InitIsList
<1>2. ListInv /\ [Next]_vars => ListInv'
  BY NextKeepsList
<1>3. ListInv /\ [Next]_vars => [SearchFinds]_vars
  BY NextKeepsList
<1>4. ListInv => NoGarbage
  BY ListHasNoGarbage
<1>. QED  BY <1>1, <1>2, <1>3, <1>4, PTL DEF Spec, SearchIsRight

-------------------------------------------------------------------------------
(* The arena that the nodes lie in *)

CONSTANTS BlockSize, Align, MaxBytes, MaxBlocks
VARIABLES blocks, block, ptr, remaining, last, top

Memory == INSTANCE Arena

\* Max of two numbers
LEMMA LargerOfTwo ==
  ASSUME NEW a \in Int, NEW b \in Int
  PROVE  Memory!Max({a, b}) \in {a, b} /\ Memory!Max({a, b}) >= a /\ Memory!Max({a, b}) >= b
<1>1. \E x \in {a, b} : \A y \in {a, b} : x >= y
  <2>1. CASE a >= b
    BY <2>1
  <2>2. CASE b >= a
    BY <2>2
  <2>. QED BY <2>1, <2>2
<1>2. Memory!Max({a, b}) \in {a, b} /\ \A y \in {a, b} : Memory!Max({a, b}) >= y
  BY <1>1, Zenon DEF Memory!Max
<1>. QED BY <1>2


\* AllocateAligned: the slop brings a pointer to the next multiple of the alignment.
LEMMA SlopAligns ==
  ASSUME NEW p \in Nat, NEW a \in Nat \ {0}
  PROVE  p % a \in 0..a - 1 /\ (p + (a - (p % a))) % a = 0
<1>1. p % a \in 0..a - 1
  OBVIOUS
<1>2. (p + (a - (p % a))) % a = 0
  BY Z3T(30)
<1>. QED  BY <1>1, <1>2

\* The blocks' sizes, and how far each has been handed out: what is left of the current
\* block lies between the two.
ArenaInv ==
  /\ blocks \in Seq(Nat) /\ top \in Seq(Nat) /\ Len(top) = Len(blocks)
  /\ ptr \in Nat /\ remaining \in Nat /\ block \in 0..Len(blocks)
  /\ block = 0 => ptr = 0 /\ remaining = 0
  /\ block # 0 => top[block] <= ptr /\ ptr + remaining <= blocks[block]

\* HandOut in the current block, or at the start of a new one
LEMMA CutStep ==
  ASSUME Memory!ArenaAssumption, ArenaInv, NEW slop \in Nat, NEW bytes \in Nat \ {0},
         NEW aligned \in BOOLEAN, slop + bytes <= remaining,
         aligned => (ptr + slop) % Align = 0, Memory!Cut(slop, bytes, aligned)
  PROVE  ArenaInv' /\ Memory!NewPiece
<1>1. /\ UNCHANGED <<blocks, block>>
      /\ last' = [block |-> block, from |-> ptr + slop, to |-> ptr + slop + bytes, aligned |-> aligned]
      /\ top' = [i \in DOMAIN blocks |->
                   IF i = block THEN Memory!Max({ptr + slop + bytes, IF i \in DOMAIN top THEN top[i] ELSE 0})
                   ELSE top[i]]
      /\ ptr' = ptr + slop + bytes /\ remaining' = remaining - (slop + bytes)
  BY DEF Memory!Cut, Memory!HandOut
<1>2. block \in 1..Len(blocks) /\ block \in DOMAIN top /\ DOMAIN blocks = 1..Len(blocks)
      /\ DOMAIN top = 1..Len(blocks)
  BY DEF ArenaInv
<1>3. top[block] \in Nat /\ top[block] <= ptr /\ ptr + remaining <= blocks[block]
      /\ blocks[block] \in Nat
  BY <1>2 DEF ArenaInv
<1>4. Memory!Max({ptr + slop + bytes, top[block]}) = ptr + slop + bytes
  <2>1. ptr + slop + bytes \in Int /\ top[block] \in Int /\ top[block] <= ptr + slop + bytes
    BY <1>3 DEF ArenaInv
  <2>2. PICK new \in Int : new = ptr + slop + bytes
    BY <2>1
  <2>3. PICK old \in Int : old = top[block]
    BY <2>1
  <2>4. Memory!Max({new, old}) \in {new, old} /\ Memory!Max({new, old}) >= new
    BY LargerOfTwo
  <2>5. Memory!Max({new, old}) = new
    BY <2>1, <2>2, <2>3, <2>4
  <2>. QED  BY <2>2, <2>3, <2>5
<1>5. top' = [i \in 1..Len(blocks) |-> IF i = block THEN ptr + slop + bytes ELSE top[i]]
  BY <1>1, <1>2, <1>4
<1>6. top' \in Seq(Nat) /\ Len(top') = Len(blocks)
  BY <1>2, <1>5 DEF ArenaInv
<1>7. top'[block] = ptr + slop + bytes
  BY <1>2, <1>5
<1>8. ptr' \in Nat /\ remaining' \in Nat /\ ptr' + remaining' = ptr + remaining
  BY <1>1 DEF ArenaInv
<1>9. ArenaInv'
  <2>1. blocks' = blocks /\ block' = block
    BY <1>1
  <2>2. ptr' + remaining' <= blocks[block] /\ top'[block] <= ptr' /\ block # 0
    BY <1>1, <1>2, <1>3, <1>7, <1>8
  <2>. QED  BY <1>6, <1>8, <2>1, <2>2 DEF ArenaInv
<1>10. Memory!NewPiece
  BY <1>1, <1>2, <1>3 DEF Memory!NewPiece, ArenaInv
<1>. QED  BY <1>9, <1>10

LEMMA FallbackStep ==
  ASSUME Memory!ArenaAssumption, ArenaInv, NEW bytes \in Nat \ {0},
         NEW aligned \in BOOLEAN, Memory!Fallback(bytes, aligned)
  PROVE  ArenaInv' /\ Memory!NewPiece
<1>1. PICK size \in Nat :
        /\ blocks' = Append(blocks, size) /\ bytes <= size
        /\ \/ UNCHANGED <<block, ptr, remaining>>
           \/ block' = Len(blocks') /\ ptr' = bytes /\ remaining' = size - bytes
        /\ Memory!HandOut(Len(blocks'), 0, bytes, aligned)
  <2>1. BlockSize \in Nat /\ BlockSize \div 4 <= BlockSize
    BY DEF Memory!ArenaAssumption
  <2>2. CASE bytes > BlockSize \div 4
    <3>1. /\ blocks' = Append(blocks, bytes) /\ bytes \in Nat /\ bytes <= bytes
          /\ UNCHANGED <<block, ptr, remaining>>
          /\ Memory!HandOut(Len(blocks'), 0, bytes, aligned)
      BY <2>1, <2>2 DEF Memory!Fallback, Memory!NewBlock
    <3>. QED  BY <3>1
  <2>3. CASE ~(bytes > BlockSize \div 4)
    BY <2>1, <2>3 DEF Memory!Fallback, Memory!NewBlock
  <2>. QED  BY <2>2, <2>3
<1>2. PICK n \in Nat : n = Len(blocks)
  BY DEF ArenaInv
<1>3. /\ Len(blocks') = n + 1 /\ blocks' \in Seq(Nat) /\ blocks'[n + 1] = size
      /\ \A i \in 1..n : blocks'[i] = blocks[i]
      /\ DOMAIN blocks' = 1..n + 1 /\ DOMAIN top = 1..n
  BY <1>1, <1>2 DEF ArenaInv
<1>4. /\ last' = [block |-> n + 1, from |-> 0, to |-> 0 + bytes, aligned |-> aligned]
      /\ top' = [i \in 1..n + 1 |->
                   IF i = n + 1 THEN Memory!Max({0 + bytes, IF i \in DOMAIN top THEN top[i] ELSE 0})
                   ELSE top[i]]
  BY <1>1, <1>3 DEF Memory!HandOut
<1>5. Memory!Max({0 + bytes, 0}) = bytes
  <2>1. 0 + bytes = bytes /\ bytes \in Int /\ 0 \in Int /\ bytes >= 0
    OBVIOUS
  <2>2. Memory!Max({bytes, 0}) \in {bytes, 0} /\ Memory!Max({bytes, 0}) >= bytes
    BY <2>1, LargerOfTwo, Zenon
  <2>. QED  BY <2>1, <2>2
<1>6. /\ \A i \in 1..n : top'[i] = top[i]
      /\ top'[n + 1] = bytes
  BY <1>3, <1>4, <1>5
<1>7. top' \in Seq(Nat) /\ Len(top') = n + 1
  <2>1. \A i \in 1..n : top[i] \in Nat
    BY <1>2, <1>3 DEF ArenaInv
  <2>2. \A i \in 1..n + 1 : top'[i] \in Nat
    BY <1>6, <2>1
  <2>3. top' \in [1..n + 1 -> Nat]
    BY <1>4, <2>2
  <2>. QED  BY <2>3
<1>8. ArenaInv'
  <2>1. CASE UNCHANGED <<block, ptr, remaining>>
    BY <1>2, <1>3, <1>6, <1>7, <2>1 DEF ArenaInv
  <2>2. CASE block' = Len(blocks') /\ ptr' = bytes /\ remaining' = size - bytes
    BY <1>1, <1>2, <1>3, <1>6, <1>7, <2>2 DEF ArenaInv
  <2>. QED  BY <1>1, <2>1, <2>2
<1>9. 0 % Align = 0
  BY DEF Memory!ArenaAssumption
<1>10. Memory!NewPiece
  BY <1>1, <1>3, <1>4, <1>9 DEF Memory!NewPiece
<1>. QED  BY <1>8, <1>10

\* PieceIsNew: every piece of memory that Allocate and AllocateAligned return lies within
\* one block, above everything handed out of that block before, and is aligned if asked
\* for, for blocks, alignments and requests of any size (Arena::AllocateFallback gives a
\* large request a block of its own and keeps the current one).
THEOREM PiecesAreNew ==
  ASSUME Memory!ArenaAssumption
  PROVE  Memory!Spec => Memory!PieceIsNew
<1>1. Memory!Init => ArenaInv
  BY DEF Memory!Init, ArenaInv
<1>2. ASSUME ArenaInv, [Memory!Next]_(Memory!vars)
      PROVE  ArenaInv' /\ [Memory!NewPiece]_(Memory!vars)
  <2>0. \A bytes \in 1..MaxBytes : bytes \in Nat \ {0}
    BY DEF Memory!ArenaAssumption
  <2>1. ASSUME NEW bytes \in 1..MaxBytes, Memory!Allocate(bytes)
        PROVE  ArenaInv' /\ Memory!NewPiece
    <3>1. CASE bytes <= remaining
      <4>1. Memory!Cut(0, bytes, FALSE)
        BY <2>1, <3>1 DEF Memory!Allocate
      <4>2. 0 + bytes <= remaining
        BY <3>1, <2>0
      <4>. QED  BY <1>2, <2>0, <4>1, <4>2, CutStep
    <3>2. CASE ~(bytes <= remaining)
      <4>1. Memory!Fallback(bytes, FALSE)
        BY <2>1, <3>2 DEF Memory!Allocate
      <4>. QED  BY <1>2, <2>0, <4>1, FallbackStep
    <3>. QED  BY <3>1, <3>2
  <2>2. ASSUME NEW bytes \in 1..MaxBytes, Memory!AllocateAligned(bytes)
        PROVE  ArenaInv' /\ Memory!NewPiece
    <3>1. PICK slop \in Nat :
            /\ (ptr + slop) % Align = 0
            /\ IF slop + bytes <= remaining THEN Memory!Cut(slop, bytes, TRUE)
               ELSE Memory!Fallback(bytes, TRUE)
      <4>1. ptr \in Nat /\ Align \in Nat \ {0}
        BY <1>2 DEF ArenaInv, Memory!ArenaAssumption
      <4>2. PICK slop : slop = IF ptr % Align = 0 THEN 0 ELSE Align - (ptr % Align)
        OBVIOUS
      <4>3. ptr % Align \in 0..Align - 1 /\ (ptr + (Align - (ptr % Align))) % Align = 0
        BY <4>1, SlopAligns
      <4>4. slop \in Nat /\ (ptr + slop) % Align = 0
        BY <4>1, <4>2, <4>3
      <4>. QED  BY <2>2, <4>2, <4>4 DEF Memory!AllocateAligned
    <3>2. bytes \in Nat \ {0}
      BY <2>0
    <3>3. CASE slop + bytes <= remaining
      BY <1>2, <3>1, <3>2, <3>3, CutStep
    <3>4. CASE ~(slop + bytes <= remaining)
      BY <1>2, <3>1, <3>2, <3>4, FallbackStep
    <3>. QED  BY <3>3, <3>4
  <2>3. CASE UNCHANGED Memory!vars
    BY <1>2, <2>3 DEF ArenaInv, Memory!vars
  <2>. QED  BY <1>2, <2>1, <2>2, <2>3 DEF Memory!Next
<1>3. ArenaInv /\ [Memory!Next]_(Memory!vars) => ArenaInv'
  BY <1>2
<1>4. ArenaInv /\ [Memory!Next]_(Memory!vars) => [Memory!NewPiece]_(Memory!vars)
  BY <1>2
<1>. QED  BY <1>1, <1>3, <1>4, PTL DEF Memory!Spec, Memory!PieceIsNew
===============================================================================

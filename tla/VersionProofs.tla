----------------------------- MODULE VersionProofs -----------------------------
(***************************************************************************)
(* The lifetime of versions, files and memtables, for any number of        *)
(* readers, levels, tables and versions.                                   *)
(***************************************************************************)
EXTENDS Versions, FiniteSetTheorems, TLAPS

-------------------------------------------------------------------------------
(* Heaps *)

Ids == Nat \ {Nil}

VersionRecords ==
  [files : [Levels -> SUBSET Ids], refs : Nat, to_compact : [level : Levels, file : Nat]]
FileRecords == [number : Nat, refs : Nat, seeks : Nat]

Objects(f) == f = [i \in DOMAIN f |-> f[i]] /\ DOMAIN f \subseteq Ids /\ IsFiniteSet(DOMAIN f)

HeapTypes(h) ==
  /\ h = [v |-> h.v, f |-> h.f, m |-> h.m]
  /\ Objects(h.v) /\ \A i \in DOMAIN h.v : h.v[i] \in VersionRecords
  /\ Objects(h.f) /\ \A o \in DOMAIN h.f : h.f[o] \in FileRecords
  /\ Objects(h.m) /\ \A i \in DOMAIN h.m : h.m[i] \in Nat

\* The versions that have a file
Users(h, o) == {i \in DOMAIN h.v : o \in FilesOf(h.v[i])}

FilesCounted(h) ==
  /\ \A i \in DOMAIN h.v : FilesOf(h.v[i]) \subseteq DOMAIN h.f
  /\ \A o \in DOMAIN h.f : h.f[o].refs = Cardinality(Users(h, o))

Candidates(h) ==
  \A i \in DOMAIN h.v :
    h.v[i].to_compact.file # Nil =>
      /\ h.v[i].to_compact.level < LastLevel
      /\ h.v[i].to_compact.file \in h.v[i].files[h.v[i].to_compact.level]

\* A version has a table once, at one level.
TablesOnce(h) ==
  \A i \in DOMAIN h.v, k, l \in Levels : \A o \in h.v[i].files[k], p \in h.v[i].files[l] :
    h.f[o].number = h.f[p].number => o = p /\ k = l

HeapInv(h) == HeapTypes(h) /\ FilesCounted(h) /\ Candidates(h) /\ TablesOnce(h)

\* References to versions, and to memtables, are those of the holders that H gives for each.
VersionsCounted(h, H) ==
  /\ \A i \in DOMAIN h.v : h.v[i].refs = Cardinality(H[i])
  /\ \A i \in Ids : IsFiniteSet(H[i]) /\ (H[i] # {} => i \in DOMAIN h.v)

MemsCounted(h, K) ==
  /\ \A i \in DOMAIN h.m : h.m[i] = Cardinality(K[i])
  /\ \A i \in Ids : IsFiniteSet(K[i]) /\ (K[i] # {} => i \in DOMAIN h.m)

\* One more holder x for i, and one less
Plus(H, i, x) == [j \in Ids |-> IF j = i THEN H[j] \cup {x} ELSE H[j]]
Minus(H, i, x) == [j \in Ids |-> IF j = i THEN H[j] \ {x} ELSE H[j]]

\* What is in g is in h: versions with these files, and files with these numbers.
PartOf(g, h) ==
  /\ DOMAIN g.v \subseteq DOMAIN h.v /\ \A i \in DOMAIN g.v : g.v[i].files = h.v[i].files
  /\ DOMAIN g.f \subseteq DOMAIN h.f /\ \A o \in DOMAIN g.f : g.f[o].number = h.f[o].number

\* A part of a part is a part.
LEMMA PartOfTransitive ==
  ASSUME NEW f, NEW g, NEW h, PartOf(f, g), PartOf(g, h)
  PROVE  PartOf(f, h)
BY DEF PartOf

\* The tables of a part are tables of the whole.
LEMMA PartOfLive ==
  ASSUME NEW g, NEW h, PartOf(g, h), FilesCounted(g)
  PROVE  LiveNumbers(g) \subseteq LiveNumbers(h)
<1>. SUFFICES ASSUME NEW i \in DOMAIN g.v, NEW o \in FilesOf(g.v[i])
              PROVE  g.f[o].number \in LiveNumbers(h)
  BY DEF LiveNumbers
<1>1. i \in DOMAIN h.v /\ FilesOf(h.v[i]) = FilesOf(g.v[i])
  BY DEF PartOf, FilesOf
<1>2. g.f[o].number = h.f[o].number
  BY DEF PartOf, FilesCounted
<1>. QED  BY <1>1, <1>2 DEF LiveNumbers

\* A file of a version is at one of its levels.
LEMMA FilesOfMember ==
  ASSUME NEW v, NEW o
  PROVE  o \in FilesOf(v) <=> \E l \in Levels : o \in v.files[l]
BY DEF FilesOf

\* A free address
LEMMA AllocIsFree ==
  ASSUME NEW f, IsFiniteSet(DOMAIN f)
  PROVE  Alloc(f) \in Ids /\ Alloc(f) \notin DOMAIN f
<1>. DEFINE n == Cardinality(DOMAIN f)
<1>1. n \in Nat
  BY FS_CardinalityType
<1>2. IsFiniteSet(1..(n + 1)) /\ Cardinality(1..(n + 1)) = n + 1
  BY <1>1, FS_Interval
<1>3. ~(1..(n + 1) \subseteq DOMAIN f)
  BY <1>1, <1>2, FS_Subset
<1>4. \E i \in 1..(n + 1) : i \notin DOMAIN f
  BY <1>3
<1>5. Alloc(f) \in 1..(n + 1) /\ Alloc(f) \notin DOMAIN f
  BY <1>4 DEF Alloc
<1>. QED  BY <1>1, <1>5 DEF Ids, Nil

-------------------------------------------------------------------------------
(* Version::Ref and Version::Unref *)

\* Changes of the versions that leave their files, and all files, as they are.
LEMMA SameFiles ==
  ASSUME NEW h, HeapInv(h), NEW w, DOMAIN w = DOMAIN h.v, Objects(w),
         \A i \in DOMAIN w : w[i] \in VersionRecords /\ w[i].files = h.v[i].files
                               /\ w[i].to_compact = h.v[i].to_compact
  PROVE  LET g == [v |-> w, f |-> h.f, m |-> h.m] IN HeapInv(g) /\ PartOf(g, h)
<1>. DEFINE g == [v |-> w, f |-> h.f, m |-> h.m]
<1>1. g.v = w /\ g.f = h.f /\ g.m = h.m
  OBVIOUS
<1>2. HeapTypes(g)
  BY DEF HeapInv, HeapTypes
<1>3. \A i \in DOMAIN w : FilesOf(w[i]) = FilesOf(h.v[i])
  BY DEF FilesOf
<1>4. \A o : Users(g, o) = Users(h, o)
  BY <1>1, <1>3 DEF Users
<1>. HIDE DEF g
<1>5. FilesCounted(g)
  BY <1>1, <1>3, <1>4 DEF HeapInv, FilesCounted
<1>6. Candidates(g) /\ TablesOnce(g)
  BY <1>1 DEF HeapInv, Candidates, TablesOnce
<1>7. PartOf(g, h)
  BY <1>1 DEF PartOf
<1>. QED  BY <1>2, <1>5, <1>6, <1>7 DEF HeapInv, g

\* Ref changes nothing but one count.
LEMMA RefKeeps ==
  ASSUME NEW h, HeapInv(h), NEW i \in DOMAIN h.v
  PROVE  /\ HeapInv(Ref(h, i)) /\ PartOf(Ref(h, i), h) /\ PartOf(h, Ref(h, i))
         /\ Ref(h, i).m = h.m /\ Ref(h, i).f = h.f /\ DOMAIN Ref(h, i).v = DOMAIN h.v
         /\ \A j \in DOMAIN h.v : Ref(h, i).v[j].refs = IF j = i THEN h.v[j].refs + 1 ELSE h.v[j].refs
<1>. DEFINE w == [h.v EXCEPT ![i].refs = @ + 1]
<1>0. HeapTypes(h)
  BY DEF HeapInv
<1>1. h.v[i] \in VersionRecords
  BY <1>0 DEF HeapTypes
<1>2. [h.v[i] EXCEPT !.refs = @ + 1] \in VersionRecords
  BY <1>1 DEF VersionRecords
<1>3. DOMAIN w = DOMAIN h.v /\ Objects(w)
  BY <1>0 DEF HeapTypes, Objects
<1>4. \A j \in DOMAIN w : /\ w[j] \in VersionRecords /\ w[j].files = h.v[j].files
                         /\ w[j].to_compact = h.v[j].to_compact
                         /\ w[j].refs = IF j = i THEN h.v[j].refs + 1 ELSE h.v[j].refs
  <2>. SUFFICES ASSUME NEW j \in DOMAIN h.v
                PROVE  /\ w[j] \in VersionRecords /\ w[j].files = h.v[j].files
                       /\ w[j].to_compact = h.v[j].to_compact
                       /\ w[j].refs = IF j = i THEN h.v[j].refs + 1 ELSE h.v[j].refs
    BY <1>3
  <2>1. CASE j # i
    BY <1>0, <2>1 DEF HeapTypes
  <2>2. CASE j = i
    <3>1. w[j] = [h.v[j] EXCEPT !.refs = @ + 1]
      BY <2>2
    <3>. QED  BY <1>1, <1>2, <2>2, <3>1 DEF VersionRecords
  <2>. QED  BY <2>1, <2>2
<1>5. Ref(h, i) = [v |-> w, f |-> h.f, m |-> h.m]
  BY <1>0 DEF HeapTypes, Ref
<1>. HIDE DEF w
<1>6. HeapInv(Ref(h, i)) /\ PartOf(Ref(h, i), h)
  BY <1>3, <1>4, <1>5, SameFiles
<1>7. PartOf(h, Ref(h, i))
  BY <1>3, <1>4, <1>5 DEF PartOf
<1>. QED  BY <1>3, <1>4, <1>5, <1>6, <1>7

\* Ref records a new holder.
LEMMA RefCounts ==
  ASSUME NEW h, HeapInv(h), NEW i \in DOMAIN h.v, NEW H, VersionsCounted(h, H),
         NEW x, x \notin H[i]
  PROVE  VersionsCounted(Ref(h, i), Plus(H, i, x))
<1>. SUFFICES ASSUME NEW G, \A j \in Ids : G[j] = IF j = i THEN H[j] \cup {x} ELSE H[j]
              PROVE  VersionsCounted(Ref(h, i), G)
  BY DEF Plus
<1>1. DOMAIN h.v \subseteq Ids
  BY DEF HeapInv, HeapTypes, Objects
<1>2. \A j \in Ids : IsFiniteSet(H[j]) /\ IsFiniteSet(G[j])
  <2>1. \A j \in Ids : IsFiniteSet(H[j])
    BY DEF VersionsCounted
  <2>2. \A j \in Ids : IsFiniteSet(H[j] \cup {x})
    BY <2>1, FS_AddElement
  <2>. QED  BY <2>1, <2>2
<1>3. Cardinality(G[i]) = Cardinality(H[i]) + 1
  BY <1>1, <1>2, FS_AddElement
<1>4. \A j \in DOMAIN h.v : j # i => G[j] = H[j]
  BY <1>1
<1>5. \A j \in Ids : G[j] # {} => j \in DOMAIN h.v
  BY DEF VersionsCounted
<1>. QED  BY <1>2, <1>3, <1>4, <1>5, RefKeeps DEF VersionsCounted

\* Version::~Version: each file of the version loses a reference, the last one takes it along.
LEMMA DeleteKeeps ==
  ASSUME NEW h, HeapInv(h), NEW i \in DOMAIN h.v
  PROVE  LET g == DeleteVersion(h, i)
         IN  /\ HeapInv(g) /\ PartOf(g, h) /\ g.m = h.m /\ DOMAIN g.v = DOMAIN h.v \ {i}
             /\ \A j \in DOMAIN g.v : g.v[j] = h.v[j]
<1>. DEFINE D == FilesOf(h.v[i])
            w == Without(h.v, i)
            fs == DropFiles(h.f, D)
            g == [v |-> w, f |-> fs, m |-> h.m]
<1>0. HeapTypes(h) /\ FilesCounted(h) /\ Candidates(h) /\ TablesOnce(h)
  BY DEF HeapInv
<1>1. g = DeleteVersion(h, i) /\ g.v = w /\ g.f = fs /\ g.m = h.m
  <2>1. DeleteVersion(h, i) = [h EXCEPT !.v = w, !.f = fs]
    BY DEF DeleteVersion
  <2>2. h = [v |-> h.v, f |-> h.f, m |-> h.m]
    BY <1>0 DEF HeapTypes
  <2>. HIDE DEF w, fs
  <2>. QED  BY <2>1, <2>2
<1>2. DOMAIN w = DOMAIN h.v \ {i} /\ \A j \in DOMAIN w : w[j] = h.v[j]
  BY DEF Without
<1>3. \A o \in DOMAIN h.f : o \in DOMAIN fs <=> ~(o \in D /\ h.f[o].refs = 1)
  BY DEF DropFiles
<1>4. DOMAIN fs \subseteq DOMAIN h.f
  BY DEF DropFiles
<1>5. \A o \in DOMAIN fs : fs[o] = IF o \in D THEN [h.f[o] EXCEPT !.refs = @ - 1] ELSE h.f[o]
  BY DEF DropFiles
<1>6. \A o \in DOMAIN h.f : /\ IsFiniteSet(Users(h, o)) /\ Cardinality(Users(h, o)) \in Nat
                           /\ Cardinality(Users(h, o) \ {i}) =
                                IF o \in D THEN Cardinality(Users(h, o)) - 1 ELSE Cardinality(Users(h, o))
  <2>. SUFFICES ASSUME NEW o \in DOMAIN h.f
                PROVE  /\ IsFiniteSet(Users(h, o)) /\ Cardinality(Users(h, o)) \in Nat
                       /\ Cardinality(Users(h, o) \ {i}) =
                            IF o \in D THEN Cardinality(Users(h, o)) - 1 ELSE Cardinality(Users(h, o))
    OBVIOUS
  <2>1. IsFiniteSet(Users(h, o))
    BY <1>0, FS_Subset DEF HeapTypes, Objects, Users
  <2>2. i \in Users(h, o) <=> o \in D
    BY DEF Users
  <2>. QED  BY <2>1, <2>2, FS_RemoveElement, FS_CardinalityType
<1>7. \A o : Users(g, o) = Users(h, o) \ {i}
  BY <1>1, <1>2 DEF Users
<1>8. \A o \in DOMAIN fs : /\ fs[o] \in FileRecords /\ fs[o].number = h.f[o].number
                          /\ fs[o].refs = Cardinality(Users(g, o))
  <2>. SUFFICES ASSUME NEW o \in DOMAIN fs
                PROVE  /\ fs[o] \in FileRecords /\ fs[o].number = h.f[o].number
                       /\ fs[o].refs = Cardinality(Users(g, o))
    OBVIOUS
  <2>1. o \in DOMAIN h.f /\ h.f[o] \in FileRecords /\ h.f[o].refs = Cardinality(Users(h, o))
    BY <1>0, <1>4 DEF HeapTypes, FilesCounted
  <2>2. CASE o \in D
    <3>1. h.f[o].refs # 1 /\ i \in Users(h, o)
      BY <1>3, <2>1, <2>2 DEF Users
    <3>2. h.f[o].refs - 1 \in Nat
      <4>1. Cardinality(Users(h, o)) \in Nat /\ Cardinality(Users(h, o)) # 0
        BY <1>6, <2>1, <3>1, FS_EmptySet
      <4>. QED  BY <2>1, <4>1
    <3>3. fs[o] = [h.f[o] EXCEPT !.refs = @ - 1]
      BY <1>5, <2>2
    <3>. HIDE DEF fs
    <3>4. fs[o] \in FileRecords /\ fs[o].number = h.f[o].number /\ fs[o].refs = h.f[o].refs - 1
      BY <2>1, <3>2, <3>3 DEF FileRecords
    <3>. QED  BY <1>6, <1>7, <2>1, <2>2, <3>4
  <2>3. CASE o \notin D
    BY <1>5, <1>6, <1>7, <2>1, <2>3
  <2>. QED  BY <2>2, <2>3
<1>9. \A j \in DOMAIN w : FilesOf(w[j]) \subseteq DOMAIN fs
  <2>. SUFFICES ASSUME NEW j \in DOMAIN w, NEW o \in FilesOf(w[j]) PROVE o \in DOMAIN fs
    OBVIOUS
  <2>1. j \in DOMAIN h.v /\ j # i /\ o \in FilesOf(h.v[j])
    BY <1>2
  <2>2. o \in DOMAIN h.f
    BY <1>0, <2>1 DEF FilesCounted
  <2>3. ASSUME o \in D PROVE h.f[o].refs # 1
    <3>1. i \in Users(h, o) /\ j \in Users(h, o)
      BY <2>1, <2>3 DEF Users
    <3>2. Users(h, o) \ {i} # {} /\ IsFiniteSet(Users(h, o) \ {i})
      BY <1>6, <2>1, <2>2, <3>1, FS_RemoveElement
    <3>3. Cardinality(Users(h, o) \ {i}) # 0
      BY <3>2, FS_EmptySet
    <3>. QED  BY <1>0, <1>6, <2>2, <2>3, <3>3 DEF FilesCounted
  <2>. QED  BY <1>3, <2>2, <2>3
<1>. HIDE DEF w, fs, D
<1>10. HeapTypes(g)
  <2>1. Objects(w)
    BY <1>0, <1>2, FS_RemoveElement DEF HeapTypes, Objects, w, Without
  <2>2. Objects(fs)
    BY <1>0, <1>4, FS_Subset DEF HeapTypes, Objects, fs, DropFiles
  <2>. QED  BY <1>0, <1>2, <1>8, <2>1, <2>2 DEF HeapTypes
<1>11. FilesCounted(g)
  BY <1>1, <1>8, <1>9 DEF FilesCounted
<1>12. Candidates(g)
  BY <1>0, <1>1, <1>2 DEF Candidates
<1>13. PartOf(g, h)
  BY <1>1, <1>2, <1>4, <1>8 DEF PartOf
<1>14. TablesOnce(g)
  <2>. SUFFICES ASSUME NEW j \in DOMAIN w, NEW k \in Levels, NEW l \in Levels,
                       NEW o \in w[j].files[k], NEW p \in w[j].files[l], fs[o].number = fs[p].number
                PROVE  o = p /\ k = l
    BY <1>1 DEF TablesOnce
  <2>1. o \in DOMAIN fs /\ p \in DOMAIN fs
    BY <1>9 DEF FilesOf
  <2>2. h.f[o].number = h.f[p].number
    BY <1>8, <2>1
  <2>. QED  BY <1>0, <1>2, <2>2 DEF TablesOnce
<1>. QED  BY <1>1, <1>2, <1>10, <1>11, <1>12, <1>13, <1>14 DEF HeapInv

\* A version that is deleted has no holders, and the others keep theirs.
LEMMA DeleteCounts ==
  ASSUME NEW h, HeapInv(h), NEW i \in DOMAIN h.v, NEW H, VersionsCounted(h, H), NEW G,
         \A j \in Ids : G[j] = IF j = i THEN {} ELSE H[j]
  PROVE  VersionsCounted(DeleteVersion(h, i), G)
<1>1. DOMAIN h.v \subseteq Ids
  BY DEF HeapInv, HeapTypes, Objects
<1>2. \A j \in DOMAIN h.v : j # i => G[j] = H[j]
  BY <1>1
<1>3. \A j \in Ids : IsFiniteSet(G[j]) /\ (G[j] # {} => j \in DOMAIN h.v \ {i})
  BY FS_EmptySet DEF VersionsCounted
<1>. QED  BY <1>2, <1>3, DeleteKeeps DEF VersionsCounted

\* Unref takes a holder away, and deletes the version with its last one.
LEMMA UnrefKeeps ==
  ASSUME NEW h, HeapInv(h), NEW i \in DOMAIN h.v, NEW H, VersionsCounted(h, H),
         NEW x, x \in H[i]
  PROVE  LET g == Unref(h, i)
             G == Minus(H, i, x)
         IN  /\ HeapInv(g) /\ PartOf(g, h) /\ g.m = h.m /\ VersionsCounted(g, G)
             /\ DOMAIN g.v = IF G[i] = {} THEN DOMAIN h.v \ {i} ELSE DOMAIN h.v
<1>. SUFFICES ASSUME NEW G, \A j \in Ids : G[j] = IF j = i THEN H[j] \ {x} ELSE H[j]
              PROVE  LET g == Unref(h, i)
                     IN  /\ HeapInv(g) /\ PartOf(g, h) /\ g.m = h.m /\ VersionsCounted(g, G)
                         /\ DOMAIN g.v = IF G[i] = {} THEN DOMAIN h.v \ {i} ELSE DOMAIN h.v
  BY DEF Minus
<1>0. HeapTypes(h) /\ DOMAIN h.v \subseteq Ids
  BY DEF HeapInv, HeapTypes, Objects
<1>1. /\ IsFiniteSet(H[i]) /\ IsFiniteSet(G[i]) /\ Cardinality(H[i]) \in Nat
      /\ Cardinality(G[i]) = Cardinality(H[i]) - 1 /\ Cardinality(H[i]) # 0
      /\ h.v[i].refs = Cardinality(H[i])
  <2>1. IsFiniteSet(H[i]) /\ h.v[i].refs = Cardinality(H[i]) /\ G[i] = H[i] \ {x}
    BY <1>0 DEF VersionsCounted
  <2>. QED  BY <2>1, FS_RemoveElement, FS_CardinalityType, FS_EmptySet
<1>2. CASE h.v[i].refs > 1
  <2>. DEFINE w == [h.v EXCEPT ![i].refs = @ - 1]
  <2>1. h.v[i] \in VersionRecords /\ h.v[i].refs - 1 \in Nat
    BY <1>0, <1>1, <1>2 DEF HeapTypes
  <2>2. [h.v[i] EXCEPT !.refs = @ - 1] \in VersionRecords
    BY <2>1 DEF VersionRecords
  <2>3. DOMAIN w = DOMAIN h.v /\ Objects(w)
    BY <1>0 DEF HeapTypes, Objects
  <2>4. \A j \in DOMAIN w : /\ w[j] \in VersionRecords /\ w[j].files = h.v[j].files
                           /\ w[j].to_compact = h.v[j].to_compact
                           /\ w[j].refs = IF j = i THEN h.v[j].refs - 1 ELSE h.v[j].refs
    <3>. SUFFICES ASSUME NEW j \in DOMAIN h.v
                  PROVE  /\ w[j] \in VersionRecords /\ w[j].files = h.v[j].files
                         /\ w[j].to_compact = h.v[j].to_compact
                         /\ w[j].refs = IF j = i THEN h.v[j].refs - 1 ELSE h.v[j].refs
      BY <2>3
    <3>1. CASE j # i
      BY <1>0, <3>1 DEF HeapTypes
    <3>2. CASE j = i
      <4>1. w[j] = [h.v[j] EXCEPT !.refs = @ - 1]
        BY <3>2
      <4>. QED  BY <2>1, <2>2, <3>2, <4>1 DEF VersionRecords
    <3>. QED  BY <3>1, <3>2
  <2>5. Unref(h, i) = [v |-> w, f |-> h.f, m |-> h.m]
    BY <1>0, <1>2 DEF HeapTypes, Unref
  <2>. HIDE DEF w
  <2>6. HeapInv(Unref(h, i)) /\ PartOf(Unref(h, i), h)
    BY <2>3, <2>4, <2>5, SameFiles
  <2>7. G[i] # {}
    BY <1>1, <1>2, FS_EmptySet
  <2>8. \A j \in Ids : IsFiniteSet(G[j]) /\ (G[j] # {} => j \in DOMAIN h.v)
    BY <1>1 DEF VersionsCounted
  <2>9. \A j \in DOMAIN h.v : w[j].refs = Cardinality(G[j])
    BY <1>0, <1>1, <2>3, <2>4 DEF VersionsCounted
  <2>. QED  BY <2>3, <2>5, <2>6, <2>7, <2>8, <2>9 DEF VersionsCounted
<1>3. CASE ~(h.v[i].refs > 1)
  <2>1. Unref(h, i) = DeleteVersion(h, i)
    BY <1>3 DEF Unref
  <2>2. G[i] = {}
    BY <1>1, <1>3, FS_EmptySet
  <2>3. \A j \in Ids : G[j] = IF j = i THEN {} ELSE H[j]
    BY <2>2
  <2>. QED  BY <2>1, <2>2, <2>3, DeleteKeeps, DeleteCounts
<1>. QED  BY <1>2, <1>3

-------------------------------------------------------------------------------
(* MemTable::Ref and MemTable::Unref *)

\* What happens to memtables leaves versions and files as they are.
LEMMA SameVersions ==
  ASSUME NEW h, HeapInv(h), NEW n, Objects(n), \A i \in DOMAIN n : n[i] \in Nat
  PROVE  LET g == [v |-> h.v, f |-> h.f, m |-> n]
         IN  HeapInv(g) /\ PartOf(g, h) /\ PartOf(h, g)
<1>. DEFINE g == [v |-> h.v, f |-> h.f, m |-> n]
<1>1. g.v = h.v /\ g.f = h.f /\ g.m = n
  OBVIOUS
<1>2. HeapTypes(g)
  BY DEF HeapInv, HeapTypes
<1>3. \A o : Users(g, o) = Users(h, o)
  BY <1>1 DEF Users
<1>. HIDE DEF g
<1>. QED  BY <1>1, <1>2, <1>3 DEF HeapInv, FilesCounted, Candidates, TablesOnce, PartOf, g

\* MemTable::Ref records a new holder; there may be no memtable to refer to.
LEMMA RefMemKeeps ==
  ASSUME NEW h, HeapInv(h), NEW i \in Nat, NEW K, MemsCounted(h, K), NEW x,
         i # Nil => i \in DOMAIN h.m /\ x \notin K[i]
  PROVE  LET g == RefMem(h, i)
         IN  /\ HeapInv(g) /\ PartOf(g, h) /\ PartOf(h, g) /\ g.v = h.v
             /\ MemsCounted(g, Plus(K, i, x))
<1>. SUFFICES ASSUME NEW G, \A j \in Ids : G[j] = IF j = i THEN K[j] \cup {x} ELSE K[j]
              PROVE  LET g == RefMem(h, i)
                     IN  /\ HeapInv(g) /\ PartOf(g, h) /\ PartOf(h, g) /\ g.v = h.v
                         /\ MemsCounted(g, G)
  BY DEF Plus
<1>0. HeapTypes(h) /\ DOMAIN h.m \subseteq Ids
  BY DEF HeapInv, HeapTypes, Objects
<1>1. CASE i = Nil
  <2>1. \A j \in Ids : G[j] = K[j]
    BY <1>1 DEF Ids
  <2>2. MemsCounted(h, G)
    BY <1>0, <2>1 DEF MemsCounted
  <2>. QED  BY <1>1, <2>2 DEF RefMem, PartOf
<1>2. CASE i # Nil
  <2>. DEFINE n == [h.m EXCEPT ![i] = @ + 1]
  <2>1. i \in DOMAIN h.m /\ h.m[i] \in Nat /\ i \in Ids
    BY <1>0, <1>2 DEF HeapTypes
  <2>2. /\ DOMAIN n = DOMAIN h.m /\ Objects(n)
        /\ \A j \in DOMAIN n : n[j] \in Nat /\ n[j] = IF j = i THEN h.m[j] + 1 ELSE h.m[j]
    BY <1>0, <2>1 DEF HeapTypes, Objects
  <2>3. RefMem(h, i) = [v |-> h.v, f |-> h.f, m |-> n]
    BY <1>0, <1>2 DEF HeapTypes, RefMem
  <2>. HIDE DEF n
  <2>4. \A j \in Ids : IsFiniteSet(K[j]) /\ IsFiniteSet(K[j] \cup {x})
    BY FS_AddElement DEF MemsCounted
  <2>5. Cardinality(G[i]) = Cardinality(K[i]) + 1
    BY <1>2, <2>1, <2>4, FS_AddElement
  <2>6. \A j \in DOMAIN n : n[j] = Cardinality(G[j])
    BY <1>0, <2>2, <2>5 DEF MemsCounted
  <2>7. \A j \in Ids : IsFiniteSet(G[j]) /\ (G[j] # {} => j \in DOMAIN n)
    BY <2>1, <2>2, <2>4 DEF MemsCounted
  <2>. QED  BY <2>2, <2>3, <2>6, <2>7, SameVersions DEF MemsCounted
<1>. QED  BY <1>1, <1>2

\* MemTable::Unref takes a holder away, and the memtable with its last one.
LEMMA UnrefMemKeeps ==
  ASSUME NEW h, HeapInv(h), NEW i \in Nat, NEW K, MemsCounted(h, K), NEW x,
         i # Nil => x \in K[i]
  PROVE  LET g == UnrefMem(h, i)
         IN  HeapInv(g) /\ PartOf(g, h) /\ g.v = h.v /\ MemsCounted(g, Minus(K, i, x))
<1>. SUFFICES ASSUME NEW G, \A j \in Ids : G[j] = IF j = i THEN K[j] \ {x} ELSE K[j]
              PROVE  LET g == UnrefMem(h, i)
                     IN  HeapInv(g) /\ PartOf(g, h) /\ g.v = h.v /\ MemsCounted(g, G)
  BY DEF Minus
<1>0. HeapTypes(h) /\ DOMAIN h.m \subseteq Ids
  BY DEF HeapInv, HeapTypes, Objects
<1>1. CASE i = Nil
  <2>1. \A j \in Ids : G[j] = K[j]
    BY <1>1 DEF Ids
  <2>2. MemsCounted(h, G)
    BY <1>0, <2>1 DEF MemsCounted
  <2>. QED  BY <1>1, <2>2 DEF UnrefMem, PartOf
<1>2. CASE i # Nil
  <2>1. i \in Ids /\ i \in DOMAIN h.m /\ h.m[i] \in Nat /\ h.m[i] = Cardinality(K[i])
    BY <1>0, <1>2 DEF Ids, MemsCounted, HeapTypes
  <2>2. \A j \in Ids : IsFiniteSet(K[j]) /\ IsFiniteSet(K[j] \ {x})
    BY FS_RemoveElement DEF MemsCounted
  <2>3. Cardinality(G[i]) = Cardinality(K[i]) - 1 /\ Cardinality(K[i]) # 0 /\ G[i] = K[i] \ {x}
    BY <1>2, <2>1, <2>2, FS_RemoveElement, FS_EmptySet
  <2>4. CASE h.m[i] > 1
    <3>. DEFINE n == [h.m EXCEPT ![i] = @ - 1]
    <3>1. /\ DOMAIN n = DOMAIN h.m /\ Objects(n)
          /\ \A j \in DOMAIN n : n[j] \in Nat /\ n[j] = IF j = i THEN h.m[j] - 1 ELSE h.m[j]
      BY <1>0, <2>1, <2>4 DEF HeapTypes, Objects
    <3>2. UnrefMem(h, i) = [v |-> h.v, f |-> h.f, m |-> n]
      BY <1>0, <1>2, <2>4 DEF HeapTypes, UnrefMem
    <3>. HIDE DEF n
    <3>3. \A j \in DOMAIN n : n[j] = Cardinality(G[j])
      BY <1>0, <2>1, <2>3, <3>1 DEF MemsCounted
    <3>4. \A j \in Ids : IsFiniteSet(G[j]) /\ (G[j] # {} => j \in DOMAIN n)
      BY <2>2, <2>1, <3>1 DEF MemsCounted
    <3>. QED  BY <3>1, <3>2, <3>3, <3>4, SameVersions DEF MemsCounted
  <2>5. CASE ~(h.m[i] > 1)
    <3>. DEFINE n == Without(h.m, i)
    <3>1. /\ DOMAIN n = DOMAIN h.m \ {i}
          /\ \A j \in DOMAIN n : n[j] \in Nat /\ n[j] = h.m[j] /\ j # i
      BY <1>0 DEF HeapTypes, Without
    <3>2. Objects(n)
      BY <1>0, <3>1, FS_RemoveElement DEF HeapTypes, Objects, Without
    <3>3. UnrefMem(h, i) = [v |-> h.v, f |-> h.f, m |-> n]
      BY <1>0, <1>2, <2>5 DEF HeapTypes, UnrefMem
    <3>. HIDE DEF n
    <3>4. G[i] = {}
      BY <2>1, <2>2, <2>3, <2>5, FS_EmptySet
    <3>5. \A j \in DOMAIN n : n[j] = Cardinality(G[j])
      BY <1>0, <3>1 DEF MemsCounted
    <3>6. \A j \in Ids : IsFiniteSet(G[j]) /\ (G[j] # {} => j \in DOMAIN n)
      BY <2>2, <3>1, <3>4 DEF MemsCounted
    <3>. QED  BY <3>1, <3>2, <3>3, <3>5, <3>6, SameVersions DEF MemsCounted
  <2>. QED  BY <2>4, <2>5
<1>. QED  BY <1>1, <1>2

-------------------------------------------------------------------------------
(* Version::UpdateStats *)

\* UpdateStats charges a file and may choose a candidate, which is one of the version's files.
LEMMA UpdateStatsKeeps ==
  ASSUME VersionsAssumption, NEW h, HeapInv(h), NEW i \in DOMAIN h.v, NEW c \in Charged(h.v[i])
  PROVE  LET g == UpdateStats(h, i, c)
         IN  /\ HeapInv(g) /\ PartOf(g, h) /\ PartOf(h, g) /\ g.m = h.m
             /\ DOMAIN g.v = DOMAIN h.v /\ \A j \in DOMAIN h.v : g.v[j].refs = h.v[j].refs
<1>. DEFINE s == Max({h.f[c.file].seeks - 1, 0})
            fs == [h.f EXCEPT ![c.file].seeks = s]
            moved == s = 0 /\ h.v[i].to_compact.file = Nil
            w == IF moved THEN [h.v EXCEPT ![i].to_compact = c] ELSE h.v
            g == [v |-> w, f |-> fs, m |-> h.m]
<1>0. HeapTypes(h) /\ FilesCounted(h) /\ Candidates(h) /\ TablesOnce(h)
  BY DEF HeapInv
<1>1. /\ c \in [level : Levels, file : FilesOf(h.v[i])] /\ c.level \in Levels
      /\ c.file \in h.v[i].files[c.level] /\ c.level < LastLevel
  <2>1. c \in [level : Levels, file : FilesOf(h.v[i])] /\ c.file \in h.v[i].files[c.level]
    BY DEF Charged
  <2>2. c.level \in Levels /\ c.level < LastLevel
    BY <2>1 DEF Charged, Levels, VersionsAssumption
  <2>. QED  BY <2>1, <2>2
<1>2. c.file \in DOMAIN h.f /\ h.f[c.file] \in FileRecords /\ c \in [level : Levels, file : Nat]
  <2>1. c.file \in DOMAIN h.f
    BY <1>0, <1>1 DEF FilesCounted
  <2>2. c.file \in Nat
    BY <1>0, <2>1 DEF HeapTypes, Objects, Ids
  <2>. QED  BY <1>0, <1>1, <2>1, <2>2 DEF HeapTypes
<1>3. s \in Nat
  <2>1. h.f[c.file].seeks - 1 \in Int
    BY <1>2 DEF FileRecords
  <2>2. \E x \in {h.f[c.file].seeks - 1, 0} : \A y \in {h.f[c.file].seeks - 1, 0} : x >= y
    BY <2>1
  <2>3. s \in {h.f[c.file].seeks - 1, 0} /\ \A y \in {h.f[c.file].seeks - 1, 0} : s >= y
    BY <2>2 DEF Max
  <2>. QED  BY <2>1, <2>3
<1>. HIDE DEF s
<1>4. UpdateStats(h, i, c) = g
  <2>1. h = [v |-> h.v, f |-> h.f, m |-> h.m]
    BY <1>0 DEF HeapTypes
  <2>2. [h EXCEPT !.f[c.file].seeks = s] = [v |-> h.v, f |-> fs, m |-> h.m]
    BY <2>1
  <2>. HIDE DEF fs
  <2>. QED  BY <2>2 DEF UpdateStats, s
<1>5. /\ DOMAIN fs = DOMAIN h.f /\ Objects(fs)
      /\ \A o \in DOMAIN fs : fs[o] \in FileRecords /\ fs[o].number = h.f[o].number /\ fs[o].refs = h.f[o].refs
  <2>1. DOMAIN fs = DOMAIN h.f /\ Objects(fs)
    BY <1>0 DEF HeapTypes, Objects
  <2>2. ASSUME NEW o \in DOMAIN h.f
        PROVE  fs[o] \in FileRecords /\ fs[o].number = h.f[o].number /\ fs[o].refs = h.f[o].refs
    <3>1. CASE o # c.file
      BY <1>0, <3>1 DEF HeapTypes
    <3>2. CASE o = c.file
      <4>1. fs[o] = [h.f[o] EXCEPT !.seeks = s]
        BY <3>2
      <4>. QED  BY <1>2, <1>3, <3>2, <4>1 DEF FileRecords
    <3>. QED  BY <3>1, <3>2
  <2>. QED  BY <2>1, <2>2
<1>6. /\ DOMAIN w = DOMAIN h.v /\ Objects(w)
      /\ \A j \in DOMAIN w : /\ w[j] \in VersionRecords /\ w[j].files = h.v[j].files
                            /\ w[j].refs = h.v[j].refs
                            /\ w[j].to_compact \in {h.v[j].to_compact} \cup (IF j = i THEN {c} ELSE {})
  <2>1. DOMAIN w = DOMAIN h.v /\ Objects(w)
    BY <1>0 DEF HeapTypes, Objects
  <2>2. ASSUME NEW j \in DOMAIN h.v
        PROVE  /\ w[j] \in VersionRecords /\ w[j].files = h.v[j].files
               /\ w[j].refs = h.v[j].refs
               /\ w[j].to_compact \in {h.v[j].to_compact} \cup (IF j = i THEN {c} ELSE {})
    <3>1. CASE ~(moved /\ j = i)
      <4>1. w[j] = h.v[j]
        BY <3>1
      <4>. QED  BY <1>0, <4>1 DEF HeapTypes
    <3>2. CASE moved /\ j = i
      <4>1. w[j] = [h.v[j] EXCEPT !.to_compact = c] /\ h.v[j] \in VersionRecords
        BY <1>0, <3>2 DEF HeapTypes
      <4>. HIDE DEF w, moved
      <4>. QED  BY <1>2, <3>2, <4>1 DEF VersionRecords
    <3>. QED  BY <3>1, <3>2
  <2>. QED  BY <2>1, <2>2
<1>. HIDE DEF fs, w
<1>7. g.v = w /\ g.f = fs /\ g.m = h.m
  OBVIOUS
<1>8. HeapTypes(g)
  BY <1>0, <1>5, <1>6 DEF HeapTypes
<1>. HIDE DEF g
<1>9. \A j \in DOMAIN w : FilesOf(w[j]) = FilesOf(h.v[j])
  BY <1>6 DEF FilesOf
<1>10. \A o : Users(g, o) = Users(h, o)
  BY <1>6, <1>7, <1>9 DEF Users
<1>11. FilesCounted(g)
  BY <1>0, <1>5, <1>6, <1>7, <1>9, <1>10 DEF FilesCounted
<1>12. Candidates(g)
  BY <1>0, <1>1, <1>6, <1>7 DEF Candidates
<1>13. TablesOnce(g)
  <2>. SUFFICES ASSUME NEW j \in DOMAIN w, NEW k \in Levels, NEW l \in Levels,
                       NEW o \in w[j].files[k], NEW p \in w[j].files[l], fs[o].number = fs[p].number
                PROVE  o = p /\ k = l
    BY <1>7 DEF TablesOnce
  <2>1. o \in h.v[j].files[k] /\ p \in h.v[j].files[l] /\ j \in DOMAIN h.v
    BY <1>6
  <2>2. o \in DOMAIN h.f /\ p \in DOMAIN h.f
    BY <1>0, <2>1, FilesOfMember DEF FilesCounted
  <2>. QED  BY <1>0, <1>5, <2>1, <2>2 DEF TablesOnce
<1>14. PartOf(g, h) /\ PartOf(h, g)
  BY <1>5, <1>6, <1>7 DEF PartOf
<1>. QED  BY <1>4, <1>6, <1>7, <1>8, <1>11, <1>12, <1>13, <1>14 DEF HeapInv

-------------------------------------------------------------------------------
(* The new version of LogAndApply *)

\* The tables of a version
Tables(h, i) == {h.f[p].number : p \in FilesOf(h.v[i])}

\* At most one table is added, at a level, and no table that stays has its number.
Addition(h, base, deleted, added) ==
  /\ added = {} \/ \E l \in Levels, n \in Nat : added = {<<l, n>>}
  /\ \A k \in Levels : \A p \in h.v[base].files[k] :
       <<k, h.f[p].number>> \notin deleted => \A a \in added : h.f[p].number # a[2]

\* The version that is built has the files of its base that are not deleted, and the added ones.
LEMMA BuildKeeps ==
  ASSUME VersionsAssumption, NEW h, HeapInv(h), NEW base \in DOMAIN h.v, NEW deleted, NEW added,
         Addition(h, base, deleted, added)
  PROVE  LET g == BuildVersion(h, base, deleted, added)
             i == Alloc(h.v)
         IN  /\ HeapInv(g) /\ PartOf(h, g) /\ g.m = h.m /\ i \in Ids /\ i \notin DOMAIN h.v
             /\ DOMAIN g.v = DOMAIN h.v \cup {i} /\ \A j \in DOMAIN h.v : g.v[j] = h.v[j]
             /\ g.v[i].refs = 0
             /\ \A k \in Levels : \A p \in h.v[base].files[k] :
                  <<k, h.f[p].number>> \notin deleted => p \in g.v[i].files[k]
             /\ {a[2] : a \in added} \subseteq Tables(g, i)
             /\ LiveNumbers(g) \subseteq LiveNumbers(h) \cup {a[2] : a \in added}
<1>. DEFINE i == Alloc(h.v)
            o == Alloc(h.f)
            kept == [l \in Levels |-> {p \in h.v[base].files[l] : <<l, h.f[p].number>> \notin deleted}]
            keep == UNION {kept[l] : l \in Levels}
            at(l) == IF \E a \in added : a[1] = l THEN {o} ELSE {}
            files == [l \in Levels |-> kept[l] \cup at(l)]
            version == [files |-> files, refs |-> 0, to_compact |-> NoFile]
            n == (CHOOSE a \in added : TRUE)[2]
            fs == FileObjects(h, keep, o, added)
            w == [k \in DOMAIN h.v \cup {i} |-> IF k = i THEN version ELSE h.v[k]]
            g == [v |-> w, f |-> fs, m |-> h.m]
<1>0. HeapTypes(h) /\ FilesCounted(h) /\ Candidates(h) /\ TablesOnce(h)
  BY DEF HeapInv
<1>1. g = BuildVersion(h, base, deleted, added) /\ g.v = w /\ g.f = fs /\ g.m = h.m
  BY DEF BuildVersion
<1>2. i \in Ids /\ i \notin DOMAIN h.v /\ o \in Ids /\ o \notin DOMAIN h.f
  BY <1>0, AllocIsFree DEF HeapTypes, Objects
<1>. HIDE DEF i, o
<1>3. added # {} => n \in Nat /\ \A a \in added : a[1] \in Levels /\ a[2] = n
  BY DEF Addition
<1>4. /\ DOMAIN fs = DOMAIN h.f \cup (IF added = {} THEN {} ELSE {o})
      /\ \A p \in DOMAIN h.f : fs[p] = IF p \in keep THEN [h.f[p] EXCEPT !.refs = @ + 1] ELSE h.f[p]
      /\ added # {} => fs[o] = [number |-> n, refs |-> 1, seeks |-> AllowedSeeks]
  BY <1>2 DEF FileObjects
<1>5. /\ DOMAIN w = DOMAIN h.v \cup {i} /\ \A j \in DOMAIN h.v : w[j] = h.v[j]
      /\ w[i] = version
  BY <1>2
<1>6. h.v[base] \in VersionRecords /\ \A l \in Levels : h.v[base].files[l] \subseteq DOMAIN h.f
  <2>1. FilesOf(h.v[base]) \subseteq DOMAIN h.f
    BY <1>0 DEF FilesCounted
  <2>. QED  BY <1>0, <2>1, FilesOfMember DEF HeapTypes
<1>7. /\ \A l \in Levels : kept[l] \subseteq h.v[base].files[l] /\ files[l] = kept[l] \cup at(l)
      /\ \A l \in Levels : \A p \in h.v[base].files[l] : <<l, h.f[p].number>> \notin deleted => p \in kept[l]
      /\ \A l \in Levels : \A p \in kept[l] : <<l, h.f[p].number>> \notin deleted
      /\ DOMAIN files = Levels
  OBVIOUS
<1>8. keep \subseteq DOMAIN h.f /\ \A l \in Levels : kept[l] \subseteq keep
  <2>1. \A p : p \in keep <=> \E l \in Levels : p \in kept[l]
    OBVIOUS
  <2>. HIDE DEF kept, keep, files
  <2>. QED  BY <1>6, <1>7, <2>1
<1>9. \A p : p \in FilesOf(w[i]) <=> p \in keep \/ (added # {} /\ p = o)
  <2>1. \A p : p \in FilesOf(w[i]) <=> \E l \in Levels : p \in files[l]
    <3>1. version.files = files
      OBVIOUS
    <3>. HIDE DEF w, version, files
    <3>. QED  BY <1>5, <3>1, FilesOfMember
  <2>2. \A p : p \in keep <=> \E l \in Levels : p \in kept[l]
    OBVIOUS
  <2>3. added # {} => \E l \in Levels : \E a \in added : a[1] = l
    BY <1>3
  <2>. HIDE DEF kept, keep, files, w
  <2>. QED  BY <1>7, <2>1, <2>2, <2>3
<1>10. version \in VersionRecords
  <2>1. DOMAIN h.f \subseteq Ids
    BY <1>0 DEF HeapTypes, Objects
  <2>2. \A l \in Levels : files[l] \in SUBSET Ids
    BY <1>2, <1>6, <1>7, <2>1
  <2>3. files \in [Levels -> SUBSET Ids]
    BY <2>2
  <2>4. NoFile \in [level : Levels, file : Nat]
    BY DEF NoFile, Levels, Nil, VersionsAssumption
  <2>. HIDE DEF files
  <2>. QED  BY <2>3, <2>4 DEF VersionRecords
<1>. HIDE DEF w, version, fs, keep, kept, files, n
<1>11. /\ \A p \in DOMAIN fs : fs[p] \in FileRecords
       /\ \A p \in DOMAIN h.f : /\ fs[p].number = h.f[p].number
                               /\ fs[p].refs = h.f[p].refs + IF p \in keep THEN 1 ELSE 0
  <2>1. \A p \in DOMAIN h.f : h.f[p] \in FileRecords
    BY <1>0 DEF HeapTypes
  <2>2. ASSUME NEW p \in DOMAIN h.f
        PROVE  /\ fs[p].number = h.f[p].number /\ fs[p] \in FileRecords
               /\ fs[p].refs = h.f[p].refs + IF p \in keep THEN 1 ELSE 0
    <3>1. CASE p \in keep
      <4>1. fs[p] = [h.f[p] EXCEPT !.refs = @ + 1] /\ h.f[p] \in FileRecords
        BY <1>4, <2>1, <3>1
      <4>. QED  BY <3>1, <4>1 DEF FileRecords
    <3>2. CASE p \notin keep
      <4>1. fs[p] = h.f[p] /\ h.f[p] \in FileRecords
        BY <1>4, <2>1, <3>2
      <4>. QED  BY <3>2, <4>1 DEF FileRecords
    <3>. QED  BY <3>1, <3>2
  <2>3. added # {} => fs[o] \in FileRecords
    BY <1>3, <1>4 DEF FileRecords, VersionsAssumption
  <2>. QED  BY <1>4, <2>2, <2>3
<1>12. HeapTypes(g)
  <2>1. Objects(w)
    <3>1. IsFiniteSet(DOMAIN h.v \cup {i}) /\ DOMAIN h.v \cup {i} \subseteq Ids
      BY <1>0, <1>2, FS_AddElement DEF HeapTypes, Objects
    <3>. QED  BY <1>5, <3>1 DEF Objects, w
  <2>2. Objects(fs)
    <3>1. IsFiniteSet(DOMAIN fs) /\ DOMAIN fs \subseteq Ids
      <4>1. DOMAIN fs = DOMAIN h.f \/ DOMAIN fs = DOMAIN h.f \cup {o}
        BY <1>4
      <4>. QED  BY <1>0, <1>2, <4>1, FS_AddElement DEF HeapTypes, Objects
    <3>. QED  BY <3>1 DEF Objects, fs, FileObjects
  <2>3. \A j \in DOMAIN w : w[j] \in VersionRecords
    BY <1>0, <1>5, <1>10 DEF HeapTypes
  <2>. QED  BY <1>0, <1>11, <2>1, <2>2, <2>3 DEF HeapTypes
<1>. HIDE DEF g
<1>13. \A p \in DOMAIN h.f : Users(g, p) = Users(h, p) \cup IF p \in keep THEN {i} ELSE {}
  <2>1. \A p \in DOMAIN h.f : p \in FilesOf(w[i]) <=> p \in keep
    BY <1>2, <1>9
  <2>. QED  BY <1>1, <1>2, <1>5, <2>1 DEF Users
<1>14. added # {} => Users(g, o) = {i}
  <2>1. \A j \in DOMAIN h.v : o \notin FilesOf(w[j])
    BY <1>0, <1>2, <1>5 DEF FilesCounted
  <2>. QED  BY <1>1, <1>5, <1>9, <2>1 DEF Users
<1>15. FilesCounted(g)
  <2>1. \A j \in DOMAIN w : FilesOf(w[j]) \subseteq DOMAIN fs
    BY <1>0, <1>4, <1>5, <1>8, <1>9 DEF FilesCounted
  <2>2. ASSUME NEW p \in DOMAIN h.f PROVE fs[p].refs = Cardinality(Users(g, p))
    <3>1. IsFiniteSet(Users(h, p)) /\ i \notin Users(h, p)
      BY <1>0, <1>2, FS_Subset DEF HeapTypes, Objects, Users
    <3>2. Cardinality(Users(h, p) \cup {i}) = Cardinality(Users(h, p)) + 1 /\ Cardinality(Users(h, p)) \in Nat
      BY <3>1, FS_AddElement, FS_CardinalityType
    <3>3. h.f[p].refs = Cardinality(Users(h, p))
      BY <1>0 DEF FilesCounted
    <3>4. CASE p \in keep
      <4>1. fs[p].refs = h.f[p].refs + 1 /\ Users(g, p) = Users(h, p) \cup {i}
        BY <1>11, <1>13, <3>4
      <4>. QED  BY <3>2, <3>3, <4>1
    <3>5. CASE p \notin keep
      <4>1. fs[p].refs = h.f[p].refs + 0 /\ Users(g, p) = Users(h, p)
        BY <1>11, <1>13, <3>5
      <4>. QED  BY <3>2, <3>3, <4>1
    <3>. QED  BY <3>4, <3>5
  <2>3. added # {} => fs[o].refs = Cardinality(Users(g, o))
    <3>1. Cardinality({i}) = 1
      BY FS_Singleton
    <3>2. added # {} => fs[o].refs = 1
      BY <1>4
    <3>. QED  BY <1>14, <3>1, <3>2
  <2>. QED  BY <1>1, <1>4, <2>1, <2>2, <2>3 DEF FilesCounted
<1>16. Candidates(g)
  BY <1>0, <1>1, <1>5 DEF Candidates, version, NoFile
<1>17. TablesOnce(g)
  <2>. SUFFICES ASSUME NEW j \in DOMAIN w, NEW k \in Levels, NEW l \in Levels,
                       NEW p \in w[j].files[k], NEW q \in w[j].files[l], fs[p].number = fs[q].number
                PROVE  p = q /\ k = l
    BY <1>1 DEF TablesOnce
  <2>1. CASE j # i
    <3>1. j \in DOMAIN h.v /\ p \in h.v[j].files[k] /\ q \in h.v[j].files[l]
      BY <1>5, <2>1
    <3>2. p \in DOMAIN h.f /\ q \in DOMAIN h.f
      BY <1>0, <3>1, FilesOfMember DEF FilesCounted
    <3>. QED  BY <1>0, <1>11, <3>1, <3>2 DEF TablesOnce
  <2>2. CASE j = i
    <3>1. p \in kept[k] \cup at(k) /\ q \in kept[l] \cup at(l)
      BY <1>5, <1>7, <2>2 DEF version
    <3>2. CASE p \in kept[k] /\ q \in kept[l]
      <4>1. p \in h.v[base].files[k] /\ q \in h.v[base].files[l] /\ p \in DOMAIN h.f /\ q \in DOMAIN h.f
        BY <1>6, <1>7, <3>2
      <4>. QED  BY <1>0, <1>11, <4>1 DEF TablesOnce
    <3>3. ASSUME NEW x \in Levels, NEW y \in kept[x], added # {} PROVE fs[y].number # fs[o].number
      <4>1. y \in h.v[base].files[x] /\ <<x, h.f[y].number>> \notin deleted /\ y \in DOMAIN h.f
        BY <1>6, <1>7, <3>3
      <4>2. \A a \in added : h.f[y].number # a[2]
        BY <4>1 DEF Addition
      <4>3. h.f[y].number # n
        BY <1>3, <3>3, <4>2
      <4>. QED  BY <1>4, <1>11, <3>3, <4>1, <4>3
    <3>4. CASE p \in at(k) /\ q \in at(l)
      <4>1. p = o /\ q = o /\ (\E a \in added : a[1] = k) /\ (\E a \in added : a[1] = l)
        BY <3>4
      <4>2. k = l
        BY <4>1 DEF Addition
      <4>. QED  BY <4>1, <4>2
    <3>5. at(k) # {} \/ at(l) # {} => added # {}
      OBVIOUS
    <3>6. \A z \in at(k) \cup at(l) : z = o
      OBVIOUS
    <3>. QED  BY <3>1, <3>2, <3>3, <3>4, <3>5, <3>6
  <2>. QED  BY <2>1, <2>2
<1>18. PartOf(h, g)
  BY <1>1, <1>4, <1>5, <1>11 DEF PartOf
<1>19. {a[2] : a \in added} \subseteq Tables(g, i)
  <2>. SUFFICES ASSUME NEW a \in added PROVE o \in FilesOf(g.v[i]) /\ g.f[o].number = a[2]
    BY DEF Tables
  <2>. QED  BY <1>1, <1>3, <1>4, <1>9
<1>20. LiveNumbers(g) \subseteq LiveNumbers(h) \cup {a[2] : a \in added}
  <2>. SUFFICES ASSUME NEW j \in DOMAIN w, NEW p \in FilesOf(w[j])
                PROVE  fs[p].number \in LiveNumbers(h) \cup {a[2] : a \in added}
    BY <1>1 DEF LiveNumbers
  <2>1. CASE j \in DOMAIN h.v
    <3>1. p \in FilesOf(h.v[j]) /\ p \in DOMAIN h.f
      BY <1>0, <1>5, <2>1 DEF FilesCounted
    <3>. QED  BY <1>11, <2>1, <3>1 DEF LiveNumbers
  <2>2. CASE j = i /\ p \in keep
    <3>1. p \in FilesOf(h.v[base]) /\ p \in DOMAIN h.f
      BY <1>7, <1>8, <2>2, FilesOfMember DEF keep
    <3>. QED  BY <1>11, <3>1 DEF LiveNumbers
  <2>3. CASE j = i /\ added # {} /\ p = o
    BY <1>3, <1>4, <2>3
  <2>. QED  BY <1>5, <1>9, <2>1, <2>2, <2>3
<1>21. /\ DOMAIN g.v = DOMAIN h.v \cup {i} /\ \A j \in DOMAIN h.v : g.v[j] = h.v[j]
       /\ g.v[i].refs = 0 /\ g.m = h.m
       /\ \A k \in Levels : \A p \in h.v[base].files[k] :
            <<k, h.f[p].number>> \notin deleted => p \in g.v[i].files[k]
  BY <1>1, <1>5, <1>7 DEF version
<1>. QED  BY <1>1, <1>2, <1>12, <1>15, <1>16, <1>17, <1>18, <1>19, <1>20, <1>21 DEF HeapInv, i

\* Nobody holds a version that has just been built.
LEMMA BuildCounts ==
  ASSUME VersionsAssumption, NEW h, HeapInv(h), NEW base \in DOMAIN h.v, NEW deleted, NEW added,
         Addition(h, base, deleted, added), NEW H, VersionsCounted(h, H)
  PROVE  VersionsCounted(BuildVersion(h, base, deleted, added), H) /\ H[Alloc(h.v)] = {}
<1>. DEFINE g == BuildVersion(h, base, deleted, added)
            i == Alloc(h.v)
<1>1. /\ i \in Ids /\ i \notin DOMAIN h.v /\ g.v[i].refs = 0
      /\ DOMAIN g.v = DOMAIN h.v \cup {i} /\ \A j \in DOMAIN h.v : g.v[j] = h.v[j]
  BY BuildKeeps
<1>. HIDE DEF g, i
<1>2. H[i] = {}
  BY <1>1 DEF VersionsCounted
<1>3. VersionsCounted(g, H)
  BY <1>1, <1>2, FS_EmptySet DEF VersionsCounted
<1>. QED  BY <1>2, <1>3 DEF g, i

-------------------------------------------------------------------------------
(* A heap with its holders *)

\* H holds versions, K holds memtables, and the versions of S have been built and not installed.
Sound(h, H, K, S) ==
  /\ HeapInv(h) /\ VersionsCounted(h, H) /\ MemsCounted(h, K)
  /\ \A i \in DOMAIN h.v : H[i] # {} \/ i \in S
  /\ \A i \in S : i \in DOMAIN h.v /\ H[i] = {}

\* What a sound heap has, it has at addresses.
LEMMA SoundIds ==
  ASSUME NEW h, NEW H, NEW K, NEW S, Sound(h, H, K, S)
  PROVE  DOMAIN h.v \subseteq Ids /\ S \subseteq Ids /\ DOMAIN h.m \subseteq Ids /\ HeapInv(h) /\ FilesCounted(h)
BY DEF Sound, HeapInv, HeapTypes, Objects

\* Ref of a version: a version that was built may be the one that is installed.
LEMMA SoundRef ==
  ASSUME NEW h, NEW H, NEW K, NEW S, Sound(h, H, K, S), NEW i \in DOMAIN h.v, NEW x, x \notin H[i]
  PROVE  LET g == Ref(h, i)
         IN  /\ Sound(g, Plus(H, i, x), K, S \ {i}) /\ PartOf(g, h) /\ PartOf(h, g)
             /\ DOMAIN g.v = DOMAIN h.v /\ g.f = h.f
<1>. DEFINE g == Ref(h, i)
            G == Plus(H, i, x)
<1>1. /\ HeapInv(g) /\ PartOf(g, h) /\ PartOf(h, g) /\ g.m = h.m /\ g.f = h.f
      /\ DOMAIN g.v = DOMAIN h.v /\ DOMAIN h.v \subseteq Ids
  <2>1. HeapInv(h) /\ DOMAIN h.v \subseteq Ids
    BY SoundIds
  <2>. QED  BY <2>1, RefKeeps
<1>2. \A j \in Ids : G[j] = IF j = i THEN H[j] \cup {x} ELSE H[j]
  BY DEF Plus
<1>. HIDE DEF G
<1>3. VersionsCounted(g, G)
  <2>1. HeapInv(h) /\ VersionsCounted(h, H)
    BY DEF Sound
  <2>. QED  BY <2>1, RefCounts DEF G
<1>. HIDE DEF g
<1>4. MemsCounted(g, K)
  BY <1>1 DEF Sound, MemsCounted
<1>5. \A j \in DOMAIN g.v : G[j] # {} \/ j \in S \ {i}
  BY <1>1, <1>2 DEF Sound
<1>6. \A j \in S \ {i} : j \in DOMAIN g.v /\ G[j] = {}
  BY <1>1, <1>2 DEF Sound
<1>. QED  BY <1>1, <1>3, <1>4, <1>5, <1>6 DEF Sound, g, G

\* Unref of a version
LEMMA SoundUnref ==
  ASSUME NEW h, NEW H, NEW K, NEW S, Sound(h, H, K, S), NEW i \in Ids, NEW x, x \in H[i]
  PROVE  LET g == Unref(h, i)
         IN  Sound(g, Minus(H, i, x), K, S) /\ PartOf(g, h) /\ i \in DOMAIN h.v
<1>. DEFINE g == Unref(h, i)
            G == Minus(H, i, x)
<1>0. i \in DOMAIN h.v /\ DOMAIN h.v \subseteq Ids
  BY SoundIds DEF Sound, VersionsCounted
<1>1. \A j \in Ids : G[j] = IF j = i THEN H[j] \ {x} ELSE H[j]
  BY DEF Minus
<1>. HIDE DEF G
<1>2. /\ HeapInv(g) /\ PartOf(g, h) /\ g.m = h.m /\ VersionsCounted(g, G)
      /\ DOMAIN g.v = IF G[i] = {} THEN DOMAIN h.v \ {i} ELSE DOMAIN h.v
  BY <1>0, UnrefKeeps DEF Sound, G
<1>. HIDE DEF g
<1>3. MemsCounted(g, K)
  BY <1>2 DEF Sound, MemsCounted
<1>4. \A j \in DOMAIN g.v : G[j] # {} \/ j \in S
  BY <1>0, <1>1, <1>2 DEF Sound
<1>5. \A j \in S : j \in DOMAIN g.v /\ G[j] = {}
  BY <1>0, <1>1, <1>2 DEF Sound
<1>. QED  BY <1>0, <1>2, <1>3, <1>4, <1>5 DEF Sound, g, G

\* Deleting a version that was built and not installed
LEMMA SoundDelete ==
  ASSUME NEW h, NEW H, NEW K, NEW S, Sound(h, H, K, S), NEW i \in S
  PROVE  LET g == DeleteVersion(h, i) IN Sound(g, H, K, S \ {i}) /\ PartOf(g, h)
<1>. DEFINE g == DeleteVersion(h, i)
<1>0. i \in DOMAIN h.v /\ H[i] = {} /\ HeapInv(h) /\ VersionsCounted(h, H)
  BY DEF Sound
<1>1. HeapInv(g) /\ PartOf(g, h) /\ g.m = h.m /\ DOMAIN g.v = DOMAIN h.v \ {i}
  BY <1>0, DeleteKeeps
<1>2. \A j \in Ids : H[j] = IF j = i THEN {} ELSE H[j]
  BY <1>0
<1>3. VersionsCounted(g, H)
  BY <1>0, <1>2, DeleteCounts
<1>. HIDE DEF g
<1>4. MemsCounted(g, K)
  BY <1>1 DEF Sound, MemsCounted
<1>. QED  BY <1>1, <1>3, <1>4 DEF Sound, g

\* Building a version
LEMMA SoundBuild ==
  ASSUME VersionsAssumption, NEW h, NEW H, NEW K, NEW S, Sound(h, H, K, S),
         NEW base \in DOMAIN h.v, NEW deleted, NEW added, Addition(h, base, deleted, added)
  PROVE  LET g == BuildVersion(h, base, deleted, added)
             i == Alloc(h.v)
         IN  /\ Sound(g, H, K, S \cup {i}) /\ PartOf(h, g) /\ i \in Ids /\ i \notin DOMAIN h.v
             /\ \A k \in Levels : \A p \in h.v[base].files[k] :
                  <<k, h.f[p].number>> \notin deleted => p \in g.v[i].files[k]
             /\ {a[2] : a \in added} \subseteq Tables(g, i)
             /\ LiveNumbers(g) \subseteq LiveNumbers(h) \cup {a[2] : a \in added}
<1>. DEFINE g == BuildVersion(h, base, deleted, added)
            i == Alloc(h.v)
<1>0. HeapInv(h) /\ VersionsCounted(h, H)
  BY DEF Sound
<1>1. /\ HeapInv(g) /\ PartOf(h, g) /\ g.m = h.m /\ i \in Ids /\ i \notin DOMAIN h.v
      /\ DOMAIN g.v = DOMAIN h.v \cup {i}
      /\ \A k \in Levels : \A p \in h.v[base].files[k] :
           <<k, h.f[p].number>> \notin deleted => p \in g.v[i].files[k]
      /\ {a[2] : a \in added} \subseteq Tables(g, i)
      /\ LiveNumbers(g) \subseteq LiveNumbers(h) \cup {a[2] : a \in added}
  BY <1>0, BuildKeeps
<1>2. VersionsCounted(g, H) /\ H[i] = {}
  BY <1>0, BuildCounts
<1>. HIDE DEF g, i
<1>3. MemsCounted(g, K)
  BY <1>1 DEF Sound, MemsCounted
<1>4. Sound(g, H, K, S \cup {i})
  BY <1>1, <1>2, <1>3 DEF Sound
<1>. QED  BY <1>1, <1>4 DEF g, i

\* Charging a file for a seek
LEMMA SoundUpdateStats ==
  ASSUME VersionsAssumption, NEW h, NEW H, NEW K, NEW S, Sound(h, H, K, S),
         NEW i \in DOMAIN h.v, NEW c \in Charged(h.v[i])
  PROVE  LET g == UpdateStats(h, i, c)
         IN  Sound(g, H, K, S) /\ PartOf(g, h) /\ PartOf(h, g)
<1>. DEFINE g == UpdateStats(h, i, c)
<1>1. /\ HeapInv(g) /\ PartOf(g, h) /\ PartOf(h, g) /\ g.m = h.m
      /\ DOMAIN g.v = DOMAIN h.v /\ \A j \in DOMAIN h.v : g.v[j].refs = h.v[j].refs
  BY UpdateStatsKeeps DEF Sound
<1>. HIDE DEF g
<1>2. VersionsCounted(g, H) /\ MemsCounted(g, K)
  BY <1>1 DEF Sound, VersionsCounted, MemsCounted
<1>. QED  BY <1>1, <1>2 DEF Sound, g

\* Ref of a memtable
LEMMA SoundRefMem ==
  ASSUME NEW h, NEW H, NEW K, NEW S, Sound(h, H, K, S), NEW i \in Nat, NEW x,
         i # Nil => K[i] # {} /\ x \notin K[i]
  PROVE  LET g == RefMem(h, i)
         IN  Sound(g, H, Plus(K, i, x), S) /\ PartOf(g, h) /\ PartOf(h, g) /\ g.v = h.v
<1>. DEFINE g == RefMem(h, i)
            G == Plus(K, i, x)
<1>1. \A j \in Ids : G[j] = IF j = i THEN K[j] \cup {x} ELSE K[j]
  BY DEF Plus
<1>. HIDE DEF G
<1>2. i # Nil => i \in DOMAIN h.m /\ x \notin K[i]
  BY DEF Sound, MemsCounted, Ids
<1>3. HeapInv(g) /\ PartOf(g, h) /\ PartOf(h, g) /\ g.v = h.v /\ MemsCounted(g, G)
  <2>1. HeapInv(h) /\ MemsCounted(h, K)
    BY DEF Sound
  <2>. QED  BY <1>2, <2>1, RefMemKeeps DEF G
<1>. HIDE DEF g
<1>4. VersionsCounted(g, H)
  BY <1>3 DEF Sound, VersionsCounted
<1>. QED  BY <1>3, <1>4 DEF Sound, g, G

\* Unref of a memtable
LEMMA SoundUnrefMem ==
  ASSUME NEW h, NEW H, NEW K, NEW S, Sound(h, H, K, S), NEW i \in Nat, NEW x,
         i # Nil => x \in K[i]
  PROVE  LET g == UnrefMem(h, i)
         IN  Sound(g, H, Minus(K, i, x), S) /\ PartOf(g, h) /\ g.v = h.v
<1>. DEFINE g == UnrefMem(h, i)
            G == Minus(K, i, x)
<1>1. \A j \in Ids : G[j] = IF j = i THEN K[j] \ {x} ELSE K[j]
  BY DEF Minus
<1>. HIDE DEF G
<1>2. HeapInv(g) /\ PartOf(g, h) /\ g.v = h.v /\ MemsCounted(g, G)
  BY UnrefMemKeeps DEF Sound, G
<1>. HIDE DEF g
<1>3. VersionsCounted(g, H)
  BY <1>2 DEF Sound, VersionsCounted
<1>. QED  BY <1>2, <1>3 DEF Sound, g, G

-------------------------------------------------------------------------------
(* Who holds what *)

ReaderStates ==
  {Idle} \cup {s \in [op : {"Get", "Iterator"}, v : Ids, mem : Ids, imm : Nat] : s.mem # s.imm}

\* The holders of a version, as Holders has them; those of a memtable are readers and the database.
HeldBy(c, R, f, k, i) ==
  (IF i = c THEN {<<"current", 0>>} ELSE {})
    \cup {<<"reader", r>> : r \in {q \in Readers : R[q].v = i}}
    \cup (IF f = i THEN {<<"flush", 0>>} ELSE {})
    \cup (IF k = i THEN {<<"compaction", 0>>} ELSE {})
Db == CHOOSE x : x \notin Readers
MemHeldBy(m, n, R, i) ==
  {r \in Readers : i \in {R[r].mem, R[r].imm}} \cup (IF i \in {m, n} THEN {Db} ELSE {})

Held(c, R, f, k) == [i \in Ids |-> HeldBy(c, R, f, k, i)]
MemHeld(m, n, R) == [i \in Ids |-> MemHeldBy(m, n, R, i)]

\* Who holds a version
LEMMA HeldMember ==
  ASSUME NEW c, NEW R, NEW f, NEW k, NEW i \in Ids, NEW x
  PROVE  x \in Held(c, R, f, k)[i] <=>
           \/ i = c /\ x = <<"current", 0>>
           \/ \E r \in Readers : R[r].v = i /\ x = <<"reader", r>>
           \/ f = i /\ x = <<"flush", 0>>
           \/ k = i /\ x = <<"compaction", 0>>
<1>1. Held(c, R, f, k)[i] = HeldBy(c, R, f, k, i)
  BY DEF Held
<1>2. x \in {<<"reader", r>> : r \in {q \in Readers : R[q].v = i}} <=>
        \E r \in Readers : R[r].v = i /\ x = <<"reader", r>>
  OBVIOUS
<1>. QED  BY <1>1, <1>2 DEF HeldBy

\* Who holds a memtable
LEMMA MemHeldMember ==
  ASSUME NEW m, NEW n, NEW R, NEW i \in Ids, NEW x
  PROVE  x \in MemHeld(m, n, R)[i] <=>
           \/ x \in Readers /\ i \in {R[x].mem, R[x].imm}
           \/ x = Db /\ i \in {m, n}
<1>1. MemHeld(m, n, R)[i] = MemHeldBy(m, n, R, i)
  BY DEF MemHeld
<1>. QED  BY <1>1 DEF MemHeldBy

\* Holders are given for every address.
LEMMA HoldersAreFunctions ==
  /\ \A H, i, x : Plus(H, i, x) = [j \in Ids |-> Plus(H, i, x)[j]]
  /\ \A H, i, x : Minus(H, i, x) = [j \in Ids |-> Minus(H, i, x)[j]]
  /\ \A c, R, f, k : Held(c, R, f, k) = [i \in Ids |-> Held(c, R, f, k)[i]]
  /\ \A m, n, R : MemHeld(m, n, R) = [i \in Ids |-> MemHeld(m, n, R)[i]]
<1>1. ASSUME NEW H, NEW i, NEW x PROVE Plus(H, i, x) = [j \in Ids |-> Plus(H, i, x)[j]]
  BY DEF Plus
<1>2. ASSUME NEW H, NEW i, NEW x PROVE Minus(H, i, x) = [j \in Ids |-> Minus(H, i, x)[j]]
  BY DEF Minus
<1>3. ASSUME NEW c, NEW R, NEW f, NEW k PROVE Held(c, R, f, k) = [i \in Ids |-> Held(c, R, f, k)[i]]
  BY DEF Held
<1>4. ASSUME NEW m, NEW n, NEW R PROVE MemHeld(m, n, R) = [i \in Ids |-> MemHeld(m, n, R)[i]]
  BY DEF MemHeld
<1>. QED  BY <1>1, <1>2, <1>3, <1>4

\* Holders that agree at every address are the same.
LEMMA SameHolders ==
  ASSUME NEW G, NEW H, G = [i \in Ids |-> G[i]], H = [i \in Ids |-> H[i]],
         \A i \in Ids : \A x : x \in G[i] <=> x \in H[i]
  PROVE  G = H
<1>1. \A i \in Ids : G[i] = H[i]
  OBVIOUS
<1>. QED  BY <1>1

\* A reader takes hold of a version.
LEMMA HeldReader ==
  ASSUME NEW c, NEW R, NEW f, NEW k, NEW r \in Readers, NEW s, R \in [Readers -> ReaderStates],
         R[r].v = Nil, s.v \in Ids
  PROVE  /\ Held(c, [R EXCEPT ![r] = s], f, k) = Plus(Held(c, R, f, k), s.v, <<"reader", r>>)
         /\ <<"reader", r>> \notin Held(c, R, f, k)[s.v]
<1>. DEFINE Q == [R EXCEPT ![r] = s]
<1>1. \A q \in Readers : Q[q] = IF q = r THEN s ELSE R[q]
  OBVIOUS
<1>. HIDE DEF Q
<1>2. s.v # Nil
  BY DEF Ids
<1>3. \A i \in Ids : \A x : x \in Held(c, Q, f, k)[i] <=> x \in Plus(Held(c, R, f, k), s.v, <<"reader", r>>)[i]
  <2>. SUFFICES ASSUME NEW i \in Ids, NEW x
                PROVE  x \in Held(c, Q, f, k)[i] <=> x \in Plus(Held(c, R, f, k), s.v, <<"reader", r>>)[i]
    OBVIOUS
  <2>1. x \in Plus(Held(c, R, f, k), s.v, <<"reader", r>>)[i] <=>
          x \in Held(c, R, f, k)[i] \/ (i = s.v /\ x = <<"reader", r>>)
    BY DEF Plus
  <2>2. i # Nil
    BY DEF Ids
  <2>. QED  BY <1>1, <1>2, <2>1, <2>2, HeldMember
<1>4. <<"reader", r>> \notin Held(c, R, f, k)[s.v]
  BY <1>2, HeldMember
<1>5. Held(c, Q, f, k) = Plus(Held(c, R, f, k), s.v, <<"reader", r>>)
  BY <1>3, SameHolders, HoldersAreFunctions
<1>. QED  BY <1>4, <1>5 DEF Q

\* A reader lets go of its version.
LEMMA HeldReaderOut ==
  ASSUME NEW c, NEW R, NEW f, NEW k, NEW r \in Readers, NEW s, R \in [Readers -> ReaderStates],
         R[r].v \in Ids, s.v = Nil
  PROVE  /\ Held(c, [R EXCEPT ![r] = s], f, k) = Minus(Held(c, R, f, k), R[r].v, <<"reader", r>>)
         /\ <<"reader", r>> \in Held(c, R, f, k)[R[r].v]
<1>. DEFINE Q == [R EXCEPT ![r] = s]
<1>1. \A q \in Readers : Q[q] = IF q = r THEN s ELSE R[q]
  OBVIOUS
<1>. HIDE DEF Q
<1>3. \A i \in Ids : \A x : x \in Held(c, Q, f, k)[i] <=> x \in Minus(Held(c, R, f, k), R[r].v, <<"reader", r>>)[i]
  <2>. SUFFICES ASSUME NEW i \in Ids, NEW x
                PROVE  x \in Held(c, Q, f, k)[i] <=> x \in Minus(Held(c, R, f, k), R[r].v, <<"reader", r>>)[i]
    OBVIOUS
  <2>1. x \in Minus(Held(c, R, f, k), R[r].v, <<"reader", r>>)[i] <=>
          x \in Held(c, R, f, k)[i] /\ ~(i = R[r].v /\ x = <<"reader", r>>)
    BY DEF Minus
  <2>2. i # Nil
    BY DEF Ids
  <2>. QED  BY <1>1, <2>1, <2>2, HeldMember
<1>4. <<"reader", r>> \in Held(c, R, f, k)[R[r].v]
  BY HeldMember
<1>5. Held(c, Q, f, k) = Minus(Held(c, R, f, k), R[r].v, <<"reader", r>>)
  BY <1>3, SameHolders, HoldersAreFunctions
<1>. QED  BY <1>4, <1>5 DEF Q

\* Another version becomes the current one.
LEMMA HeldCurrent ==
  ASSUME NEW c \in Ids, NEW d \in Ids, NEW R, NEW f, NEW k
  PROVE  LET G == Minus(Held(c, R, f, k), c, <<"current", 0>>)
         IN  /\ Held(d, R, f, k) = Plus(G, d, <<"current", 0>>)
             /\ <<"current", 0>> \in Held(c, R, f, k)[c] /\ <<"current", 0>> \notin G[d]
<1>. DEFINE G == Minus(Held(c, R, f, k), c, <<"current", 0>>)
<1>1. \A i \in Ids : \A x : x \in G[i] <=> x \in Held(c, R, f, k)[i] /\ ~(i = c /\ x = <<"current", 0>>)
  BY DEF Minus
<1>. HIDE DEF G
<1>2. \A i \in Ids : \A x : x \in Held(d, R, f, k)[i] <=> x \in Plus(G, d, <<"current", 0>>)[i]
  <2>. SUFFICES ASSUME NEW i \in Ids, NEW x
                PROVE  x \in Held(d, R, f, k)[i] <=> x \in Plus(G, d, <<"current", 0>>)[i]
    OBVIOUS
  <2>1. x \in Plus(G, d, <<"current", 0>>)[i] <=> x \in G[i] \/ (i = d /\ x = <<"current", 0>>)
    BY DEF Plus
  <2>. QED  BY <1>1, <2>1, HeldMember
<1>3. <<"current", 0>> \in Held(c, R, f, k)[c] /\ <<"current", 0>> \notin G[d]
  BY <1>1, HeldMember
<1>4. Held(d, R, f, k) = Plus(G, d, <<"current", 0>>)
  BY <1>2, SameHolders, HoldersAreFunctions
<1>. QED  BY <1>3, <1>4 DEF G

\* The flush takes hold of a version, and lets go of it.
LEMMA HeldFlush ==
  ASSUME NEW c, NEW R, NEW f \in Ids, NEW k
  PROVE  /\ Held(c, R, f, k) = Plus(Held(c, R, Nil, k), f, <<"flush", 0>>)
         /\ Held(c, R, Nil, k) = Minus(Held(c, R, f, k), f, <<"flush", 0>>)
         /\ <<"flush", 0>> \in Held(c, R, f, k)[f] /\ <<"flush", 0>> \notin Held(c, R, Nil, k)[f]
<1>. DEFINE G == Plus(Held(c, R, Nil, k), f, <<"flush", 0>>)
            H == Minus(Held(c, R, f, k), f, <<"flush", 0>>)
<1>1. \A i \in Ids : \A x : x \in G[i] <=> x \in Held(c, R, Nil, k)[i] \/ (i = f /\ x = <<"flush", 0>>)
  BY DEF Plus
<1>2. \A i \in Ids : \A x : x \in H[i] <=> x \in Held(c, R, f, k)[i] /\ ~(i = f /\ x = <<"flush", 0>>)
  BY DEF Minus
<1>. HIDE DEF G, H
<1>3. \A i \in Ids : i # Nil
  BY DEF Ids
<1>4. \A i \in Ids : \A x : x \in Held(c, R, f, k)[i] <=> x \in G[i]
  BY <1>1, <1>3, HeldMember
<1>5. \A i \in Ids : \A x : x \in Held(c, R, Nil, k)[i] <=> x \in H[i]
  BY <1>2, <1>3, HeldMember
<1>6. <<"flush", 0>> \in Held(c, R, f, k)[f] /\ <<"flush", 0>> \notin Held(c, R, Nil, k)[f]
  BY <1>3, HeldMember
<1>7. G = Held(c, R, f, k)
  BY <1>4, SameHolders, HoldersAreFunctions DEF G
<1>8. H = Held(c, R, Nil, k)
  BY <1>5, SameHolders, HoldersAreFunctions DEF H
<1>. QED  BY <1>6, <1>7, <1>8 DEF G, H

\* The compaction takes hold of a version, and lets go of it.
LEMMA HeldCompaction ==
  ASSUME NEW c, NEW R, NEW f, NEW k \in Ids
  PROVE  /\ Held(c, R, f, k) = Plus(Held(c, R, f, Nil), k, <<"compaction", 0>>)
         /\ Held(c, R, f, Nil) = Minus(Held(c, R, f, k), k, <<"compaction", 0>>)
         /\ <<"compaction", 0>> \in Held(c, R, f, k)[k] /\ <<"compaction", 0>> \notin Held(c, R, f, Nil)[k]
<1>. DEFINE G == Plus(Held(c, R, f, Nil), k, <<"compaction", 0>>)
            H == Minus(Held(c, R, f, k), k, <<"compaction", 0>>)
<1>1. \A i \in Ids : \A x : x \in G[i] <=> x \in Held(c, R, f, Nil)[i] \/ (i = k /\ x = <<"compaction", 0>>)
  BY DEF Plus
<1>2. \A i \in Ids : \A x : x \in H[i] <=> x \in Held(c, R, f, k)[i] /\ ~(i = k /\ x = <<"compaction", 0>>)
  BY DEF Minus
<1>. HIDE DEF G, H
<1>3. \A i \in Ids : i # Nil
  BY DEF Ids
<1>4. \A i \in Ids : \A x : x \in Held(c, R, f, k)[i] <=> x \in G[i]
  BY <1>1, <1>3, HeldMember
<1>5. \A i \in Ids : \A x : x \in Held(c, R, f, Nil)[i] <=> x \in H[i]
  BY <1>2, <1>3, HeldMember
<1>6. <<"compaction", 0>> \in Held(c, R, f, k)[k] /\ <<"compaction", 0>> \notin Held(c, R, f, Nil)[k]
  BY <1>3, HeldMember
<1>7. G = Held(c, R, f, k)
  BY <1>4, SameHolders, HoldersAreFunctions DEF G
<1>8. H = Held(c, R, f, Nil)
  BY <1>5, SameHolders, HoldersAreFunctions DEF H
<1>. QED  BY <1>6, <1>7, <1>8 DEF G, H


\* The database is not one of the readers.
LEMMA DbIsNew == Db \notin Readers
BY NoSetContainsEverything DEF Db

\* A reader takes hold of the two memtables.
LEMMA MemTaken ==
  ASSUME NEW m \in Ids, NEW n \in Nat, NEW R, NEW r \in Readers, NEW s,
         R \in [Readers -> ReaderStates], R[r] = Idle, s.mem \in Ids, s.imm \in Nat, s.mem # s.imm
  PROVE  LET G == Plus(MemHeld(m, n, R), s.mem, r)
         IN  /\ MemHeld(m, n, [R EXCEPT ![r] = s]) = Plus(G, s.imm, r)
             /\ r \notin MemHeld(m, n, R)[s.mem] /\ (s.imm # Nil => r \notin G[s.imm])
<1>. DEFINE Q == [R EXCEPT ![r] = s]
            G == Plus(MemHeld(m, n, R), s.mem, r)
<1>1. \A q \in Readers : Q[q] = IF q = r THEN s ELSE R[q]
  OBVIOUS
<1>2. \A i \in Ids : \A x : x \in G[i] <=> x \in MemHeld(m, n, R)[i] \/ (i = s.mem /\ x = r)
  BY DEF Plus
<1>3. R[r].mem = Nil /\ R[r].imm = Nil /\ r # Db
  <2>1. Idle.mem = Nil /\ Idle.imm = Nil
    BY DEF Idle
  <2>. QED  BY <2>1, DbIsNew
<1>4. \A i \in Ids : i # Nil
  BY DEF Ids
<1>. HIDE DEF Q, G
<1>5. ASSUME NEW i \in Ids, NEW x
      PROVE  x \in MemHeld(m, n, Q)[i] <=> x \in Plus(G, s.imm, r)[i]
  <2>1. x \in Plus(G, s.imm, r)[i] <=> x \in G[i] \/ (i = s.imm /\ x = r)
    BY DEF Plus
  <2>2. x \in MemHeld(m, n, Q)[i] <=> \/ x \in Readers /\ (i = Q[x].mem \/ i = Q[x].imm)
                                      \/ x = Db /\ i \in {m, n}
    BY MemHeldMember
  <2>3. x \in MemHeld(m, n, R)[i] <=> \/ x \in Readers /\ (i = R[x].mem \/ i = R[x].imm)
                                      \/ x = Db /\ i \in {m, n}
    BY MemHeldMember
  <2>. QED  BY <1>1, <1>2, <1>3, <1>4, <2>1, <2>2, <2>3
<1>6. MemHeld(m, n, Q) = Plus(G, s.imm, r)
  BY <1>5, SameHolders, HoldersAreFunctions
<1>7. r \notin MemHeld(m, n, R)[s.mem]
  BY <1>3, <1>4, MemHeldMember
<1>8. s.imm # Nil => r \notin G[s.imm]
  <2>1. s.imm # Nil => s.imm \in Ids
    BY DEF Ids
  <2>. QED  BY <1>2, <1>3, <1>4, <2>1, MemHeldMember
<1>. QED  BY <1>6, <1>7, <1>8 DEF Q, G

\* A reader lets go of its two memtables.
LEMMA MemReleased ==
  ASSUME NEW m \in Ids, NEW n \in Nat, NEW R, NEW r \in Readers,
         R \in [Readers -> ReaderStates], R[r].mem \in Ids, R[r].imm \in Nat, R[r].mem # R[r].imm
  PROVE  LET G == Minus(MemHeld(m, n, R), R[r].mem, r)
         IN  /\ MemHeld(m, n, [R EXCEPT ![r] = Idle]) = Minus(G, R[r].imm, r)
             /\ r \in MemHeld(m, n, R)[R[r].mem] /\ (R[r].imm # Nil => r \in G[R[r].imm])
<1>. DEFINE Q == [R EXCEPT ![r] = Idle]
            G == Minus(MemHeld(m, n, R), R[r].mem, r)
<1>1. \A q \in Readers : Q[q] = IF q = r THEN Idle ELSE R[q]
  OBVIOUS
<1>2. \A i \in Ids : \A x : x \in G[i] <=> x \in MemHeld(m, n, R)[i] /\ ~(i = R[r].mem /\ x = r)
  BY DEF Minus
<1>3. Idle.mem = Nil /\ Idle.imm = Nil /\ r # Db
  BY DbIsNew DEF Idle
<1>4. \A i \in Ids : i # Nil
  BY DEF Ids
<1>. HIDE DEF Q, G
<1>5. ASSUME NEW i \in Ids, NEW x
      PROVE  x \in MemHeld(m, n, Q)[i] <=> x \in Minus(G, R[r].imm, r)[i]
  <2>1. x \in Minus(G, R[r].imm, r)[i] <=> x \in G[i] /\ ~(i = R[r].imm /\ x = r)
    BY DEF Minus
  <2>2. x \in MemHeld(m, n, Q)[i] <=> \/ x \in Readers /\ (i = Q[x].mem \/ i = Q[x].imm)
                                      \/ x = Db /\ i \in {m, n}
    BY MemHeldMember
  <2>3. x \in MemHeld(m, n, R)[i] <=> \/ x \in Readers /\ (i = R[x].mem \/ i = R[x].imm)
                                      \/ x = Db /\ i \in {m, n}
    BY MemHeldMember
  <2>. QED  BY <1>1, <1>2, <1>3, <1>4, <2>1, <2>2, <2>3
<1>6. MemHeld(m, n, Q) = Minus(G, R[r].imm, r)
  BY <1>5, SameHolders, HoldersAreFunctions
<1>7. r \in MemHeld(m, n, R)[R[r].mem]
  BY MemHeldMember
<1>8. R[r].imm # Nil => r \in G[R[r].imm]
  <2>1. R[r].imm # Nil => R[r].imm \in Ids
    BY DEF Ids
  <2>2. R[r].imm # Nil => r \in MemHeld(m, n, R)[R[r].imm]
    BY <2>1, MemHeldMember
  <2>. QED  BY <1>2, <2>1, <2>2
<1>. QED  BY <1>6, <1>7, <1>8 DEF Q, G

\* The database lets go of the memtable that was flushed.
LEMMA MemDropped ==
  ASSUME NEW m \in Ids, NEW n \in Nat, NEW R, m # n
  PROVE  /\ MemHeld(m, Nil, R) = Minus(MemHeld(m, n, R), n, Db)
         /\ n # Nil => Db \in MemHeld(m, n, R)[n]
<1>1. ASSUME NEW i \in Ids, NEW x
      PROVE  x \in MemHeld(m, Nil, R)[i] <=> x \in Minus(MemHeld(m, n, R), n, Db)[i]
  <2>1. x \in Minus(MemHeld(m, n, R), n, Db)[i] <=> x \in MemHeld(m, n, R)[i] /\ ~(i = n /\ x = Db)
    BY DEF Minus
  <2>2. Db \notin Readers /\ i # Nil
    BY DbIsNew DEF Ids
  <2>. QED  BY <2>1, <2>2, MemHeldMember
<1>2. n # Nil => n \in Ids
  BY DEF Ids
<1>3. n # Nil => Db \in MemHeld(m, n, R)[n]
  BY <1>2, MemHeldMember
<1>. QED  BY <1>1, <1>3, SameHolders, HoldersAreFunctions

\* The memtable becomes the one to be flushed, and a new one takes its place.
LEMMA MemSwitched ==
  ASSUME NEW m \in Ids, NEW n \in Ids, NEW R
  PROVE  MemHeld(n, m, R) = Plus(MemHeld(m, Nil, R), n, Db)
<1>1. ASSUME NEW i \in Ids, NEW x
      PROVE  x \in MemHeld(n, m, R)[i] <=> x \in Plus(MemHeld(m, Nil, R), n, Db)[i]
  <2>1. x \in Plus(MemHeld(m, Nil, R), n, Db)[i] <=> x \in MemHeld(m, Nil, R)[i] \/ (i = n /\ x = Db)
    BY DEF Plus
  <2>2. i # Nil
    BY DEF Ids
  <2>. QED  BY <2>1, <2>2, MemHeldMember
<1>. QED  BY <1>1, SameHolders, HoldersAreFunctions

\* A new memtable
WithMem(h, i) == [h EXCEPT !.m = [j \in DOMAIN @ \cup {i} |-> IF j = i THEN 1 ELSE @[j]]]

\* A new memtable, held by the database
LEMMA SoundNewMem ==
  ASSUME NEW h, NEW H, NEW K, NEW S, Sound(h, H, K, S), NEW x
  PROVE  LET i == Alloc(h.m)
             g == WithMem(h, i)
         IN  /\ Sound(g, H, Plus(K, i, x), S) /\ PartOf(g, h)
             /\ i \in Ids /\ i \notin DOMAIN h.m
<1>. DEFINE i == Alloc(h.m)
            n == [j \in DOMAIN h.m \cup {i} |-> IF j = i THEN 1 ELSE h.m[j]]
            g == [v |-> h.v, f |-> h.f, m |-> n]
            G == Plus(K, i, x)
<1>0. HeapInv(h) /\ HeapTypes(h) /\ DOMAIN h.m \subseteq Ids
  BY DEF Sound, HeapInv, HeapTypes, Objects
<1>1. i \in Ids /\ i \notin DOMAIN h.m
  BY <1>0, AllocIsFree DEF HeapTypes, Objects
<1>. HIDE DEF i
<1>2. WithMem(h, i) = g
  <2>1. WithMem(h, i) = [h EXCEPT !.m = n]
    BY DEF WithMem
  <2>. HIDE DEF n
  <2>. QED  BY <1>0, <2>1 DEF HeapTypes
<1>3. /\ DOMAIN n = DOMAIN h.m \cup {i} /\ n[i] = 1
      /\ \A j \in DOMAIN h.m : n[j] = h.m[j]
  BY <1>1
<1>4. Objects(n) /\ \A j \in DOMAIN n : n[j] \in Nat
  <2>1. IsFiniteSet(DOMAIN h.m \cup {i})
    BY <1>0, FS_AddElement DEF HeapTypes, Objects
  <2>. QED  BY <1>0, <1>1, <2>1 DEF HeapTypes, Objects
<1>5. G[i] = K[i] \cup {x} /\ \A j \in Ids \ {i} : G[j] = K[j]
  BY <1>1 DEF Plus
<1>. HIDE DEF n, G
<1>6. HeapInv(g) /\ PartOf(g, h)
  BY <1>0, <1>4, SameVersions
<1>7. K[i] = {} /\ G[i] = {x}
  BY <1>1, <1>5 DEF Sound, MemsCounted
<1>8. MemsCounted(g, G)
  <2>1. IsFiniteSet({x}) /\ Cardinality({x}) = 1
    BY FS_Singleton
  <2>2. \A j \in DOMAIN n : n[j] = Cardinality(G[j])
    BY <1>0, <1>1, <1>3, <1>5, <1>7, <2>1 DEF Sound, MemsCounted
  <2>3. \A j \in Ids : IsFiniteSet(G[j]) /\ (G[j] # {} => j \in DOMAIN n)
    BY <1>3, <1>5, <1>7, <2>1 DEF Sound, MemsCounted
  <2>. QED  BY <2>2, <2>3 DEF MemsCounted
<1>9. VersionsCounted(g, H) /\ g.v = h.v
  BY DEF Sound, VersionsCounted
<1>. HIDE DEF g
<1>10. Sound(g, H, G, S)
  BY <1>6, <1>8, <1>9 DEF Sound
<1>. QED  BY <1>1, <1>2, <1>6, <1>10 DEF i, G

-------------------------------------------------------------------------------
(* What one version has of another *)

\* d has every file of c, at its level.
Grows(h, c, d) == \A k \in Levels : h.v[c].files[k] \subseteq h.v[d].files[k]

\* d has the tables of c, but for the files of gone.
Replaces(h, c, d, gone) ==
  \A o \in FilesOf(h.v[c]) :
    (\E p \in FilesOf(h.v[d]) : h.f[p].number = h.f[o].number) \/ o \in gone

\* The same file, with the same number, in both heaps
LEMMA SameTables ==
  ASSUME NEW g, NEW h, FilesCounted(g), FilesCounted(h), PartOf(g, h) \/ PartOf(h, g),
         NEW c \in DOMAIN g.v, c \in DOMAIN h.v
  PROVE  /\ g.v[c].files = h.v[c].files /\ FilesOf(g.v[c]) = FilesOf(h.v[c])
         /\ \A o \in FilesOf(h.v[c]) : g.f[o].number = h.f[o].number
<1>1. g.v[c].files = h.v[c].files
  BY DEF PartOf
<1>2. FilesOf(g.v[c]) = FilesOf(h.v[c])
  BY <1>1 DEF FilesOf
<1>3. FilesOf(h.v[c]) \subseteq DOMAIN g.f /\ FilesOf(h.v[c]) \subseteq DOMAIN h.f
  BY <1>2 DEF FilesCounted
<1>4. \A o \in FilesOf(h.v[c]) : g.f[o].number = h.f[o].number
  BY <1>3 DEF PartOf
<1>. QED  BY <1>1, <1>2, <1>4

\* Grows in another heap with these versions
LEMMA GrowsStays ==
  ASSUME NEW g, NEW h, FilesCounted(g), FilesCounted(h), PartOf(g, h) \/ PartOf(h, g),
         NEW c \in DOMAIN g.v, c \in DOMAIN h.v, NEW d \in DOMAIN g.v, d \in DOMAIN h.v, Grows(h, c, d)
  PROVE  Grows(g, c, d)
BY SameTables DEF Grows

\* Across two heaps: the tables of c in h are tables of d in g.
LEMMA ReplacesStays ==
  ASSUME NEW g, NEW h, FilesCounted(g), FilesCounted(h), PartOf(g, h) \/ PartOf(h, g),
         NEW c \in DOMAIN h.v, NEW d \in DOMAIN g.v, d \in DOMAIN h.v, NEW gone, Replaces(h, c, d, gone)
  PROVE  /\ \A o \in FilesOf(h.v[c]) :
              (\E p \in FilesOf(g.v[d]) : g.f[p].number = h.f[o].number) \/ o \in gone
         /\ c \in DOMAIN g.v => Replaces(g, c, d, gone)
<1>1. /\ FilesOf(g.v[d]) = FilesOf(h.v[d])
      /\ \A p \in FilesOf(h.v[d]) : g.f[p].number = h.f[p].number
  BY SameTables
<1>2. \A o \in FilesOf(h.v[c]) :
        (\E p \in FilesOf(g.v[d]) : g.f[p].number = h.f[o].number) \/ o \in gone
  BY <1>1 DEF Replaces
<1>3. c \in DOMAIN g.v => /\ FilesOf(g.v[c]) = FilesOf(h.v[c])
                         /\ \A o \in FilesOf(h.v[c]) : g.f[o].number = h.f[o].number
  BY SameTables
<1>4. c \in DOMAIN g.v => Replaces(g, c, d, gone)
  BY <1>2, <1>3 DEF Replaces
<1>. QED  BY <1>2, <1>4

\* A version that has every file has every table.
LEMMA GrowsReplaces ==
  ASSUME NEW h, NEW c, NEW d, Grows(h, c, d)
  PROVE  Replaces(h, c, d, {})
<1>1. FilesOf(h.v[c]) \subseteq FilesOf(h.v[d])
  BY FilesOfMember DEF Grows
<1>. QED  BY <1>1 DEF Replaces

\* A version has its own files.
LEMMA KeepsItself ==
  ASSUME NEW h, NEW c
  PROVE  Grows(h, c, c)
BY DEF Grows

-------------------------------------------------------------------------------
(* The inductive invariant *)

FlushStates ==
  {FlushIdle} \cup [pc : {"build"}, v : Ids, new : Ids, built : {Nil}]
              \cup [pc : {"apply"}, v : {Nil}, new : Ids, built : Ids]
CompactionOf(pcs, builts) ==
  [pc : pcs, v : Ids, level : 0..(LastLevel - 1), inputs : SUBSET Ids, new : Nat, built : builts]
CompactionStates ==
  {CompactionIdle} \cup CompactionOf({"merge"}, {Nil}) \cup CompactionOf({"applyMove", "apply"}, Ids)

TypeInv ==
  /\ current \in Ids /\ mem \in Ids /\ imm \in Nat /\ mem # imm /\ number \in Nat
  /\ reader \in [Readers -> ReaderStates]
  /\ flush \in FlushStates /\ compaction \in CompactionStates

\* Only one version is built at a time.
OneAtATime == compaction.pc \in {"applyMove", "apply"} => flush = FlushIdle

Built == {flush.built, compaction.built} \ {Nil}
HeapIsSound ==
  Sound(heap, Held(current, reader, flush.v, compaction.v), MemHeld(mem, imm, reader), Built)

\* Tables that are being written have numbers of their own; the one of a merge is protected.
FlushNumbers ==
  flush.pc = "build" =>
    flush.new \in 1..number /\ flush.new \notin LiveNumbers(heap) /\ flush.new # compaction.new
MergeNumbers ==
  compaction.pc = "merge" /\ compaction.new # Nil =>
    /\ compaction.new \in 1..number /\ compaction.new \notin LiveNumbers(heap)
    /\ compaction.new \in pending /\ compaction.new \in disk
Numbers ==
  /\ LiveNumbers(heap) \subseteq disk /\ LiveNumbers(heap) \subseteq 0..number
  /\ \A n \in pending : (flush.pc = "build" /\ n = flush.new) \/ (n = compaction.new /\ n # Nil)
  /\ FlushNumbers /\ MergeNumbers

\* What is built, or merged, against the current version
Successors ==
  /\ flush.pc = "apply" => Grows(heap, current, flush.built)
  /\ compaction.pc = "merge" => Grows(heap, compaction.v, current)
  /\ compaction.pc = "applyMove" => Replaces(heap, current, compaction.built, {})
  /\ compaction.pc = "apply" => Replaces(heap, current, compaction.built, compaction.inputs)

Inv == TypeInv /\ OneAtATime /\ HeapIsSound /\ Numbers /\ Successors

\* A new database has one version, without files, and one memtable.
LEMMA InvInit ==
  ASSUME VersionsAssumption, Init
  PROVE  Inv
<1>. DEFINE v0 == [files |-> [l \in Levels |-> {}], refs |-> 1, to_compact |-> NoFile]
<1>1. /\ heap = [v |-> <<v0>>, f |-> <<>>, m |-> <<1>>] /\ current = 1 /\ mem = 1 /\ imm = Nil
      /\ flush = FlushIdle /\ compaction = CompactionIdle /\ reader = [r \in Readers |-> Idle]
      /\ number = 0 /\ pending = {} /\ disk = {}
  BY DEF Init
<1>2. v0 \in VersionRecords /\ FilesOf(v0) = {} /\ v0.refs = 1 /\ v0.to_compact.file = Nil
  <2>1. NoFile \in [level : Levels, file : Nat] /\ NoFile.file = Nil
    BY DEF NoFile, Levels, Nil, VersionsAssumption
  <2>. HIDE DEF NoFile
  <2>. QED  BY <2>1 DEF VersionRecords, FilesOf
<1>. HIDE DEF v0
<1>3. heap.v = <<v0>> /\ heap.f = <<>> /\ heap.m = <<1>>
  BY <1>1
<1>4. DOMAIN heap.v = {1} /\ heap.v[1] = v0 /\ DOMAIN heap.f = {} /\ DOMAIN heap.m = {1} /\ heap.m[1] = 1
  BY <1>3
<1>5. IsFiniteSet({1}) /\ Cardinality({1}) = 1 /\ IsFiniteSet({}) /\ 1 \in Ids
  BY FS_Singleton, FS_EmptySet DEF Ids, Nil
<1>6. HeapInv(heap)
  <2>1. HeapTypes(heap)
    <3>1. Objects(heap.v) /\ Objects(heap.f) /\ Objects(heap.m)
      BY <1>3, <1>4, <1>5 DEF Objects
    <3>2. heap = [v |-> heap.v, f |-> heap.f, m |-> heap.m]
      BY <1>1
    <3>. QED  BY <1>2, <1>4, <3>1, <3>2 DEF HeapTypes
  <2>2. FilesCounted(heap) /\ Candidates(heap)
    BY <1>2, <1>4 DEF FilesCounted, Candidates
  <2>3. TablesOnce(heap)
    <3>1. \A l \in Levels : heap.v[1].files[l] = {}
      BY <1>4 DEF v0
    <3>. QED  BY <1>4, <3>1 DEF TablesOnce
  <2>. QED  BY <2>1, <2>2, <2>3 DEF HeapInv
<1>7. flush.v = Nil /\ compaction.v = Nil /\ \A r \in Readers : reader[r].v = Nil /\ reader[r].mem = Nil /\ reader[r].imm = Nil
  BY <1>1 DEF FlushIdle, CompactionIdle, Idle
<1>8. VersionsCounted(heap, Held(current, reader, flush.v, compaction.v))
  <2>. DEFINE H == Held(current, reader, flush.v, compaction.v)
  <2>1. \A i \in Ids : \A x : x \in H[i] <=> i = 1 /\ x = <<"current", 0>>
    <3>1. \A i \in Ids : i # Nil
      BY DEF Ids
    <3>. QED  BY <1>1, <1>7, <3>1, HeldMember
  <2>. HIDE DEF H
  <2>2. H[1] = {<<"current", 0>>} /\ \A i \in Ids : i # 1 => H[i] = {}
    BY <1>5, <2>1
  <2>3. IsFiniteSet({<<"current", 0>>}) /\ Cardinality({<<"current", 0>>}) = 1
    BY FS_Singleton
  <2>. QED  BY <1>2, <1>4, <1>5, <2>2, <2>3 DEF VersionsCounted, H
<1>9. MemsCounted(heap, MemHeld(mem, imm, reader))
  <2>. DEFINE K == MemHeld(mem, imm, reader)
  <2>1. \A i \in Ids : \A x : x \in K[i] <=> i = 1 /\ x = Db
    <3>1. \A i \in Ids : i # Nil
      BY DEF Ids
    <3>. QED  BY <1>1, <1>7, <3>1, MemHeldMember
  <2>. HIDE DEF K
  <2>2. K[1] = {Db} /\ \A i \in Ids : i # 1 => K[i] = {}
    BY <1>5, <2>1
  <2>3. IsFiniteSet({Db}) /\ Cardinality({Db}) = 1
    BY FS_Singleton
  <2>. QED  BY <1>4, <1>5, <2>2, <2>3 DEF MemsCounted, K
<1>10. Built = {}
  BY <1>1 DEF Built, FlushIdle, CompactionIdle
<1>11. <<"current", 0>> \in Held(current, reader, flush.v, compaction.v)[1]
  BY <1>1, <1>5, HeldMember
<1>12. HeapIsSound
  BY <1>4, <1>6, <1>8, <1>9, <1>10, <1>11 DEF HeapIsSound, Sound
<1>13. LiveNumbers(heap) = {}
  BY <1>2, <1>4 DEF LiveNumbers
<1>14. Numbers
  BY <1>1, <1>13 DEF Numbers, FlushNumbers, MergeNumbers, FlushIdle, CompactionIdle
<1>15. TypeInv
  BY <1>1, <1>5 DEF TypeInv, FlushStates, CompactionStates, ReaderStates, Nil
<1>. QED  BY <1>1, <1>12, <1>14, <1>15 DEF Inv, OneAtATime, Successors, FlushIdle, CompactionIdle


-------------------------------------------------------------------------------
(* Facts about states *)

\* What a reader's state has
LEMMA ReaderShape ==
  ASSUME NEW s \in ReaderStates
  PROVE  /\ s.op \in {"Get", "Iterator"} => s.v \in Ids /\ s.mem \in Ids /\ s.imm \in Nat /\ s.mem # s.imm
         /\ s.v \in Nat
<1>1. CASE s = Idle
  BY <1>1 DEF Idle, Nil
<1>2. CASE s \in [op : {"Get", "Iterator"}, v : Ids, mem : Ids, imm : Nat] /\ s.mem # s.imm
  BY <1>2 DEF Ids
<1>. QED  BY <1>1, <1>2 DEF ReaderStates

\* What the flush's state has
LEMMA FlushShape ==
  ASSUME NEW f \in FlushStates
  PROVE  /\ f.pc \in {"idle", "build", "apply"} /\ (f.pc = "idle" <=> f = FlushIdle)
         /\ f.pc = "build" => f.v \in Ids /\ f.new \in Ids /\ f.built = Nil
         /\ f.pc = "apply" => f.v = Nil /\ f.built \in Ids
         /\ f.pc = "idle" => f.v = Nil /\ f.built = Nil
         /\ f.v \in Nat /\ f.built \in Nat
<1>1. CASE f = FlushIdle
  BY <1>1 DEF FlushIdle, Nil
<1>2. CASE f \in [pc : {"build"}, v : Ids, new : Ids, built : {Nil}]
  BY <1>2 DEF FlushIdle, Ids, Nil
<1>3. CASE f \in [pc : {"apply"}, v : {Nil}, new : Ids, built : Ids]
  BY <1>3 DEF FlushIdle, Ids, Nil
<1>. QED  BY <1>1, <1>2, <1>3 DEF FlushStates

\* What the compaction's state has
LEMMA CompactionShape ==
  ASSUME NEW c \in CompactionStates
  PROVE  /\ c.pc \in {"idle", "merge", "applyMove", "apply"} /\ (c.pc = "idle" <=> c = CompactionIdle)
         /\ c.pc = "idle" => c.v = Nil /\ c.new = Nil /\ c.built = Nil
         /\ c.pc # "idle" => /\ c.v \in Ids /\ c.level \in 0..(LastLevel - 1) /\ c.inputs \in SUBSET Ids
         /\ c.pc = "merge" => c.built = Nil
         /\ c.pc \in {"applyMove", "apply"} => c.built \in Ids
         /\ c.v \in Nat /\ c.built \in Nat /\ c.new \in Nat
<1>1. CASE c = CompactionIdle
  BY <1>1 DEF CompactionIdle, Nil
<1>2. CASE c \in CompactionOf({"merge"}, {Nil})
  BY <1>2 DEF CompactionOf, CompactionIdle, Ids, Nil
<1>3. CASE c \in CompactionOf({"applyMove", "apply"}, Ids)
  BY <1>3 DEF CompactionOf, CompactionIdle, Ids, Nil
<1>. QED  BY <1>1, <1>2, <1>3 DEF CompactionStates

\* What is held, or built, is there.
LEMMA Alive ==
  ASSUME NEW h, NEW c \in Ids, NEW R, NEW f \in Nat, NEW k \in Nat, NEW K, NEW S,
         Sound(h, Held(c, R, f, k), K, S)
  PROVE  /\ HeapInv(h) /\ FilesCounted(h) /\ c \in DOMAIN h.v /\ c \notin S /\ S \subseteq DOMAIN h.v
         /\ f # Nil => f \in DOMAIN h.v /\ f \notin S
         /\ k # Nil => k \in DOMAIN h.v /\ k \notin S
<1>. DEFINE H == Held(c, R, f, k)
<1>1. HeapInv(h) /\ FilesCounted(h) /\ S \subseteq DOMAIN h.v
  BY DEF Sound, HeapInv
<1>2. ASSUME NEW i \in Ids, H[i] # {} PROVE i \in DOMAIN h.v /\ i \notin S
  BY <1>2 DEF Sound, VersionsCounted
<1>3. H[c] # {}
  BY HeldMember
<1>4. (f # Nil => f \in Ids) /\ (k # Nil => k \in Ids)
  BY DEF Ids
<1>5. (f # Nil => H[f] # {}) /\ (k # Nil => H[k] # {})
  BY <1>4, HeldMember
<1>. HIDE DEF H
<1>. QED  BY <1>1, <1>2, <1>3, <1>4, <1>5

\* The current version and those that are in use are there.
LEMMA AliveInv ==
  ASSUME TypeInv, HeapIsSound
  PROVE  /\ HeapInv(heap) /\ FilesCounted(heap) /\ current \in DOMAIN heap.v /\ current \notin Built
         /\ Built \subseteq DOMAIN heap.v
         /\ flush.v # Nil => flush.v \in DOMAIN heap.v
         /\ compaction.v # Nil => compaction.v \in DOMAIN heap.v
<1>1. flush.v \in Nat /\ compaction.v \in Nat
  BY FlushShape, CompactionShape DEF TypeInv
<1>. QED  BY <1>1, Alive DEF TypeInv, HeapIsSound

\* The same after a step
LEMMA AliveNext ==
  ASSUME TypeInv', HeapIsSound'
  PROVE  /\ HeapInv(heap') /\ FilesCounted(heap') /\ current' \in DOMAIN heap'.v /\ current' \notin Built'
         /\ Built' \subseteq DOMAIN heap'.v
         /\ flush'.v # Nil => flush'.v \in DOMAIN heap'.v
         /\ compaction'.v # Nil => compaction'.v \in DOMAIN heap'.v
<1>1. flush'.v \in Nat /\ compaction'.v \in Nat /\ current' \in Ids
  BY FlushShape, CompactionShape DEF TypeInv
<1>2. Sound(heap', Held(current', reader', flush'.v, compaction'.v), MemHeld(mem', imm', reader'), Built')
  BY DEF HeapIsSound
<1>. QED  BY <1>1, <1>2, Alive

-------------------------------------------------------------------------------
(* Steps that leave the background thread and the current version alone *)

\* A step that only takes from the heap, and leaves the directory and the background thread alone
LEMMA QuietStep ==
  ASSUME Inv, TypeInv', HeapIsSound', PartOf(heap', heap),
         UNCHANGED <<current, disk, pending, number, flush, compaction>>
  PROVE  Inv' /\ KeepsOthers
<1>0. TypeInv /\ OneAtATime /\ HeapIsSound /\ Numbers /\ Successors
  BY DEF Inv
<1>1. /\ FilesCounted(heap) /\ FilesCounted(heap')
      /\ current \in DOMAIN heap.v /\ current \in DOMAIN heap'.v
      /\ flush.built # Nil => flush.built \in DOMAIN heap.v /\ flush.built \in DOMAIN heap'.v
      /\ compaction.built # Nil => compaction.built \in DOMAIN heap.v /\ compaction.built \in DOMAIN heap'.v
      /\ compaction.v # Nil => compaction.v \in DOMAIN heap.v /\ compaction.v \in DOMAIN heap'.v
  BY <1>0, AliveInv, AliveNext DEF Built
<1>2. LiveNumbers(heap') \subseteq LiveNumbers(heap)
  BY <1>1, PartOfLive
<1>3. OneAtATime' /\ Numbers'
  BY <1>0, <1>2 DEF OneAtATime, Numbers, FlushNumbers, MergeNumbers
<1>4. \A i \in Ids : i # Nil
  BY DEF Ids
<1>5. Successors'
  <2>1. /\ flush.pc = "apply" => flush.built \in Ids
        /\ compaction.pc = "merge" => compaction.v \in Ids
        /\ compaction.pc \in {"applyMove", "apply"} => compaction.built \in Ids
    BY <1>0, FlushShape, CompactionShape DEF TypeInv
  <2>2. flush.pc = "apply" => Grows(heap', current, flush.built)
    BY <1>0, <1>1, <1>4, <2>1, GrowsStays DEF Successors
  <2>3. compaction.pc = "merge" => Grows(heap', compaction.v, current)
    BY <1>0, <1>1, <1>4, <2>1, GrowsStays DEF Successors
  <2>4. compaction.pc = "applyMove" => Replaces(heap', current, compaction.built, {})
    BY <1>0, <1>1, <1>4, <2>1, ReplacesStays DEF Successors
  <2>5. compaction.pc = "apply" => Replaces(heap', current, compaction.built, compaction.inputs)
    BY <1>0, <1>1, <1>4, <2>1, ReplacesStays DEF Successors
  <2>. QED  BY <2>2, <2>3, <2>4, <2>5 DEF Successors
<1>6. KeepsOthers
  BY <1>1, SameTables DEF KeepsOthers
<1>. QED  BY <1>0, <1>3, <1>5, <1>6 DEF Inv

\* A reader begins.
LEMMA AcquireStep ==
  ASSUME Inv, NEW r \in Readers, NEW op \in {"Get", "Iterator"}, Acquire(r, op)
  PROVE  Inv' /\ KeepsOthers
<1>. DEFINE s == [op |-> op, v |-> current, mem |-> mem, imm |-> imm]
            H == Held(current, reader, flush.v, compaction.v)
            K == MemHeld(mem, imm, reader)
            x == <<"reader", r>>
            h1 == Ref(heap, current)
            h2 == RefMem(h1, mem)
            h3 == RefMem(h2, imm)
<1>0. TypeInv /\ HeapIsSound
  BY DEF Inv
<1>1. /\ reader[r] = Idle /\ heap' = h3 /\ reader' = [reader EXCEPT ![r] = s]
      /\ UNCHANGED <<current, mem, imm, disk, pending, number, flush, compaction, bg_error>>
  BY DEF Acquire
<1>2. current \in Ids /\ mem \in Ids /\ imm \in Nat /\ mem # imm /\ reader \in [Readers -> ReaderStates]
  BY <1>0 DEF TypeInv
<1>3. s.v = current /\ s.mem = mem /\ s.imm = imm
  OBVIOUS
<1>4. s \in ReaderStates
  BY <1>2 DEF ReaderStates
<1>. HIDE DEF s
<1>5. Held(current, reader', flush.v, compaction.v) = Plus(H, current, x) /\ x \notin H[current]
  <2>1. Idle.v = Nil
    BY DEF Idle
  <2>2. reader[r].v = Nil /\ s.v \in Ids
    BY <1>1, <1>2, <1>3, <2>1
  <2>3. /\ Held(current, [reader EXCEPT ![r] = s], flush.v, compaction.v) = Plus(H, s.v, x)
        /\ x \notin H[s.v]
    BY <1>2, <2>2, HeldReader
  <2>. QED  BY <1>1, <1>3, <2>3
<1>6. /\ MemHeld(mem, imm, reader') = Plus(Plus(K, mem, r), imm, r)
      /\ r \notin K[mem] /\ (imm # Nil => r \notin Plus(K, mem, r)[imm])
  <2>1. /\ MemHeld(mem, imm, [reader EXCEPT ![r] = s]) = Plus(Plus(K, s.mem, r), s.imm, r)
        /\ r \notin K[s.mem] /\ (s.imm # Nil => r \notin Plus(K, s.mem, r)[s.imm])
    <3>1. s.mem \in Ids /\ s.imm \in Nat /\ s.mem # s.imm /\ reader[r] = Idle
      BY <1>1, <1>2, <1>3
    <3>. QED  BY <1>2, <3>1, MemTaken
  <2>. QED  BY <1>1, <1>3, <2>1
<1>7. K[mem] # {} /\ (imm # Nil => Plus(K, mem, r)[imm] # {})
  <2>1. imm # Nil => imm \in Ids
    BY <1>2 DEF Ids
  <2>2. Db \in K[mem] /\ (imm # Nil => Db \in K[imm])
    BY <1>2, <2>1, MemHeldMember
  <2>. QED  BY <1>2, <2>1, <2>2 DEF Plus
<1>8. current \in DOMAIN heap.v /\ Built \ {current} = Built
  BY <1>0, AliveInv
<1>9. Sound(heap, H, K, Built)
  BY <1>0 DEF HeapIsSound
<1>. HIDE DEF H, K, x
<1>10. Sound(h1, Plus(H, current, x), K, Built) /\ PartOf(h1, heap)
  BY <1>5, <1>8, <1>9, SoundRef
<1>. HIDE DEF h1
<1>11. Sound(h2, Plus(H, current, x), Plus(K, mem, r), Built) /\ PartOf(h2, h1)
  <2>1. mem \in Nat /\ mem # Nil
    BY <1>2 DEF Ids
  <2>. QED  BY <1>6, <1>7, <1>10, <2>1, SoundRefMem
<1>. HIDE DEF h2
<1>12. Sound(h3, Plus(H, current, x), Plus(Plus(K, mem, r), imm, r), Built) /\ PartOf(h3, h2)
  BY <1>2, <1>6, <1>7, <1>11, SoundRefMem
<1>. HIDE DEF h3
<1>13. PartOf(heap', heap)
  BY <1>1, <1>10, <1>11, <1>12, PartOfTransitive
<1>14. HeapIsSound'
  BY <1>1, <1>5, <1>6, <1>12 DEF HeapIsSound, Built
<1>15. TypeInv'
  BY <1>0, <1>1, <1>4 DEF TypeInv
<1>. QED  BY <1>1, <1>13, <1>14, <1>15, QuietStep

\* What a reader that ends gives back
LEMMA ReleasedKeeps ==
  ASSUME TypeInv, NEW h, NEW S, NEW r \in Readers, reader[r].op \in {"Get", "Iterator"},
         Sound(h, Held(current, reader, flush.v, compaction.v), MemHeld(mem, imm, reader), S)
  PROVE  LET R == [reader EXCEPT ![r] = Idle]
         IN  /\ Sound(Released(h, r), Held(current, R, flush.v, compaction.v), MemHeld(mem, imm, R), S)
             /\ PartOf(Released(h, r), h) /\ R \in [Readers -> ReaderStates]
<1>. DEFINE R == [reader EXCEPT ![r] = Idle]
            H == Held(current, reader, flush.v, compaction.v)
            K == MemHeld(mem, imm, reader)
            x == <<"reader", r>>
            s == reader[r]
            h1 == UnrefMem(h, s.mem)
            h2 == UnrefMem(h1, s.imm)
            h3 == Unref(h2, s.v)
<1>1. mem \in Ids /\ imm \in Nat /\ reader \in [Readers -> ReaderStates] /\ R \in [Readers -> ReaderStates]
  <2>1. Idle \in ReaderStates
    BY DEF ReaderStates
  <2>. QED  BY <2>1 DEF TypeInv
<1>2. s.v \in Ids /\ s.mem \in Ids /\ s.imm \in Nat /\ s.mem # s.imm /\ s.mem \in Nat
  <2>1. s \in ReaderStates
    BY <1>1
  <2>2. s.v \in Ids /\ s.mem \in Ids /\ s.imm \in Nat /\ s.mem # s.imm
    BY <2>1, ReaderShape
  <2>. QED  BY <2>2 DEF Ids
<1>3. Held(current, R, flush.v, compaction.v) = Minus(H, s.v, x) /\ x \in H[s.v]
  <2>1. Idle.v = Nil
    BY DEF Idle
  <2>. QED  BY <1>1, <1>2, <2>1, HeldReaderOut
<1>4. /\ MemHeld(mem, imm, R) = Minus(Minus(K, s.mem, r), s.imm, r)
      /\ r \in K[s.mem] /\ (s.imm # Nil => r \in Minus(K, s.mem, r)[s.imm])
  BY <1>1, <1>2, MemReleased
<1>. HIDE DEF H, K, x, R, s
<1>5. Sound(h1, H, Minus(K, s.mem, r), S) /\ PartOf(h1, h)
  BY <1>2, <1>4, SoundUnrefMem DEF H, K
<1>. HIDE DEF h1
<1>6. Sound(h2, H, Minus(Minus(K, s.mem, r), s.imm, r), S) /\ PartOf(h2, h1)
  BY <1>2, <1>4, <1>5, SoundUnrefMem
<1>. HIDE DEF h2
<1>7. Sound(h3, Minus(H, s.v, x), Minus(Minus(K, s.mem, r), s.imm, r), S) /\ PartOf(h3, h2)
  BY <1>2, <1>3, <1>6, SoundUnref
<1>8. h3 = Released(h, r)
  BY DEF h1, h2, s, Released
<1>. HIDE DEF h3
<1>9. PartOf(h3, h)
  BY <1>5, <1>6, <1>7, PartOfTransitive
<1>. QED  BY <1>1, <1>3, <1>4, <1>7, <1>8, <1>9 DEF R

\* A reader charges a file, ends, or both.
LEMMA ReaderStep ==
  ASSUME VersionsAssumption, Inv, NEW r \in Readers, GetEnds(r) \/ RecordReadSample(r) \/ CloseIterator(r)
  PROVE  Inv' /\ KeepsOthers
<1>. DEFINE R == [reader EXCEPT ![r] = Idle]
            H == Held(current, reader, flush.v, compaction.v)
            K == MemHeld(mem, imm, reader)
<1>0. TypeInv /\ HeapIsSound
  BY DEF Inv
<1>1. Sound(heap, H, K, Built)
  BY <1>0 DEF HeapIsSound
<1>2. UNCHANGED <<current, mem, imm, disk, pending, number, flush, compaction, bg_error>>
  BY DEF GetEnds, RecordReadSample, CloseIterator
<1>3. ASSUME NEW h, Sound(h, H, K, Built), PartOf(h, heap), reader[r].op \in {"Get", "Iterator"},
             heap' = Released(h, r), reader' = R
      PROVE  Inv' /\ KeepsOthers
  <2>1. /\ Sound(heap', Held(current, reader', flush.v, compaction.v), MemHeld(mem, imm, reader'), Built)
        /\ PartOf(heap', h) /\ reader' \in [Readers -> ReaderStates]
    BY <1>0, <1>3, ReleasedKeeps
  <2>. HIDE DEF H, K, R
  <2>2. HeapIsSound'
    BY <1>2, <2>1 DEF HeapIsSound, Built
  <2>3. TypeInv'
    BY <1>0, <1>2, <2>1 DEF TypeInv
  <2>4. PartOf(heap', heap)
    BY <1>3, <2>1, PartOfTransitive
  <2>. QED  BY <1>2, <2>2, <2>3, <2>4, QuietStep
<1>4. PartOf(heap, heap)
  BY DEF PartOf
<1>. HIDE DEF R, H, K
<1>5. CASE CloseIterator(r)
  BY <1>1, <1>3, <1>4, <1>5 DEF CloseIterator, R
<1>6. CASE GetEnds(r) /\ heap' = Released(heap, r)
  BY <1>1, <1>3, <1>4, <1>6 DEF GetEnds, R
<1>7. CASE /\ GetEnds(r)
           /\ \E c \in Charged(heap.v[reader[r].v]) : heap' = Released(UpdateStats(heap, reader[r].v, c), r)
  <2>1. PICK c \in Charged(heap.v[reader[r].v]) : heap' = Released(UpdateStats(heap, reader[r].v, c), r)
    BY <1>7
  <2>2. reader[r].op = "Get" /\ reader' = R
    BY <1>7 DEF GetEnds, R
  <2>3. reader[r].v \in DOMAIN heap.v
    <3>1. reader[r].v \in Ids
      BY <1>0, <2>2, ReaderShape DEF TypeInv
    <3>2. <<"reader", r>> \in H[reader[r].v]
      BY <3>1, HeldMember DEF H
    <3>. QED  BY <1>1, <3>1, <3>2 DEF Sound, VersionsCounted
  <2>4. /\ Sound(UpdateStats(heap, reader[r].v, c), H, K, Built)
        /\ PartOf(UpdateStats(heap, reader[r].v, c), heap)
    BY <1>1, <2>3, SoundUpdateStats
  <2>. QED  BY <1>3, <2>1, <2>2, <2>4
<1>8. CASE RecordReadSample(r)
  <2>1. PICK c \in Charged(heap.v[current]) : heap' = UpdateStats(heap, current, c)
    BY <1>8 DEF RecordReadSample
  <2>2. current \in DOMAIN heap.v
    BY <1>0, AliveInv
  <2>3. Sound(heap', H, K, Built) /\ PartOf(heap', heap) /\ UNCHANGED reader
    BY <1>1, <1>8, <2>1, <2>2, SoundUpdateStats DEF RecordReadSample
  <2>4. HeapIsSound'
    BY <1>2, <2>3 DEF HeapIsSound, Built, H, K
  <2>5. TypeInv'
    BY <1>0, <1>2, <2>3 DEF TypeInv
  <2>. QED  BY <1>2, <2>3, <2>4, <2>5, QuietStep
<1>. QED  BY <1>5, <1>6, <1>7, <1>8 DEF GetEnds

\* MakeRoomForWrite switches memtables.
LEMMA SwitchStep ==
  ASSUME Inv, SwitchMemTable
  PROVE  Inv' /\ KeepsOthers
<1>. DEFINE H == Held(current, reader, flush.v, compaction.v)
            K == MemHeld(mem, imm, reader)
            i == Alloc(heap.m)
<1>0. TypeInv /\ HeapIsSound
  BY DEF Inv
<1>1. /\ imm = Nil /\ imm' = mem /\ mem' = i
      /\ heap' = WithMem(heap, i)
      /\ UNCHANGED <<current, disk, pending, number, reader, flush, compaction, bg_error>>
  BY DEF SwitchMemTable, WithMem
<1>2. Sound(heap, H, K, Built)
  BY <1>0 DEF HeapIsSound
<1>3. mem \in Ids
  BY <1>0 DEF TypeInv
<1>4. Sound(heap', H, Plus(K, i, Db), Built) /\ PartOf(heap', heap) /\ i \in Ids /\ i \notin DOMAIN heap.m
  BY <1>1, <1>2, SoundNewMem
<1>. HIDE DEF i
<1>5. MemHeld(mem', imm', reader') = Plus(K, i, Db)
  BY <1>1, <1>3, <1>4, MemSwitched
<1>6. i # mem
  <2>1. Db \in K[mem]
    BY <1>3, MemHeldMember
  <2>2. mem \in DOMAIN heap.m
    BY <1>2, <1>3, <2>1 DEF Sound, MemsCounted
  <2>. QED  BY <1>4, <2>2
<1>7. HeapIsSound'
  BY <1>1, <1>4, <1>5 DEF HeapIsSound, Built
<1>8. TypeInv'
  BY <1>0, <1>1, <1>3, <1>4, <1>6 DEF TypeInv, Ids
<1>. QED  BY <1>1, <1>4, <1>7, <1>8, QuietStep

-------------------------------------------------------------------------------
(* CompactMemTable *)

\* The current version stays, through a heap that is part of both.
LEMMA SameCurrent ==
  ASSUME TypeInv, HeapIsSound, TypeInv', HeapIsSound', current' = current,
         NEW h, FilesCounted(h), current \in DOMAIN h.v, PartOf(h, heap),
         PartOf(h, heap') \/ PartOf(heap', h)
  PROVE  KeepsOthers
<1>1. /\ FilesCounted(heap) /\ FilesCounted(heap')
      /\ current \in DOMAIN heap.v /\ current \in DOMAIN heap'.v
  BY AliveInv, AliveNext
<1>2. /\ FilesOf(h.v[current]) = FilesOf(heap.v[current])
      /\ \A o \in FilesOf(heap.v[current]) : h.f[o].number = heap.f[o].number
  BY <1>1, SameTables
<1>3. /\ FilesOf(heap'.v[current]) = FilesOf(h.v[current])
      /\ \A o \in FilesOf(h.v[current]) : heap'.f[o].number = h.f[o].number
  BY <1>1, SameTables
<1>. QED  BY <1>2, <1>3 DEF KeepsOthers

\* CompactMemTable takes a number and a base.
LEMMA BeginFlushStep ==
  ASSUME Inv, BeginFlush
  PROVE  Inv' /\ KeepsOthers
<1>. DEFINE H == Held(current, reader, Nil, compaction.v)
            K == MemHeld(mem, imm, reader)
            x == <<"flush", 0>>
<1>0. TypeInv /\ HeapIsSound /\ OneAtATime /\ Numbers /\ Successors
  BY DEF Inv
<1>1. /\ flush = FlushIdle /\ compaction.pc \in {"idle", "merge"}
      /\ number' = number + 1 /\ pending' = pending \cup {number + 1} /\ heap' = Ref(heap, current)
      /\ flush' = [pc |-> "build", v |-> current, new |-> number + 1, built |-> Nil]
      /\ UNCHANGED <<current, mem, imm, disk, reader, compaction, bg_error>>
  BY DEF BeginFlush
<1>2. flush.v = Nil /\ flush.built = Nil /\ flush'.v = current /\ flush'.built = Nil /\ flush'.pc = "build"
      /\ flush'.new = number + 1
  BY <1>1 DEF FlushIdle
<1>3. Built' = Built
  BY <1>1, <1>2 DEF Built
<1>4. current \in DOMAIN heap.v /\ Built \ {current} = Built /\ FilesCounted(heap)
  BY <1>0, AliveInv
<1>5. Sound(heap, H, K, Built) /\ current \in Ids
  BY <1>0, <1>2 DEF HeapIsSound, TypeInv
<1>6. Held(current, reader, current, compaction.v) = Plus(H, current, x) /\ x \notin H[current]
  BY <1>5, HeldFlush
<1>. HIDE DEF H, x
<1>7. Sound(heap', Plus(H, current, x), K, Built) /\ PartOf(heap', heap)
  BY <1>1, <1>4, <1>5, <1>6, SoundRef
<1>8. HeapIsSound'
  BY <1>1, <1>2, <1>3, <1>6, <1>7 DEF HeapIsSound
<1>9. TypeInv'
  <2>1. number \in Nat /\ number + 1 \in Ids
    BY <1>0 DEF TypeInv, Ids, Nil
  <2>2. flush' \in FlushStates
    BY <1>1, <1>5, <2>1 DEF FlushStates
  <2>. QED  BY <1>0, <1>1, <2>1, <2>2 DEF TypeInv
<1>10. FilesCounted(heap') /\ current \in DOMAIN heap'.v
  BY <1>1, <1>8, <1>9, AliveNext
<1>11. LiveNumbers(heap') \subseteq LiveNumbers(heap)
  BY <1>7, <1>10, PartOfLive
<1>12. Numbers'
  <2>1. number \in Nat
    BY <1>0 DEF TypeInv
  <2>2. compaction.new # number + 1
    <3>1. compaction.pc = "idle" => compaction.new = Nil
      BY <1>0, CompactionShape DEF TypeInv
    <3>2. compaction.new = Nil \/ compaction.new \in 1..number
      BY <1>0, <1>1, <3>1 DEF Numbers, MergeNumbers
    <3>. QED  BY <2>1, <3>2 DEF Nil
  <2>3. /\ LiveNumbers(heap') \subseteq disk /\ LiveNumbers(heap') \subseteq 0..number
        /\ number + 1 \notin LiveNumbers(heap')
    BY <1>0, <1>11, <2>1 DEF Numbers
  <2>4. LiveNumbers(heap)' \subseteq disk' /\ LiveNumbers(heap)' \subseteq 0..number'
    BY <1>1, <2>1, <2>3
  <2>5. FlushNumbers'
    BY <1>1, <1>2, <2>1, <2>2, <2>3 DEF FlushNumbers
  <2>6. MergeNumbers'
    BY <1>0, <1>1, <1>11, <2>1 DEF Numbers, MergeNumbers
  <2>7. flush.pc # "build"
    BY <1>1 DEF FlushIdle
  <2>. QED  BY <1>0, <1>1, <1>2, <2>4, <2>5, <2>6, <2>7 DEF Numbers
<1>13. Successors'
  <2>1. compaction.pc = "merge" => compaction.v \in Ids /\ compaction.v # Nil
    BY <1>0, CompactionShape DEF TypeInv, Ids
  <2>2. compaction.pc = "merge" => compaction.v \in DOMAIN heap.v /\ compaction.v \in DOMAIN heap'.v
    BY <1>0, <1>1, <1>8, <1>9, <2>1, AliveInv, AliveNext
  <2>3. compaction.pc = "merge" => Grows(heap', compaction.v, current)
    BY <1>0, <1>4, <1>7, <1>10, <2>2, GrowsStays DEF Successors
  <2>. QED  BY <1>1, <1>2, <2>3 DEF Successors
<1>14. KeepsOthers
  BY <1>0, <1>1, <1>4, <1>7, <1>8, <1>9, SameCurrent DEF PartOf
<1>15. OneAtATime'
  BY <1>1 DEF OneAtATime
<1>. QED  BY <1>8, <1>9, <1>12, <1>13, <1>14, <1>15 DEF Inv

\* The end of the unlocked BuildTable: the version that the flush has kept is let go.
LEMMA FlushLetsGo ==
  ASSUME TypeInv, HeapIsSound, OneAtATime, flush.pc = "build"
  PROVE  LET h == Unref(heap, flush.v)
         IN  /\ Sound(h, Held(current, reader, Nil, compaction.v), MemHeld(mem, imm, reader), {})
             /\ PartOf(h, heap) /\ current \in DOMAIN h.v /\ FilesCounted(h)
             /\ compaction.v # Nil => compaction.v \in DOMAIN h.v
             /\ flush.built = Nil /\ compaction.built = Nil /\ compaction.pc \in {"idle", "merge"}
             /\ flush.new \in Ids
<1>. DEFINE H == Held(current, reader, flush.v, compaction.v)
            K == MemHeld(mem, imm, reader)
            x == <<"flush", 0>>
            h == Unref(heap, flush.v)
<1>1. flush.v \in Ids /\ flush.built = Nil /\ flush.new \in Ids /\ flush # FlushIdle
  BY FlushShape DEF TypeInv, FlushIdle
<1>2. compaction.pc \in {"idle", "merge"} /\ compaction.built = Nil /\ compaction.v \in Nat
  BY <1>1, CompactionShape DEF TypeInv, OneAtATime
<1>3. Sound(heap, H, K, {})
  <2>1. Built = {}
    BY <1>1, <1>2 DEF Built
  <2>. QED  BY <2>1 DEF HeapIsSound
<1>4. Held(current, reader, Nil, compaction.v) = Minus(H, flush.v, x) /\ x \in H[flush.v]
  BY <1>1, HeldFlush
<1>. HIDE DEF H, x
<1>5. Sound(h, Minus(H, flush.v, x), K, {}) /\ PartOf(h, heap)
  BY <1>1, <1>3, <1>4, SoundUnref
<1>. HIDE DEF h, K
<1>6. /\ current \in DOMAIN h.v /\ FilesCounted(h)
      /\ compaction.v # Nil => compaction.v \in DOMAIN h.v
  <2>1. current \in Ids /\ Nil \in Nat
    BY DEF TypeInv, Nil
  <2>2. Sound(h, Held(current, reader, Nil, compaction.v), K, {})
    BY <1>4, <1>5
  <2>. QED  BY <1>2, <2>1, <2>2, Alive
<1>. QED  BY <1>1, <1>2, <1>4, <1>5, <1>6 DEF h, K

\* The table cannot be written.
LEMMA FlushFailsStep ==
  ASSUME Inv, FlushFails
  PROVE  Inv' /\ KeepsOthers
<1>0. TypeInv /\ HeapIsSound /\ OneAtATime /\ Numbers /\ Successors
  BY DEF Inv
<1>1. /\ flush.pc = "build" /\ disk \subseteq disk' /\ pending' = pending \ {flush.new}
      /\ heap' = Unref(heap, flush.v) /\ flush' = FlushIdle
      /\ UNCHANGED <<current, mem, imm, number, reader, compaction>>
  BY DEF FlushFails
<1>2. /\ Sound(heap', Held(current, reader, Nil, compaction.v), MemHeld(mem, imm, reader), {})
      /\ PartOf(heap', heap) /\ current \in DOMAIN heap'.v /\ FilesCounted(heap')
      /\ compaction.v # Nil => compaction.v \in DOMAIN heap'.v
      /\ compaction.built = Nil /\ compaction.pc \in {"idle", "merge"}
  BY <1>0, <1>1, FlushLetsGo
<1>3. flush'.v = Nil /\ flush'.built = Nil /\ flush'.pc = "idle" /\ flush' \in FlushStates
  BY <1>1 DEF FlushIdle, FlushStates
<1>4. Built' = {}
  BY <1>1, <1>2, <1>3 DEF Built
<1>5. HeapIsSound'
  BY <1>1, <1>2, <1>3, <1>4 DEF HeapIsSound
<1>6. TypeInv'
  BY <1>0, <1>1, <1>3 DEF TypeInv
<1>7. LiveNumbers(heap') \subseteq LiveNumbers(heap)
  BY <1>2, PartOfLive
<1>8. Numbers'
  <2>1. FlushNumbers' /\ MergeNumbers'
    BY <1>0, <1>1, <1>3, <1>7 DEF Numbers, FlushNumbers, MergeNumbers
  <2>2. LiveNumbers(heap') \subseteq disk' /\ LiveNumbers(heap') \subseteq 0..number'
    BY <1>0, <1>1, <1>7 DEF Numbers
  <2>. QED  BY <1>0, <1>1, <1>3, <2>1, <2>2 DEF Numbers
<1>9. Successors'
  <2>1. /\ compaction.pc = "merge" => compaction.v \in DOMAIN heap.v /\ compaction.v \in DOMAIN heap'.v
        /\ FilesCounted(heap) /\ current \in DOMAIN heap.v
    <3>1. compaction.pc = "merge" => compaction.v \in Ids /\ compaction.v # Nil
      BY <1>0, CompactionShape DEF TypeInv, Ids
    <3>. QED  BY <1>0, <1>2, <3>1, AliveInv
  <2>2. compaction.pc = "merge" => Grows(heap', compaction.v, current)
    BY <1>0, <1>2, <2>1, GrowsStays DEF Successors
  <2>. QED  BY <1>1, <1>2, <1>3, <2>2 DEF Successors
<1>10. KeepsOthers
  BY <1>0, <1>1, <1>2, <1>5, <1>6, SameCurrent DEF PartOf
<1>11. OneAtATime'
  BY <1>1 DEF OneAtATime
<1>. QED  BY <1>5, <1>6, <1>8, <1>9, <1>10, <1>11 DEF Inv

\* The table is written and its version is built.
LEMMA EndFlushStep ==
  ASSUME VersionsAssumption, Inv, EndFlush
  PROVE  Inv' /\ KeepsOthers
<1>. DEFINE H == Held(current, reader, Nil, compaction.v)
            K == MemHeld(mem, imm, reader)
            h == Unref(heap, flush.v)
            i == Alloc(h.v)
<1>0. TypeInv /\ HeapIsSound /\ OneAtATime /\ Numbers /\ Successors
  BY DEF Inv
<1>1. PICK added \in {{<<l, flush.new>>} : l \in Levels \ {LastLevel}} \cup {{}} :
        /\ flush.pc = "build" /\ pending' = pending \ {flush.new} /\ disk' = disk \cup {a[2] : a \in added}
        /\ heap' = BuildVersion(h, current, {}, added)
        /\ flush' = [flush EXCEPT !.pc = "apply", !.v = Nil, !.built = i]
        /\ UNCHANGED <<current, mem, imm, number, reader, compaction, bg_error>>
  BY DEF EndFlush
<1>2. /\ Sound(h, H, K, {}) /\ PartOf(h, heap) /\ current \in DOMAIN h.v /\ FilesCounted(h)
      /\ compaction.v # Nil => compaction.v \in DOMAIN h.v
      /\ flush.built = Nil /\ compaction.built = Nil /\ compaction.pc \in {"idle", "merge"}
      /\ flush.new \in Ids
  BY <1>0, <1>1, FlushLetsGo
<1>. HIDE DEF h
<1>3. LiveNumbers(h) \subseteq LiveNumbers(heap) /\ flush.new \notin LiveNumbers(heap) /\ flush.new \in 1..number
      /\ flush.new # compaction.new
  BY <1>0, <1>1, <1>2, PartOfLive DEF Numbers, FlushNumbers
<1>4. {a[2] : a \in added} \subseteq {flush.new}
  OBVIOUS
<1>5. Addition(h, current, {}, added)
  <2>1. added = {} \/ \E l \in Levels, n \in Nat : added = {<<l, n>>}
    BY <1>2 DEF Ids
  <2>2. ASSUME NEW k \in Levels, NEW p \in h.v[current].files[k] PROVE h.f[p].number # flush.new
    <3>1. p \in FilesOf(h.v[current])
      BY FilesOfMember
    <3>2. h.f[p].number \in LiveNumbers(h)
      BY <1>2, <3>1 DEF LiveNumbers
    <3>. QED  BY <1>3, <3>2
  <2>. QED  BY <1>4, <2>1, <2>2 DEF Addition
<1>6. /\ Sound(heap', H, K, {i}) /\ PartOf(h, heap') /\ i \in Ids
      /\ \A k \in Levels : h.v[current].files[k] \subseteq heap'.v[i].files[k]
      /\ LiveNumbers(heap') \subseteq LiveNumbers(h) \cup {a[2] : a \in added}
  <2>1. /\ Sound(heap', H, K, {} \cup {i}) /\ PartOf(h, heap') /\ i \in Ids
        /\ \A k \in Levels : \A p \in h.v[current].files[k] :
             <<k, h.f[p].number>> \notin {} => p \in heap'.v[i].files[k]
        /\ LiveNumbers(heap') \subseteq LiveNumbers(h) \cup {a[2] : a \in added}
    BY <1>1, <1>2, <1>5, SoundBuild
  <2>2. {} \cup {i} = {i}
    OBVIOUS
  <2>. QED  BY <2>1, <2>2
<1>. HIDE DEF i
<1>7. /\ flush' \in FlushStates /\ flush'.pc = "apply" /\ flush'.v = Nil /\ flush'.built = i
      /\ flush' # FlushIdle
  <2>1. flush \in [pc : {"build"}, v : Ids, new : Ids, built : {Nil}]
    BY <1>0, <1>1 DEF TypeInv, FlushStates, FlushIdle
  <2>2. flush' = [pc |-> "apply", v |-> Nil, new |-> flush.new, built |-> i]
    BY <1>1, <2>1
  <2>. QED  BY <1>2, <1>6, <2>2 DEF FlushStates, FlushIdle
<1>8. Built' = {i}
  <2>1. i # Nil
    BY <1>6 DEF Ids
  <2>. QED  BY <1>1, <1>2, <1>7, <2>1 DEF Built
<1>9. HeapIsSound'
  BY <1>1, <1>6, <1>7, <1>8 DEF HeapIsSound
<1>10. TypeInv'
  BY <1>0, <1>1, <1>7 DEF TypeInv
<1>11. Numbers'
  <2>1. LiveNumbers(heap') \subseteq disk' /\ LiveNumbers(heap') \subseteq 0..number
    <3>1. 1..number \subseteq 0..number
      BY <1>0 DEF TypeInv
    <3>. QED  BY <1>0, <1>1, <1>3, <1>4, <1>6, <3>1 DEF Numbers
  <2>2. MergeNumbers'
    BY <1>0, <1>1, <1>3, <1>4, <1>6 DEF Numbers, MergeNumbers
  <2>. QED  BY <1>0, <1>1, <1>7, <2>1, <2>2 DEF Numbers, FlushNumbers
<1>12. Successors'
  <2>1. /\ FilesCounted(heap) /\ current \in DOMAIN heap.v /\ FilesCounted(heap')
        /\ current \in DOMAIN heap'.v /\ i \in DOMAIN heap'.v
    BY <1>0, <1>1, <1>8, <1>9, <1>10, AliveInv, AliveNext
  <2>2. Grows(heap', current, i)
    <3>1. heap'.v[current].files = h.v[current].files
      BY <1>2, <1>6 DEF PartOf
    <3>. QED  BY <1>6, <3>1 DEF Grows
  <2>3. compaction.pc = "merge" => /\ compaction.v \in DOMAIN heap.v /\ compaction.v \in DOMAIN h.v
                                   /\ compaction.v \in DOMAIN heap'.v
    <3>1. compaction.pc = "merge" => compaction.v # Nil
      BY <1>0, CompactionShape DEF TypeInv, Ids
    <3>. QED  BY <1>0, <1>2, <1>6, <3>1, AliveInv DEF PartOf
  <2>4. compaction.pc = "merge" => Grows(h, compaction.v, current)
    BY <1>0, <1>2, <2>1, <2>3, GrowsStays DEF Successors
  <2>5. compaction.pc = "merge" => Grows(heap', compaction.v, current)
    BY <1>2, <1>6, <2>1, <2>3, <2>4, GrowsStays
  <2>. QED  BY <1>1, <1>2, <1>7, <2>2, <2>5 DEF Successors
<1>13. KeepsOthers
  BY <1>0, <1>1, <1>2, <1>6, <1>9, <1>10, SameCurrent
<1>14. OneAtATime'
  BY <1>1, <1>2 DEF OneAtATime
<1>. QED  BY <1>9, <1>10, <1>11, <1>12, <1>13, <1>14 DEF Inv

\* VersionSet::AppendVersion: the current version is let go, and the one that was built is held.
LEMMA AppendKeeps ==
  ASSUME NEW h, NEW c \in Ids, NEW R, NEW f, NEW k, NEW K, NEW S, Sound(h, Held(c, R, f, k), K, S),
         NEW d \in S
  PROVE  LET g == Ref(Unref(h, c), d)
         IN  Sound(g, Held(d, R, f, k), K, S \ {d}) /\ PartOf(g, h)
<1>. DEFINE H == Held(c, R, f, k)
            x == <<"current", 0>>
            G == Minus(H, c, x)
            h1 == Unref(h, c)
            g == Ref(h1, d)
<1>1. d \in Ids
  BY SoundIds
<1>2. Held(d, R, f, k) = Plus(G, d, x) /\ x \in H[c] /\ x \notin G[d]
  BY <1>1, HeldCurrent
<1>. HIDE DEF x, H
<1>3. Sound(h1, G, K, S) /\ PartOf(h1, h)
  BY <1>2, SoundUnref DEF H
<1>. HIDE DEF h1, G
<1>4. d \in DOMAIN h1.v
  BY <1>3 DEF Sound
<1>5. Sound(g, Plus(G, d, x), K, S \ {d}) /\ PartOf(g, h1)
  BY <1>2, <1>3, <1>4, SoundRef
<1>. HIDE DEF g
<1>6. PartOf(g, h)
  BY <1>3, <1>5, PartOfTransitive
<1>. QED  BY <1>2, <1>5, <1>6 DEF g, h1

\* Nobody has an older version, and nothing is being written: the tables that are left are those
\* of the current version.
LEMMA NoGarbage ==
  ASSUME TypeInv', HeapIsSound', Numbers', flush' = FlushIdle, compaction' = CompactionIdle,
         reader' = reader, \A r \in Readers : reader[r].v \in {Nil, current'},
         disk' = disk \cap (pending' \cup LiveNumbers(heap')), LiveNumbers(heap') \subseteq disk
  PROVE  disk' = {heap'.f[o].number : o \in FilesOf(heap'.v[current'])}
<1>. DEFINE H == Held(current', reader', flush'.v, compaction'.v)
<1>1. /\ flush'.v = Nil /\ flush'.built = Nil /\ flush'.pc = "idle"
      /\ compaction'.v = Nil /\ compaction'.built = Nil /\ compaction'.new = Nil
  <2>1. FlushIdle.v = Nil /\ FlushIdle.built = Nil /\ FlushIdle.pc = "idle"
    BY DEF FlushIdle
  <2>2. CompactionIdle.v = Nil /\ CompactionIdle.built = Nil /\ CompactionIdle.new = Nil
    BY DEF CompactionIdle
  <2>. QED  BY <2>1, <2>2
<1>2. pending' = {}
  BY <1>1 DEF Numbers
<1>3. Built' = {} /\ current' \in DOMAIN heap'.v
  BY <1>1, AliveNext DEF Built
<1>4. Sound(heap', H, MemHeld(mem', imm', reader'), {})
  BY <1>3 DEF HeapIsSound
<1>5. DOMAIN heap'.v \subseteq Ids /\ \A i \in DOMAIN heap'.v : H[i] # {}
  <2>. HIDE DEF H
  <2>1. DOMAIN heap'.v \subseteq Ids
    BY <1>4, SoundIds
  <2>. QED  BY <1>4, <2>1 DEF Sound
<1>6. \A i \in DOMAIN heap'.v : i = current'
  <2>. SUFFICES ASSUME NEW i \in DOMAIN heap'.v PROVE i = current'
    OBVIOUS
  <2>1. i \in Ids /\ i # Nil /\ H[i] # {}
    BY <1>5 DEF Ids
  <2>2. PICK x : x \in H[i]
    BY <2>1
  <2>3. i = current' \/ \E r \in Readers : reader'[r].v = i
    BY <1>1, <2>1, <2>2, HeldMember
  <2>. QED  BY <2>1, <2>3
<1>7. LiveNumbers(heap') = {heap'.f[o].number : o \in FilesOf(heap'.v[current'])}
  <2>1. DOMAIN heap'.v = {current'}
    BY <1>3, <1>6
  <2>. QED  BY <2>1 DEF LiveNumbers
<1>. QED  BY <1>2, <1>7

\* LogAndApply installs the flush's version, and obsolete files are deleted.
LEMMA FlushAppliedStep ==
  ASSUME Inv, FlushApplied
  PROVE  Inv' /\ KeepsOthers /\ LeavesNoGarbage
<1>. DEFINE H == Held(flush.built, reader, Nil, compaction.v)
            K == MemHeld(mem, imm, reader)
            d == flush.built
            h == Ref(Unref(heap, current), d)
<1>0. TypeInv /\ HeapIsSound /\ OneAtATime /\ Numbers /\ Successors
  BY DEF Inv
<1>1. /\ flush.pc = "apply" /\ current' = d /\ imm' = Nil /\ heap' = UnrefMem(h, imm)
      /\ disk' = (IF bg_error THEN disk ELSE disk \cap (pending \cup LiveNumbers(heap')))
      /\ flush' = FlushIdle /\ UNCHANGED <<mem, pending, number, reader, compaction, bg_error>>
  BY DEF FlushApplied, AppendVersion, DeleteObsoleteFiles
<1>2. flush.v = Nil /\ d \in Ids /\ flush # FlushIdle /\ d # Nil
  BY <1>0, <1>1, FlushShape DEF TypeInv, FlushIdle, Ids
<1>3. compaction.pc \in {"idle", "merge"} /\ compaction.built = Nil
  BY <1>0, <1>2, CompactionShape DEF TypeInv, OneAtATime
<1>4. Built = {d}
  BY <1>2, <1>3 DEF Built
<1>5. current \in Ids /\ mem \in Ids /\ imm \in Nat /\ mem # imm
  BY <1>0 DEF TypeInv
<1>6. Sound(h, H, K, {}) /\ PartOf(h, heap)
  <2>1. Sound(heap, Held(current, reader, Nil, compaction.v), K, {d})
    BY <1>0, <1>2, <1>4 DEF HeapIsSound
  <2>2. Sound(h, H, K, {d} \ {d}) /\ PartOf(h, heap)
    BY <1>5, <2>1, AppendKeeps
  <2>3. {d} \ {d} = {}
    OBVIOUS
  <2>. QED  BY <2>2, <2>3
<1>7. MemHeld(mem, Nil, reader) = Minus(K, imm, Db) /\ (imm # Nil => Db \in K[imm])
  BY <1>5, MemDropped
<1>. HIDE DEF h, K, H
<1>8. Sound(heap', H, MemHeld(mem, Nil, reader), {}) /\ PartOf(heap', h)
  BY <1>1, <1>5, <1>6, <1>7, SoundUnrefMem
<1>9. PartOf(heap', heap)
  BY <1>6, <1>8, PartOfTransitive
<1>10. flush'.v = Nil /\ flush'.built = Nil /\ flush'.pc = "idle" /\ flush' \in FlushStates
  BY <1>1 DEF FlushIdle, FlushStates
<1>11. HeapIsSound'
  <2>1. Built' = {}
    BY <1>1, <1>3, <1>10 DEF Built
  <2>. QED  BY <1>1, <1>8, <1>10, <2>1 DEF HeapIsSound, H
<1>12. TypeInv'
  <2>1. mem # Nil /\ Nil \in Nat
    BY <1>5 DEF Ids, Nil
  <2>. QED  BY <1>0, <1>1, <1>2, <1>10, <2>1 DEF TypeInv
<1>13. /\ FilesCounted(heap) /\ FilesCounted(heap') /\ current \in DOMAIN heap.v
       /\ d \in DOMAIN heap.v /\ d \in DOMAIN heap'.v
       /\ compaction.v # Nil => compaction.v \in DOMAIN heap.v /\ compaction.v \in DOMAIN heap'.v
  BY <1>0, <1>1, <1>4, <1>11, <1>12, AliveInv, AliveNext
<1>14. LiveNumbers(heap') \subseteq LiveNumbers(heap)
  BY <1>9, <1>13, PartOfLive
<1>15. Numbers'
  <2>1. LiveNumbers(heap') \subseteq disk' /\ LiveNumbers(heap') \subseteq 0..number
    BY <1>0, <1>1, <1>14 DEF Numbers
  <2>2. MergeNumbers'
    BY <1>0, <1>1, <1>14 DEF Numbers, MergeNumbers
  <2>. QED  BY <1>0, <1>1, <1>10, <2>1, <2>2 DEF Numbers, FlushNumbers
<1>16. Successors'
  <2>1. compaction.pc = "merge" => compaction.v # Nil
    BY <1>0, CompactionShape DEF TypeInv, Ids
  <2>2. compaction.pc = "merge" => Grows(heap, compaction.v, d)
    BY <1>0, <1>1 DEF Successors, Grows
  <2>3. compaction.pc = "merge" => Grows(heap', compaction.v, d)
    BY <1>9, <1>13, <2>1, <2>2, GrowsStays
  <2>. QED  BY <1>1, <1>3, <1>10, <2>3 DEF Successors
<1>17. KeepsOthers
  <2>1. Replaces(heap, current, d, {})
    BY <1>0, <1>1, GrowsReplaces DEF Successors
  <2>2. \A o \in FilesOf(heap.v[current]) : \E p \in FilesOf(heap'.v[d]) : heap'.f[p].number = heap.f[o].number
    BY <1>9, <1>13, <2>1, ReplacesStays
  <2>. QED  BY <1>1, <2>2 DEF KeepsOthers
<1>18. LeavesNoGarbage
  <2>. SUFFICES ASSUME flush' = FlushIdle, compaction' = CompactionIdle, ~bg_error',
                       \A r \in Readers : reader[r].v \in {Nil, current'}
                PROVE  disk' = {heap'.f[o].number : o \in FilesOf(heap'.v[current'])}
    BY DEF LeavesNoGarbage
  <2>1. disk' = disk \cap (pending' \cup LiveNumbers(heap')) /\ LiveNumbers(heap') \subseteq disk
    BY <1>0, <1>1, <1>14 DEF Numbers
  <2>. QED  BY <1>1, <1>11, <1>12, <1>15, <2>1, NoGarbage
<1>19. OneAtATime'
  BY <1>1 DEF OneAtATime
<1>. QED  BY <1>11, <1>12, <1>15, <1>16, <1>17, <1>18, <1>19 DEF Inv

\* LogAndApply fails for a flush.
LEMMA FlushNotAppliedStep ==
  ASSUME Inv, FlushNotApplied
  PROVE  Inv' /\ KeepsOthers
<1>. DEFINE H == Held(current, reader, Nil, compaction.v)
            K == MemHeld(mem, imm, reader)
            d == flush.built
<1>0. TypeInv /\ HeapIsSound /\ OneAtATime /\ Numbers /\ Successors
  BY DEF Inv
<1>1. /\ flush.pc = "apply" /\ heap' = DeleteVersion(heap, d) /\ flush' = FlushIdle
      /\ UNCHANGED <<current, mem, imm, disk, pending, number, reader, compaction>>
  BY DEF FlushNotApplied
<1>2. flush.v = Nil /\ d \in Ids /\ flush # FlushIdle /\ d # Nil
  BY <1>0, <1>1, FlushShape DEF TypeInv, FlushIdle, Ids
<1>3. compaction.pc \in {"idle", "merge"} /\ compaction.built = Nil
  BY <1>0, <1>2, CompactionShape DEF TypeInv, OneAtATime
<1>4. Built = {d}
  BY <1>2, <1>3 DEF Built
<1>5. Sound(heap', H, K, {}) /\ PartOf(heap', heap)
  <2>1. Sound(heap, H, K, {d})
    BY <1>0, <1>2, <1>4 DEF HeapIsSound
  <2>2. Sound(heap', H, K, {d} \ {d}) /\ PartOf(heap', heap)
    BY <1>1, <2>1, SoundDelete
  <2>3. {d} \ {d} = {}
    OBVIOUS
  <2>. QED  BY <2>2, <2>3
<1>6. flush'.v = Nil /\ flush'.built = Nil /\ flush'.pc = "idle" /\ flush' \in FlushStates
  BY <1>1 DEF FlushIdle, FlushStates
<1>7. HeapIsSound'
  <2>1. Built' = {}
    BY <1>1, <1>3, <1>6 DEF Built
  <2>. QED  BY <1>1, <1>5, <1>6, <2>1 DEF HeapIsSound
<1>8. TypeInv'
  BY <1>0, <1>1, <1>6 DEF TypeInv
<1>9. /\ FilesCounted(heap) /\ FilesCounted(heap')
      /\ current \in DOMAIN heap.v /\ current \in DOMAIN heap'.v
      /\ compaction.v # Nil => compaction.v \in DOMAIN heap.v /\ compaction.v \in DOMAIN heap'.v
  BY <1>0, <1>1, <1>7, <1>8, AliveInv, AliveNext
<1>10. LiveNumbers(heap') \subseteq LiveNumbers(heap)
  BY <1>5, <1>9, PartOfLive
<1>11. Numbers'
  BY <1>0, <1>1, <1>6, <1>10 DEF Numbers, FlushNumbers, MergeNumbers
<1>12. Successors'
  <2>1. compaction.pc = "merge" => compaction.v # Nil
    BY <1>0, CompactionShape DEF TypeInv, Ids
  <2>2. compaction.pc = "merge" => Grows(heap', compaction.v, current)
    BY <1>0, <1>5, <1>9, <2>1, GrowsStays DEF Successors
  <2>. QED  BY <1>1, <1>3, <1>6, <2>2 DEF Successors
<1>13. KeepsOthers
  BY <1>0, <1>1, <1>5, <1>7, <1>8, <1>9, SameCurrent DEF PartOf
<1>14. OneAtATime'
  BY <1>1 DEF OneAtATime
<1>. QED  BY <1>7, <1>8, <1>11, <1>12, <1>13, <1>14 DEF Inv

-------------------------------------------------------------------------------
(* BackgroundCompaction *)

\* What an edit deletes: the inputs, at their levels
LEMMA DeletionsMember ==
  ASSUME NEW i, NEW l, NEW ins, NEW y
  PROVE  y \in Deletions(i, l, ins) <=>
           \E k \in {l, l + 1} : \E q \in ins \cap heap.v[i].files[k] : y = <<k, heap.f[q].number>>
BY DEF Deletions

\* The inputs are files of the current version.
LEMMA InputsOf ==
  ASSUME VersionsAssumption, TypeInv, HeapIsSound, NEW l \in 0..(LastLevel - 1),
         NEW o \in heap.v[current].files[l], NEW ins \in InputSets(l, o)
  PROVE  /\ l \in Levels /\ l + 1 \in Levels /\ o \in ins /\ o \in DOMAIN heap.f /\ ins \subseteq DOMAIN heap.f
         /\ ins \subseteq Ids /\ heap.f[o].number \in LiveNumbers(heap) /\ heap.f[o].number \in Nat
         /\ Cardinality(ins) = 1 => ins = {o}
<1>1. l \in Levels /\ l + 1 \in Levels /\ 0 \in Levels
  BY DEF VersionsAssumption, Levels
<1>2. HeapInv(heap) /\ FilesCounted(heap) /\ current \in DOMAIN heap.v
  BY AliveInv
<1>3. \A k \in Levels : heap.v[current].files[k] \subseteq FilesOf(heap.v[current])
  BY FilesOfMember
<1>4. FilesOf(heap.v[current]) \subseteq DOMAIN heap.f
  BY <1>2 DEF FilesCounted
<1>5. o \in ins /\ ins \subseteq DOMAIN heap.f
  BY <1>1, <1>3, <1>4 DEF InputSets
<1>6. /\ DOMAIN heap.f \subseteq Ids /\ IsFiniteSet(DOMAIN heap.f)
      /\ \A p \in DOMAIN heap.f : heap.f[p].number \in Nat
  BY <1>2 DEF HeapInv, HeapTypes, Objects, FileRecords
<1>7. Cardinality(ins) = 1 => ins = {o}
  <2>1. IsFiniteSet(ins)
    BY <1>5, <1>6, FS_Subset
  <2>2. Cardinality(ins) = 1 => \E x : ins = {x}
    BY <2>1, FS_Singleton
  <2>. QED  BY <1>5, <2>2
<1>8. heap.f[o].number \in LiveNumbers(heap)
  BY <1>1, <1>2, <1>3 DEF LiveNumbers
<1>. QED  BY <1>1, <1>5, <1>6, <1>7, <1>8

\* A compaction with chosen inputs begins, as a move or as a merge.
LEMMA BeginCompactionStep ==
  ASSUME VersionsAssumption, Inv, CanCompact, NEW l \in 0..(LastLevel - 1),
         NEW o \in heap.v[current].files[l], NEW ins \in InputSets(l, o), BeginCompaction(l, ins)
  PROVE  Inv' /\ KeepsOthers
<1>. DEFINE H == Held(current, reader, Nil, current)
            K == MemHeld(mem, imm, reader)
            h == Ref(heap, current)
            i == Alloc(h.v)
            D == Deletions(current, l, ins)
            n == heap.f[o].number
<1>0. TypeInv /\ HeapIsSound /\ OneAtATime /\ Numbers /\ Successors
  BY DEF Inv
<1>1. flush = FlushIdle /\ compaction = CompactionIdle
  BY DEF CanCompact
<1>2. /\ flush.v = Nil /\ flush.built = Nil /\ flush.pc = "idle"
      /\ compaction.v = Nil /\ compaction.built = Nil /\ compaction.new = Nil
  BY <1>1 DEF FlushIdle, CompactionIdle
<1>3. /\ l \in Levels /\ l + 1 \in Levels /\ o \in ins /\ o \in DOMAIN heap.f /\ ins \subseteq Ids
      /\ n \in LiveNumbers(heap) /\ n \in Nat /\ (Cardinality(ins) = 1 => ins = {o})
  BY <1>0, InputsOf
<1>4. /\ current \in Ids /\ current \in DOMAIN heap.v /\ FilesCounted(heap) /\ HeapInv(heap)
      /\ Built = {} /\ pending = {}
  BY <1>0, <1>2, AliveInv DEF TypeInv, Built, Numbers
<1>5. /\ Sound(h, H, K, {}) /\ PartOf(h, heap) /\ PartOf(heap, h) /\ DOMAIN h.v = DOMAIN heap.v
      /\ h.f = heap.f
  <2>. DEFINE G == Held(current, reader, Nil, Nil)
              x == <<"compaction", 0>>
  <2>1. Sound(heap, G, K, {})
    BY <1>0, <1>2, <1>4 DEF HeapIsSound
  <2>2. H = Plus(G, current, x) /\ x \notin G[current]
    BY <1>4, HeldCompaction
  <2>. HIDE DEF G, x, H
  <2>3. /\ Sound(h, Plus(G, current, x), K, {} \ {current}) /\ PartOf(h, heap) /\ PartOf(heap, h)
        /\ DOMAIN h.v = DOMAIN heap.v /\ h.f = heap.f
    BY <1>4, <2>1, <2>2, SoundRef
  <2>4. {} \ {current} = {}
    OBVIOUS
  <2>. QED  BY <2>2, <2>3, <2>4
<1>6. h.v[current].files = heap.v[current].files /\ FilesCounted(h) /\ HeapInv(h)
  BY <1>4, <1>5 DEF PartOf, Sound, HeapInv
<1>7. UNCHANGED <<current, mem, imm, disk, pending, number, reader, flush, bg_error>>
  BY DEF BeginCompaction
<1>8. ASSUME NEW c, c = [CompactionIdle EXCEPT !.v = current, !.level = l, !.inputs = ins]
      PROVE  c = [pc |-> "idle", v |-> current, level |-> l, inputs |-> ins, new |-> Nil, built |-> Nil]
  BY <1>8 DEF CompactionIdle
<1>. HIDE DEF h, i, D, n, H, K
<1>9. CASE /\ heap' = h
           /\ compaction' = [pc |-> "merge", v |-> current, level |-> l, inputs |-> ins, new |-> Nil,
                             built |-> Nil]
  <2>1. /\ compaction'.pc = "merge" /\ compaction'.v = current /\ compaction'.new = Nil
        /\ compaction'.built = Nil /\ compaction' \in CompactionStates
    BY <1>3, <1>4, <1>9 DEF CompactionStates, CompactionOf, Nil
  <2>2. HeapIsSound'
    <3>1. Built' = {}
      BY <1>2, <1>7, <2>1 DEF Built
    <3>. QED  BY <1>2, <1>5, <1>7, <1>9, <2>1, <3>1 DEF HeapIsSound, H, K
  <2>3. TypeInv'
    BY <1>0, <1>7, <2>1 DEF TypeInv
  <2>4. Numbers'
    <3>1. LiveNumbers(h) \subseteq LiveNumbers(heap)
      BY <1>5, <1>6, PartOfLive
    <3>. QED  BY <1>0, <1>2, <1>4, <1>7, <1>9, <2>1, <3>1 DEF Numbers, FlushNumbers, MergeNumbers
  <2>5. Successors'
    BY <1>2, <1>7, <2>1, KeepsItself DEF Successors
  <2>6. KeepsOthers
    BY <1>0, <1>4, <1>5, <1>6, <1>7, <1>9, <2>2, <2>3, SameCurrent DEF PartOf
  <2>. QED  BY <1>1, <1>7, <2>2, <2>3, <2>4, <2>5, <2>6 DEF Inv, OneAtATime
<1>10. CASE /\ Cardinality(ins) = 1
            /\ heap' = BuildVersion(h, current, D, {<<l + 1, heap.f[p].number>> : p \in ins})
            /\ compaction' = [pc |-> "applyMove", v |-> current, level |-> l, inputs |-> ins, new |-> Nil,
                              built |-> i]
  <2>. DEFINE added == {<<l + 1, n>>}
  <2>1. heap' = BuildVersion(h, current, D, added)
    <3>1. {<<l + 1, heap.f[p].number>> : p \in ins} = added
      <4>1. ins = {o}
        BY <1>3, <1>10
      <4>2. {<<l + 1, heap.f[p].number>> : p \in {o}} = {<<l + 1, heap.f[o].number>>}
        OBVIOUS
      <4>. QED  BY <4>1, <4>2 DEF n
    <3>. QED  BY <1>10, <3>1
  <2>2. \A a \in added : a[2] = n
    OBVIOUS
  <2>3. ASSUME NEW k \in Levels, NEW p \in heap.v[current].files[k], heap.f[p].number = n
        PROVE  <<k, n>> \in D
    <3>1. p = o /\ k = l
      BY <1>3, <1>4, <2>3 DEF HeapInv, TablesOnce, n
    <3>. QED  BY <1>3, <3>1, DeletionsMember DEF D, n
  <2>4. Addition(h, current, D, added)
    <3>1. \E k \in Levels, m \in Nat : added = {<<k, m>>}
      BY <1>3
    <3>. HIDE DEF added
    <3>. QED  BY <1>5, <1>6, <2>2, <2>3, <3>1 DEF Addition
  <2>5. /\ Sound(heap', H, K, {i}) /\ PartOf(h, heap') /\ i \in Ids
        /\ \A k \in Levels : \A p \in h.v[current].files[k] :
             <<k, h.f[p].number>> \notin D => p \in heap'.v[i].files[k]
        /\ {a[2] : a \in added} \subseteq Tables(heap', i)
        /\ LiveNumbers(heap') \subseteq LiveNumbers(h) \cup {a[2] : a \in added}
    <3>1. current \in DOMAIN h.v
      BY <1>4, <1>5
    <3>. HIDE DEF added
    <3>. DEFINE g == BuildVersion(h, current, D, added)
                j == Alloc(h.v)
    <3>2. /\ Sound(g, H, K, {} \cup {j}) /\ PartOf(h, g) /\ j \in Ids
          /\ \A k \in Levels : \A p \in h.v[current].files[k] :
               <<k, h.f[p].number>> \notin D => p \in g.v[j].files[k]
          /\ {a[2] : a \in added} \subseteq Tables(g, j)
          /\ LiveNumbers(g) \subseteq LiveNumbers(h) \cup {a[2] : a \in added}
      <4>1. Sound(h, H, K, {})
        BY <1>5
      <4>2. Sound(g, H, K, {} \cup {j}) /\ PartOf(h, g) /\ j \in Ids
        BY <2>4, <3>1, <4>1, SoundBuild
      <4>3. \A k \in Levels : \A p \in h.v[current].files[k] :
               <<k, h.f[p].number>> \notin D => p \in g.v[j].files[k]
        BY <2>4, <3>1, <4>1, SoundBuild
      <4>4. {a[2] : a \in added} \subseteq Tables(g, j)
        BY <2>4, <3>1, <4>1, SoundBuild
      <4>5. LiveNumbers(g) \subseteq LiveNumbers(h) \cup {a[2] : a \in added}
        BY <2>4, <3>1, <4>1, SoundBuild
      <4>. QED  BY <4>2, <4>3, <4>4, <4>5
    <3>3. g = heap' /\ j = i /\ {} \cup {j} = {j}
      BY <2>1 DEF i
    <3>. HIDE DEF g, j
    <3>. QED  BY <3>2, <3>3
  <2>6. /\ compaction'.pc = "applyMove" /\ compaction'.v = current /\ compaction'.new = Nil
        /\ compaction'.built = i /\ compaction' \in CompactionStates
    BY <1>3, <1>4, <1>10, <2>5 DEF CompactionStates, CompactionOf, Nil
  <2>7. HeapIsSound'
    <3>1. Built' = {i}
      BY <1>2, <1>7, <2>5, <2>6 DEF Built, Ids
    <3>. QED  BY <1>2, <1>7, <2>5, <2>6, <3>1 DEF HeapIsSound, H, K
  <2>8. TypeInv'
    BY <1>0, <1>7, <2>6 DEF TypeInv
  <2>9. Numbers'
    <3>1. LiveNumbers(h) \subseteq LiveNumbers(heap)
      BY <1>5, <1>6, PartOfLive
    <3>2. LiveNumbers(heap') \subseteq LiveNumbers(heap)
      BY <1>3, <2>2, <2>5, <3>1
    <3>. QED  BY <1>0, <1>2, <1>4, <1>7, <2>6, <3>2 DEF Numbers, FlushNumbers, MergeNumbers
  <2>10. Replaces(heap', current, i, {})
    <3>1. /\ FilesCounted(heap') /\ current \in DOMAIN heap'.v /\ i \in DOMAIN heap'.v
      BY <1>7, <2>5, <2>7, <2>8, AliveNext DEF Sound
    <3>2. /\ FilesOf(heap'.v[current]) = FilesOf(h.v[current])
          /\ \A p \in FilesOf(h.v[current]) : heap'.f[p].number = h.f[p].number
      BY <1>4, <1>5, <1>6, <2>5, <3>1, SameTables
    <3>3. ASSUME NEW p \in FilesOf(h.v[current])
          PROVE  \E q \in FilesOf(heap'.v[i]) : heap'.f[q].number = heap'.f[p].number
      <4>1. PICK k \in Levels : p \in h.v[current].files[k]
        BY FilesOfMember
      <4>2. CASE <<k, h.f[p].number>> \notin D
        <5>1. p \in FilesOf(heap'.v[i])
          BY <2>5, <4>1, <4>2, FilesOfMember
        <5>. QED  BY <5>1
      <4>3. CASE <<k, h.f[p].number>> \in D
        <5>1. PICK q \in ins : <<k, h.f[p].number>> \in {<<l, heap.f[q].number>>, <<l + 1, heap.f[q].number>>}
          BY <4>3, DeletionsMember DEF D
        <5>2. h.f[p].number = n
          BY <1>3, <1>10, <5>1 DEF n
        <5>. QED  BY <2>2, <2>5, <3>2, <5>2 DEF Tables
      <4>. QED  BY <4>2, <4>3
    <3>. QED  BY <3>2, <3>3 DEF Replaces
  <2>11. Successors'
    BY <1>2, <1>7, <2>6, <2>10 DEF Successors
  <2>12. KeepsOthers
    BY <1>0, <1>4, <1>5, <1>6, <1>7, <2>5, <2>7, <2>8, SameCurrent
  <2>. QED  BY <1>1, <1>7, <2>7, <2>8, <2>9, <2>11, <2>12 DEF Inv, OneAtATime
<1>11. \/ /\ heap' = h
          /\ compaction' = [pc |-> "merge", v |-> current, level |-> l, inputs |-> ins, new |-> Nil,
                            built |-> Nil]
       \/ /\ Cardinality(ins) = 1
          /\ heap' = BuildVersion(h, current, D, {<<l + 1, heap.f[p].number>> : p \in ins})
          /\ compaction' = [pc |-> "applyMove", v |-> current, level |-> l, inputs |-> ins, new |-> Nil,
                            built |-> i]
  <2>. DEFINE c == [CompactionIdle EXCEPT !.v = current, !.level = l, !.inputs = ins]
  <2>1. \/ heap' = h /\ compaction' = [c EXCEPT !.pc = "merge"]
        \/ /\ Cardinality(ins) = 1
           /\ heap' = BuildVersion(h, current, D, {<<l + 1, heap.f[p].number>> : p \in ins})
           /\ compaction' = [c EXCEPT !.pc = "applyMove", !.built = i]
    BY DEF BeginCompaction, h, D, i
  <2>. HIDE DEF c
  <2>2. c = [pc |-> "idle", v |-> current, level |-> l, inputs |-> ins, new |-> Nil, built |-> Nil]
    BY <1>8 DEF c
  <2>. QED  BY <2>1, <2>2
<1>. QED  BY <1>9, <1>10, <1>11

\* PickCompaction finds inputs, by size or because of seeks.
LEMMA PickStep ==
  ASSUME VersionsAssumption, Inv, SizeCompaction \/ SeekCompaction
  PROVE  Inv' /\ KeepsOthers
<1>1. CASE SizeCompaction
  BY <1>1, BeginCompactionStep DEF SizeCompaction
<1>2. CASE SeekCompaction
  <2>. DEFINE c == heap.v[current].to_compact
  <2>1. PICK ins \in InputSets(c.level, c.file) : BeginCompaction(c.level, ins)
    BY <1>2 DEF SeekCompaction
  <2>2. CanCompact /\ c.file # Nil
    BY <1>2 DEF SeekCompaction
  <2>3. HeapInv(heap) /\ current \in DOMAIN heap.v
    BY AliveInv DEF Inv
  <2>4. c.level \in Levels
    BY <2>3 DEF HeapInv, HeapTypes, VersionRecords
  <2>5. c.level < LastLevel /\ c.file \in heap.v[current].files[c.level]
    BY <2>2, <2>3 DEF HeapInv, Candidates
  <2>6. c.level \in 0..(LastLevel - 1)
    BY <2>4, <2>5 DEF Levels, VersionsAssumption
  <2>. HIDE DEF c
  <2>. QED  BY <2>1, <2>2, <2>5, <2>6, BeginCompactionStep
<1>. QED  BY <1>1, <1>2

\* A merge, while no flush is in between
LEMMA MergeFacts ==
  ASSUME Inv, Merging
  PROVE  /\ compaction \in CompactionOf({"merge"}, {Nil}) /\ flush = FlushIdle
         /\ flush.v = Nil /\ flush.built = Nil /\ flush.pc = "idle" /\ Built = {}
         /\ compaction.v \in Ids /\ compaction.v # Nil /\ compaction.v \in DOMAIN heap.v
         /\ Sound(heap, Held(current, reader, Nil, compaction.v), MemHeld(mem, imm, reader), {})
         /\ current \in Ids /\ current \in DOMAIN heap.v /\ FilesCounted(heap) /\ HeapInv(heap)
         /\ Grows(heap, compaction.v, current) /\ pending \subseteq {compaction.new}
<1>0. TypeInv /\ HeapIsSound /\ Numbers /\ Successors
  BY DEF Inv
<1>1. flush = FlushIdle /\ compaction.pc = "merge"
  BY DEF Merging
<1>2. flush.v = Nil /\ flush.built = Nil /\ flush.pc = "idle"
  BY <1>1 DEF FlushIdle
<1>3. compaction \in CompactionOf({"merge"}, {Nil})
  BY <1>0, <1>1 DEF TypeInv, CompactionStates, CompactionOf, CompactionIdle
<1>4. compaction.v \in Ids /\ compaction.v # Nil /\ compaction.built = Nil
  BY <1>3 DEF CompactionOf, Ids
<1>5. Built = {}
  BY <1>2, <1>4 DEF Built
<1>6. /\ compaction.v \in DOMAIN heap.v /\ current \in DOMAIN heap.v
      /\ FilesCounted(heap) /\ HeapInv(heap)
  BY <1>0, <1>4, AliveInv
<1>7. current \in Ids /\ Grows(heap, compaction.v, current) /\ pending \subseteq {compaction.new}
  BY <1>0, <1>1, <1>2 DEF TypeInv, Successors, Numbers
<1>8. Sound(heap, Held(current, reader, Nil, compaction.v), MemHeld(mem, imm, reader), {})
  BY <1>0, <1>2, <1>5 DEF HeapIsSound
<1>. QED  BY <1>1, <1>2, <1>3, <1>4, <1>5, <1>6, <1>7, <1>8

\* A merge opens its output.
LEMMA OpenStep ==
  ASSUME Inv, OpenCompactionOutputFile
  PROVE  Inv' /\ KeepsOthers
<1>0. TypeInv /\ HeapIsSound /\ OneAtATime /\ Numbers /\ Successors
  BY DEF Inv
<1>1. /\ Merging /\ compaction.new = Nil /\ number' = number + 1 /\ pending' = pending \cup {number + 1}
      /\ disk' = disk \cup {number + 1} /\ compaction' = [compaction EXCEPT !.new = number + 1]
      /\ UNCHANGED <<heap, current, mem, imm, reader, flush, bg_error>>
  BY DEF OpenCompactionOutputFile
<1>2. /\ compaction \in CompactionOf({"merge"}, {Nil}) /\ flush.pc = "idle" /\ pending \subseteq {Nil}
      /\ flush = FlushIdle
  BY <1>1, MergeFacts
<1>3. number \in Nat
  BY <1>0 DEF TypeInv
<1>4. /\ compaction' \in CompactionOf({"merge"}, {Nil}) /\ compaction'.v = compaction.v
      /\ compaction'.built = compaction.built /\ compaction'.pc = "merge" /\ compaction.pc = "merge"
      /\ compaction'.new = number + 1
  BY <1>1, <1>2, <1>3 DEF CompactionOf
<1>5. TypeInv'
  BY <1>0, <1>1, <1>3, <1>4 DEF TypeInv, CompactionStates
<1>6. HeapIsSound'
  BY <1>0, <1>1, <1>4 DEF HeapIsSound, Built
<1>7. Numbers'
  <2>1. LiveNumbers(heap') = LiveNumbers(heap) /\ 0..number \subseteq 0..(number + 1)
    BY <1>1, <1>3
  <2>2. LiveNumbers(heap') \subseteq disk' /\ LiveNumbers(heap') \subseteq 0..number'
    BY <1>0, <1>1, <2>1 DEF Numbers
  <2>3. number + 1 # Nil /\ number + 1 \notin LiveNumbers(heap) /\ number + 1 \in 1..(number + 1)
    BY <1>0, <1>3 DEF Numbers, Nil
  <2>4. MergeNumbers'
    BY <1>1, <1>4, <2>1, <2>3 DEF MergeNumbers
  <2>5. pending = {}
    BY <1>0, <1>1, <1>2 DEF Numbers
  <2>. QED  BY <1>1, <1>2, <1>4, <2>2, <2>3, <2>4, <2>5 DEF Numbers, FlushNumbers
<1>8. Successors'
  BY <1>0, <1>1, <1>4 DEF Successors
<1>9. KeepsOthers
  BY <1>1 DEF KeepsOthers
<1>10. OneAtATime'
  BY <1>4 DEF OneAtATime
<1>. QED  BY <1>5, <1>6, <1>7, <1>8, <1>9, <1>10 DEF Inv

\* A merge fails.
LEMMA CompactionFailsStep ==
  ASSUME Inv, CompactionFails
  PROVE  Inv' /\ KeepsOthers
<1>. DEFINE H == Held(current, reader, Nil, compaction.v)
            K == MemHeld(mem, imm, reader)
            x == <<"compaction", 0>>
<1>0. TypeInv /\ HeapIsSound /\ Numbers
  BY DEF Inv
<1>1. /\ Merging /\ pending' = pending \ {compaction.new} /\ heap' = Unref(heap, compaction.v)
      /\ compaction' = CompactionIdle /\ UNCHANGED <<current, mem, imm, disk, number, reader, flush>>
  BY DEF CompactionFails
<1>2. /\ flush = FlushIdle /\ flush.v = Nil /\ flush.built = Nil /\ flush.pc = "idle" /\ compaction.v \in Ids
      /\ Sound(heap, H, K, {}) /\ current \in Ids /\ pending \subseteq {compaction.new} /\ FilesCounted(heap)
  BY <1>1, MergeFacts
<1>3. Held(current, reader, Nil, Nil) = Minus(H, compaction.v, x) /\ x \in H[compaction.v]
  BY <1>2, HeldCompaction
<1>. HIDE DEF H, K, x
<1>4. Sound(heap', Minus(H, compaction.v, x), K, {}) /\ PartOf(heap', heap)
  BY <1>1, <1>2, <1>3, SoundUnref
<1>5. /\ compaction'.v = Nil /\ compaction'.built = Nil /\ compaction'.pc = "idle" /\ compaction'.new = Nil
      /\ compaction' \in CompactionStates
  BY <1>1 DEF CompactionIdle, CompactionStates
<1>6. HeapIsSound'
  <2>1. Built' = {}
    BY <1>1, <1>2, <1>5 DEF Built
  <2>. QED  BY <1>1, <1>2, <1>3, <1>4, <1>5, <2>1 DEF HeapIsSound, K
<1>7. TypeInv'
  BY <1>0, <1>1, <1>5 DEF TypeInv
<1>8. FilesCounted(heap') /\ current \in DOMAIN heap'.v
  BY <1>1, <1>6, <1>7, AliveNext
<1>9. LiveNumbers(heap') \subseteq LiveNumbers(heap)
  BY <1>4, <1>8, PartOfLive
<1>10. Numbers'
  BY <1>0, <1>1, <1>2, <1>5, <1>9 DEF Numbers, FlushNumbers, MergeNumbers
<1>11. Successors' /\ OneAtATime'
  BY <1>1, <1>2, <1>5 DEF Successors, OneAtATime
<1>12. KeepsOthers
  BY <1>0, <1>1, <1>4, <1>6, <1>7, <1>8, SameCurrent DEF PartOf
<1>. QED  BY <1>6, <1>7, <1>10, <1>11, <1>12 DEF Inv

\* A merge has ended and its version is built.
LEMMA InstallStep ==
  ASSUME VersionsAssumption, Inv, InstallCompactionResults
  PROVE  Inv' /\ KeepsOthers
<1>. DEFINE H == Held(current, reader, Nil, compaction.v)
            K == MemHeld(mem, imm, reader)
            D == Deletions(compaction.v, compaction.level, compaction.inputs)
            added == {<<compaction.level + 1, n>> : n \in {compaction.new} \ {Nil}}
            i == Alloc(heap.v)
<1>0. TypeInv /\ HeapIsSound /\ Numbers
  BY DEF Inv
<1>1. /\ Merging /\ heap' = BuildVersion(heap, current, D, added)
      /\ compaction' = [compaction EXCEPT !.pc = "apply", !.built = i]
      /\ UNCHANGED <<current, mem, imm, disk, pending, number, reader, flush, bg_error>>
  BY DEF InstallCompactionResults
<1>2. /\ compaction \in CompactionOf({"merge"}, {Nil}) /\ flush = FlushIdle
      /\ flush.v = Nil /\ flush.built = Nil /\ flush.pc = "idle"
      /\ Sound(heap, H, K, {}) /\ current \in Ids /\ current \in DOMAIN heap.v
      /\ FilesCounted(heap) /\ HeapInv(heap) /\ Grows(heap, compaction.v, current)
  BY <1>1, MergeFacts
<1>3. /\ compaction.new \in Nat /\ compaction.level + 1 \in Levels /\ compaction.pc = "merge"
  BY <1>2 DEF CompactionOf, VersionsAssumption, Levels
<1>4. compaction.new # Nil => /\ compaction.new \in 1..number /\ compaction.new \notin LiveNumbers(heap)
                             /\ compaction.new \in disk
  BY <1>0, <1>3 DEF Numbers, MergeNumbers
<1>5. Addition(heap, current, D, added)
  <2>1. compaction.new = Nil => added = {}
    OBVIOUS
  <2>2. compaction.new # Nil => added = {<<compaction.level + 1, compaction.new>>}
    OBVIOUS
  <2>3. ASSUME NEW k \in Levels, NEW p \in heap.v[current].files[k] PROVE heap.f[p].number \in LiveNumbers(heap)
    <3>1. p \in FilesOf(heap.v[current])
      BY FilesOfMember
    <3>. QED  BY <1>2, <3>1 DEF LiveNumbers
  <2>. HIDE DEF added, D
  <2>4. added = {} \/ \E l \in Levels, n \in Nat : added = {<<l, n>>}
    BY <1>3, <2>1, <2>2
  <2>5. ASSUME NEW k \in Levels, NEW p \in heap.v[current].files[k], NEW a \in added
        PROVE  heap.f[p].number # a[2]
    <3>1. compaction.new # Nil /\ a = <<compaction.level + 1, compaction.new>>
      BY <2>1, <2>2
    <3>. QED  BY <1>4, <2>3, <3>1
  <2>. QED  BY <2>4, <2>5 DEF Addition
<1>6. {a[2] : a \in added} \subseteq {compaction.new} \ {Nil}
  <2>1. compaction.new = Nil => added = {}
    OBVIOUS
  <2>2. compaction.new # Nil => added = {<<compaction.level + 1, compaction.new>>}
    OBVIOUS
  <2>. HIDE DEF added
  <2>3. ASSUME NEW a \in added PROVE a[2] = compaction.new /\ compaction.new # Nil
    <3>1. compaction.new # Nil /\ a = <<compaction.level + 1, compaction.new>>
      BY <2>1, <2>2
    <3>. QED  BY <3>1
  <2>. QED  BY <2>3
<1>. HIDE DEF added, D, H, K
<1>7. /\ Sound(heap', H, K, {i}) /\ PartOf(heap, heap') /\ i \in Ids
      /\ \A k \in Levels : \A p \in heap.v[current].files[k] :
           <<k, heap.f[p].number>> \notin D => p \in heap'.v[i].files[k]
      /\ LiveNumbers(heap') \subseteq LiveNumbers(heap) \cup {a[2] : a \in added}
  <2>. DEFINE g == BuildVersion(heap, current, D, added)
  <2>1. Sound(g, H, K, {} \cup {i}) /\ PartOf(heap, g) /\ i \in Ids
    BY <1>2, <1>5, SoundBuild
  <2>2. \A k \in Levels : \A p \in heap.v[current].files[k] :
          <<k, heap.f[p].number>> \notin D => p \in g.v[i].files[k]
    BY <1>2, <1>5, SoundBuild
  <2>3. LiveNumbers(g) \subseteq LiveNumbers(heap) \cup {a[2] : a \in added}
    BY <1>2, <1>5, SoundBuild
  <2>4. g = heap' /\ {} \cup {i} = {i}
    BY <1>1
  <2>. HIDE DEF g
  <2>. QED  BY <2>1, <2>2, <2>3, <2>4
<1>. HIDE DEF i
<1>8. /\ compaction'.pc = "apply" /\ compaction'.v = compaction.v /\ compaction'.new = compaction.new
      /\ compaction'.built = i /\ compaction'.inputs = compaction.inputs
      /\ compaction' \in CompactionStates
  BY <1>1, <1>2, <1>7 DEF CompactionStates, CompactionOf
<1>9. HeapIsSound'
  <2>1. Built' = {i}
    BY <1>1, <1>2, <1>7, <1>8 DEF Built, Ids
  <2>. QED  BY <1>1, <1>2, <1>7, <1>8, <2>1 DEF HeapIsSound, H, K
<1>10. TypeInv'
  BY <1>0, <1>1, <1>8 DEF TypeInv
<1>11. Numbers'
  <2>1. LiveNumbers(heap') \subseteq disk' /\ LiveNumbers(heap') \subseteq 0..number'
    <3>1. 1..number \subseteq 0..number
      BY <1>0 DEF TypeInv
    <3>. QED  BY <1>0, <1>1, <1>4, <1>6, <1>7, <3>1 DEF Numbers
  <2>. QED  BY <1>0, <1>1, <1>2, <1>8, <2>1 DEF Numbers, FlushNumbers, MergeNumbers
<1>12. Replaces(heap', current, i, compaction.inputs)
  <2>1. FilesCounted(heap') /\ current \in DOMAIN heap'.v
    BY <1>1, <1>9, <1>10, AliveNext
  <2>2. /\ FilesOf(heap'.v[current]) = FilesOf(heap.v[current])
        /\ \A p \in FilesOf(heap.v[current]) : heap'.f[p].number = heap.f[p].number
    BY <1>2, <1>7, <2>1, SameTables
  <2>3. ASSUME NEW p \in FilesOf(heap.v[current]), p \notin compaction.inputs
        PROVE  p \in FilesOf(heap'.v[i])
    <3>1. PICK k \in Levels : p \in heap.v[current].files[k]
      BY FilesOfMember
    <3>2. <<k, heap.f[p].number>> \notin D
      <4>. SUFFICES ASSUME <<k, heap.f[p].number>> \in D PROVE FALSE
        OBVIOUS
      <4>1. PICK l \in {compaction.level, compaction.level + 1} :
              \E q \in compaction.inputs \cap heap.v[compaction.v].files[l] :
                <<k, heap.f[p].number>> = <<l, heap.f[q].number>>
        BY DeletionsMember DEF D
      <4>2. PICK q \in compaction.inputs \cap heap.v[compaction.v].files[l] :
              <<k, heap.f[p].number>> = <<l, heap.f[q].number>>
        BY <4>1
      <4>3. l = k /\ heap.f[q].number = heap.f[p].number
        BY <4>2
      <4>4. q \in heap.v[current].files[k]
        BY <1>2, <4>2, <4>3 DEF Grows
      <4>5. q = p
        BY <1>2, <3>1, <4>3, <4>4 DEF HeapInv, TablesOnce
      <4>. QED  BY <2>3, <4>2, <4>5
    <3>. QED  BY <1>7, <3>1, <3>2, FilesOfMember
  <2>. QED  BY <2>2, <2>3 DEF Replaces
<1>13. Successors'
  BY <1>1, <1>2, <1>8, <1>12 DEF Successors
<1>14. KeepsOthers
  BY <1>0, <1>1, <1>2, <1>7, <1>9, <1>10, SameCurrent DEF PartOf
<1>15. OneAtATime'
  BY <1>1, <1>2 DEF OneAtATime
<1>. QED  BY <1>9, <1>10, <1>11, <1>13, <1>14, <1>15 DEF Inv

\* A compaction whose version is built, and no flush in between
LEMMA ApplyFacts ==
  ASSUME Inv, compaction.pc \in {"applyMove", "apply"}
  PROVE  /\ flush = FlushIdle /\ flush.v = Nil /\ flush.built = Nil /\ flush.pc = "idle"
         /\ compaction.v \in Ids /\ compaction.built \in Ids /\ current \in Ids
         /\ Sound(heap, Held(current, reader, Nil, compaction.v), MemHeld(mem, imm, reader), {compaction.built})
         /\ current \in DOMAIN heap.v /\ compaction.built \in DOMAIN heap.v /\ FilesCounted(heap)
         /\ Replaces(heap, current, compaction.built, IF compaction.pc = "apply" THEN compaction.inputs ELSE {})
         /\ pending \subseteq {compaction.new}
<1>0. TypeInv /\ HeapIsSound /\ OneAtATime /\ Numbers /\ Successors
  BY DEF Inv
<1>1. flush = FlushIdle /\ compaction.v \in Ids /\ compaction.built \in Ids /\ current \in Ids
  BY <1>0, CompactionShape DEF TypeInv, OneAtATime
<1>2. flush.v = Nil /\ flush.built = Nil /\ flush.pc = "idle"
  BY <1>1 DEF FlushIdle
<1>3. Built = {compaction.built}
  BY <1>1, <1>2 DEF Built, Ids
<1>4. Sound(heap, Held(current, reader, Nil, compaction.v), MemHeld(mem, imm, reader), {compaction.built})
  BY <1>0, <1>2, <1>3 DEF HeapIsSound
<1>5. current \in DOMAIN heap.v /\ compaction.built \in DOMAIN heap.v /\ FilesCounted(heap)
  BY <1>0, <1>3, AliveInv
<1>6. /\ Replaces(heap, current, compaction.built, IF compaction.pc = "apply" THEN compaction.inputs ELSE {})
      /\ pending \subseteq {compaction.new}
  BY <1>0, <1>2 DEF Successors, Numbers
<1>. QED  BY <1>1, <1>2, <1>4, <1>5, <1>6

\* LogAndApply installs the compaction's version, and obsolete files are deleted.
LEMMA CompactionAppliedStep ==
  ASSUME Inv, CompactionApplied
  PROVE  Inv' /\ KeepsOthers /\ LeavesNoGarbage
<1>. DEFINE d == compaction.built
            H == Held(d, reader, Nil, compaction.v)
            K == MemHeld(mem, imm, reader)
            x == <<"compaction", 0>>
            h == Ref(Unref(heap, current), d)
            gone == IF compaction.pc = "apply" THEN compaction.inputs ELSE {}
<1>0. TypeInv /\ HeapIsSound /\ Numbers
  BY DEF Inv
<1>1. /\ compaction.pc \in {"applyMove", "apply"} /\ current' = d /\ pending' = pending \ {compaction.new}
      /\ heap' = Unref(h, compaction.v) /\ compaction' = CompactionIdle
      /\ UNCHANGED <<mem, imm, number, reader, flush, bg_error>>
      /\ \/ compaction.pc = "applyMove" /\ disk' = disk
         \/ disk' = (IF bg_error' THEN disk ELSE disk \cap (pending' \cup LiveNumbers(heap')))
  BY DEF CompactionApplied, AppendVersion, DeleteObsoleteFiles
<1>2. /\ flush = FlushIdle /\ flush.v = Nil /\ flush.built = Nil /\ flush.pc = "idle"
      /\ compaction.v \in Ids /\ d \in Ids /\ current \in Ids
      /\ Sound(heap, Held(current, reader, Nil, compaction.v), K, {d})
      /\ current \in DOMAIN heap.v /\ d \in DOMAIN heap.v /\ FilesCounted(heap)
      /\ Replaces(heap, current, d, gone) /\ pending \subseteq {compaction.new}
  BY <1>1, ApplyFacts
<1>3. Sound(h, H, K, {}) /\ PartOf(h, heap)
  <2>1. Sound(h, H, K, {d} \ {d}) /\ PartOf(h, heap)
    BY <1>2, AppendKeeps
  <2>2. {d} \ {d} = {}
    OBVIOUS
  <2>. QED  BY <2>1, <2>2
<1>4. Held(d, reader, Nil, Nil) = Minus(H, compaction.v, x) /\ x \in H[compaction.v]
  BY <1>2, HeldCompaction
<1>. HIDE DEF h, H, K, x, gone
<1>5. Sound(heap', Held(d, reader, Nil, Nil), K, {}) /\ PartOf(heap', h)
  BY <1>1, <1>2, <1>3, <1>4, SoundUnref
<1>6. PartOf(heap', heap)
  BY <1>3, <1>5, PartOfTransitive
<1>7. /\ compaction'.v = Nil /\ compaction'.built = Nil /\ compaction'.pc = "idle" /\ compaction'.new = Nil
      /\ compaction' \in CompactionStates
  BY <1>1 DEF CompactionIdle, CompactionStates
<1>8. HeapIsSound'
  <2>1. Built' = {}
    BY <1>1, <1>2, <1>7 DEF Built
  <2>. QED  BY <1>1, <1>2, <1>5, <1>7, <2>1 DEF HeapIsSound, K
<1>9. TypeInv'
  BY <1>0, <1>1, <1>2, <1>7 DEF TypeInv
<1>10. FilesCounted(heap') /\ d \in DOMAIN heap'.v
  BY <1>1, <1>8, <1>9, AliveNext
<1>11. LiveNumbers(heap') \subseteq LiveNumbers(heap)
  BY <1>6, <1>10, PartOfLive
<1>12. Numbers'
  <2>1. LiveNumbers(heap') \subseteq disk'
    BY <1>0, <1>1, <1>11 DEF Numbers
  <2>. QED  BY <1>0, <1>1, <1>2, <1>7, <1>11, <2>1 DEF Numbers, FlushNumbers, MergeNumbers
<1>13. Successors' /\ OneAtATime'
  BY <1>1, <1>2, <1>7 DEF Successors, OneAtATime
<1>14. KeepsOthers
  <2>1. \A o \in FilesOf(heap.v[current]) :
          (\E p \in FilesOf(heap'.v[d]) : heap'.f[p].number = heap.f[o].number) \/ o \in gone
    BY <1>2, <1>6, <1>10, ReplacesStays
  <2>. QED  BY <1>1, <2>1 DEF KeepsOthers, gone
<1>15. LeavesNoGarbage
  <2>. SUFFICES ASSUME "apply" \in {flush.pc, compaction.pc}, flush' = FlushIdle, ~bg_error',
                       \A r \in Readers : reader[r].v \in {Nil, current'}
                PROVE  disk' = {heap'.f[o].number : o \in FilesOf(heap'.v[current'])}
    BY DEF LeavesNoGarbage
  <2>1. disk' = disk \cap (pending' \cup LiveNumbers(heap')) /\ LiveNumbers(heap') \subseteq disk
    BY <1>0, <1>1, <1>2, <1>11 DEF Numbers
  <2>. QED  BY <1>1, <1>8, <1>9, <1>12, <2>1, NoGarbage
<1>. QED  BY <1>8, <1>9, <1>12, <1>13, <1>14, <1>15 DEF Inv

\* LogAndApply fails for a compaction.
LEMMA CompactionNotAppliedStep ==
  ASSUME Inv, CompactionNotApplied
  PROVE  Inv' /\ KeepsOthers
<1>. DEFINE d == compaction.built
            H == Held(current, reader, Nil, compaction.v)
            K == MemHeld(mem, imm, reader)
            x == <<"compaction", 0>>
            h == DeleteVersion(heap, d)
<1>0. TypeInv /\ HeapIsSound /\ Numbers
  BY DEF Inv
<1>1. /\ compaction.pc \in {"applyMove", "apply"} /\ pending' = pending \ {compaction.new}
      /\ heap' = Unref(h, compaction.v) /\ compaction' = CompactionIdle
      /\ UNCHANGED <<current, mem, imm, disk, number, reader, flush>>
  BY DEF CompactionNotApplied
<1>2. /\ flush = FlushIdle /\ flush.v = Nil /\ flush.built = Nil /\ flush.pc = "idle"
      /\ compaction.v \in Ids /\ d \in Ids /\ current \in Ids /\ Sound(heap, H, K, {d})
      /\ FilesCounted(heap) /\ pending \subseteq {compaction.new}
  BY <1>1, ApplyFacts
<1>3. Sound(h, H, K, {}) /\ PartOf(h, heap)
  <2>1. Sound(h, H, K, {d} \ {d}) /\ PartOf(h, heap)
    BY <1>2, SoundDelete
  <2>2. {d} \ {d} = {}
    OBVIOUS
  <2>. QED  BY <2>1, <2>2
<1>4. Held(current, reader, Nil, Nil) = Minus(H, compaction.v, x) /\ x \in H[compaction.v]
  BY <1>2, HeldCompaction
<1>. HIDE DEF h, H, K, x
<1>5. Sound(heap', Held(current, reader, Nil, Nil), K, {}) /\ PartOf(heap', h)
  BY <1>1, <1>2, <1>3, <1>4, SoundUnref
<1>6. PartOf(heap', heap)
  BY <1>3, <1>5, PartOfTransitive
<1>7. /\ compaction'.v = Nil /\ compaction'.built = Nil /\ compaction'.pc = "idle" /\ compaction'.new = Nil
      /\ compaction' \in CompactionStates
  BY <1>1 DEF CompactionIdle, CompactionStates
<1>8. HeapIsSound'
  <2>1. Built' = {}
    BY <1>1, <1>2, <1>7 DEF Built
  <2>. QED  BY <1>1, <1>2, <1>5, <1>7, <2>1 DEF HeapIsSound, K
<1>9. TypeInv'
  BY <1>0, <1>1, <1>7 DEF TypeInv
<1>10. FilesCounted(heap') /\ current \in DOMAIN heap'.v
  BY <1>1, <1>8, <1>9, AliveNext
<1>11. LiveNumbers(heap') \subseteq LiveNumbers(heap)
  BY <1>6, <1>10, PartOfLive
<1>12. Numbers'
  BY <1>0, <1>1, <1>2, <1>7, <1>11 DEF Numbers, FlushNumbers, MergeNumbers
<1>13. Successors' /\ OneAtATime'
  BY <1>1, <1>2, <1>7 DEF Successors, OneAtATime
<1>14. KeepsOthers
  BY <1>0, <1>1, <1>6, <1>8, <1>9, <1>10, SameCurrent DEF PartOf
<1>. QED  BY <1>8, <1>9, <1>12, <1>13, <1>14 DEF Inv

-------------------------------------------------------------------------------
(* The theorem *)

\* One case per action
LEMMA InvStep ==
  ASSUME VersionsAssumption, Inv, [Next]_vars
  PROVE  Inv' /\ [LeavesNoGarbage /\ KeepsOthers]_vars
<1>0. TypeInv /\ OneAtATime
  BY DEF Inv
<1>1. CASE UNCHANGED vars
  BY <1>1 DEF vars, Inv, TypeInv, OneAtATime, HeapIsSound, Built, Numbers, FlushNumbers, MergeNumbers, Successors
<1>2. ASSUME NEW r \in Readers, Acquire(r, "Get") \/ Acquire(r, "Iterator") \/ GetEnds(r)
                                  \/ RecordReadSample(r) \/ CloseIterator(r)
      PROVE  Inv' /\ KeepsOthers /\ UNCHANGED <<flush, compaction>>
  <2>1. Inv' /\ KeepsOthers
    BY <1>2, AcquireStep, ReaderStep
  <2>. QED  BY <1>2, <2>1 DEF Acquire, GetEnds, RecordReadSample, CloseIterator
<1>3. SwitchMemTable => Inv' /\ KeepsOthers /\ UNCHANGED <<flush, compaction>>
  BY SwitchStep DEF SwitchMemTable
<1>4. UNCHANGED <<flush, compaction>> => LeavesNoGarbage
  BY DEF LeavesNoGarbage, FlushIdle, CompactionIdle
<1>5. bg_error' => LeavesNoGarbage
  BY DEF LeavesNoGarbage
<1>6. "apply" \notin {flush.pc, compaction.pc} => LeavesNoGarbage
  BY DEF LeavesNoGarbage
<1>7. CASE BeginFlush
  <2>1. "apply" \notin {flush.pc, compaction.pc}
    BY <1>7 DEF BeginFlush, FlushIdle
  <2>. QED  BY <1>6, <1>7, <2>1, BeginFlushStep
<1>8. CASE EndFlush
  <2>1. flush.pc = "build" /\ flush # FlushIdle
    BY <1>8 DEF EndFlush, FlushIdle
  <2>2. "apply" \notin {flush.pc, compaction.pc}
    BY <1>0, <2>1 DEF OneAtATime
  <2>. QED  BY <1>6, <1>8, <2>2, EndFlushStep
<1>9. CASE FlushFails \/ FlushNotApplied \/ CompactionFails \/ CompactionNotApplied
  <2>1. bg_error'
    BY <1>9 DEF FlushFails, FlushNotApplied, CompactionFails, CompactionNotApplied
  <2>. QED  BY <1>5, <1>9, <2>1, FlushFailsStep, FlushNotAppliedStep, CompactionFailsStep, CompactionNotAppliedStep
<1>10. CASE SizeCompaction \/ SeekCompaction
  <2>1. "apply" \notin {flush.pc, compaction.pc}
    BY <1>10 DEF SizeCompaction, SeekCompaction, CanCompact, FlushIdle, CompactionIdle
  <2>. QED  BY <1>6, <1>10, <2>1, PickStep
<1>11. CASE OpenCompactionOutputFile \/ InstallCompactionResults
  <2>1. "apply" \notin {flush.pc, compaction.pc}
    BY <1>11 DEF OpenCompactionOutputFile, InstallCompactionResults, Merging, FlushIdle
  <2>. QED  BY <1>6, <1>11, <2>1, OpenStep, InstallStep
<1>12. CASE FlushApplied \/ CompactionApplied
  BY <1>12, FlushAppliedStep, CompactionAppliedStep
<1>. QED  BY <1>1, <1>2, <1>3, <1>4, <1>7, <1>8, <1>9, <1>10, <1>11, <1>12 DEF Next, Background

\* Exact counts in terms of the holders of Versions, which follow from those of the invariant.
LEMMA InvCounts ==
  ASSUME Inv
  PROVE  CountsAreExact
<1>. DEFINE H == Held(current, reader, flush.v, compaction.v)
            K == MemHeld(mem, imm, reader)
<1>0. TypeInv /\ HeapIsSound
  BY DEF Inv
<1>1. Sound(heap, H, K, Built) /\ reader \in [Readers -> ReaderStates] /\ mem \in Ids /\ imm \in Nat
  BY <1>0 DEF HeapIsSound, TypeInv
<1>2. /\ HeapInv(heap) /\ FilesCounted(heap) /\ current \in DOMAIN heap.v /\ Built \subseteq DOMAIN heap.v
      /\ flush.v # Nil => flush.v \in DOMAIN heap.v
      /\ compaction.v # Nil => compaction.v \in DOMAIN heap.v
  BY <1>0, AliveInv
<1>3. DOMAIN heap.v \subseteq Ids /\ DOMAIN heap.m \subseteq Ids
  BY <1>1, SoundIds
<1>4. \A i \in Ids : H[i] = Holders(i)
  BY DEF Held, HeldBy, Holders
<1>5. \A i \in Ids : K[i] = {r \in Readers : i \in {reader[r].mem, reader[r].imm}}
                              \cup (IF i \in {mem, imm} THEN {Db} ELSE {})
  BY DEF MemHeld, MemHeldBy
<1>6. \A i \in Ids : \A r \in Readers : reader[r].v = i => H[i] # {}
  <2>1. ASSUME NEW i \in Ids, NEW r \in Readers, reader[r].v = i PROVE <<"reader", r>> \in H[i]
    BY <2>1, HeldMember
  <2>. HIDE DEF H
  <2>. QED  BY <2>1
<1>7. \A i \in Ids : (i = mem => K[i] # {}) /\ \A r \in Readers : i \in {reader[r].mem, reader[r].imm} => K[i] # {}
  <2>1. ASSUME NEW i \in Ids, i = mem PROVE Db \in K[i]
    BY <2>1, MemHeldMember
  <2>2. ASSUME NEW i \in Ids, NEW r \in Readers, i \in {reader[r].mem, reader[r].imm} PROVE r \in K[i]
    BY <2>2, MemHeldMember
  <2>. HIDE DEF K
  <2>. QED  BY <2>1, <2>2
<1>. HIDE DEF H, K
<1>8. ASSUME NEW i \in DOMAIN heap.v
      PROVE  /\ heap.v[i].refs = Cardinality(Holders(i))
             /\ heap.v[i].refs > 0 \/ i \in {flush.built, compaction.built}
             /\ FilesOf(heap.v[i]) \subseteq DOMAIN heap.f
  <2>1. heap.v[i].refs = Cardinality(H[i]) /\ IsFiniteSet(H[i]) /\ (H[i] # {} \/ i \in Built)
    BY <1>1, <1>3 DEF Sound, VersionsCounted
  <2>2. H[i] # {} => Cardinality(H[i]) > 0
    BY <2>1, FS_EmptySet, FS_CardinalityType
  <2>3. FilesOf(heap.v[i]) \subseteq DOMAIN heap.f
    BY <1>2 DEF FilesCounted
  <2>. QED  BY <1>3, <1>4, <2>1, <2>2, <2>3 DEF Built
<1>9. {current} \cup {reader[r].v : r \in Readers} \cup {flush.v, flush.built, compaction.v, compaction.built}
        \subseteq DOMAIN heap.v \cup {Nil}
  <2>1. ASSUME NEW r \in Readers PROVE reader[r].v \in DOMAIN heap.v \cup {Nil}
    <3>1. reader[r].v \in Nat
      BY <1>1, ReaderShape
    <3>2. reader[r].v # Nil => reader[r].v \in Ids
      BY <3>1 DEF Ids
    <3>. QED  BY <1>1, <1>6, <3>2 DEF Sound, VersionsCounted
  <2>. QED  BY <1>2, <2>1 DEF Built
<1>10. \A o \in DOMAIN heap.f :
         heap.f[o].refs = Cardinality({i \in DOMAIN heap.v : o \in FilesOf(heap.v[i])})
  BY <1>2 DEF FilesCounted, Users
<1>11. ASSUME NEW i \in DOMAIN heap.m
       PROVE  heap.m[i] = Cardinality({r \in Readers : i \in {reader[r].mem, reader[r].imm}})
                            + (IF i \in {mem, imm} THEN 1 ELSE 0)
  <2>. DEFINE S == {r \in Readers : i \in {reader[r].mem, reader[r].imm}}
  <2>1. heap.m[i] = Cardinality(K[i]) /\ IsFiniteSet(K[i]) /\ i \in Ids
    BY <1>1, <1>3 DEF Sound, MemsCounted
  <2>2. K[i] = S \cup (IF i \in {mem, imm} THEN {Db} ELSE {}) /\ Db \notin S
    BY <1>5, <2>1, DbIsNew
  <2>. HIDE DEF S
  <2>3. IsFiniteSet(S)
    BY <2>1, <2>2, FS_Subset
  <2>4. Cardinality(S \cup {Db}) = Cardinality(S) + 1 /\ Cardinality(S) \in Nat
    BY <2>2, <2>3, FS_AddElement, FS_CardinalityType
  <2>5. CASE i \in {mem, imm}
    <3>1. K[i] = S \cup {Db}
      BY <2>2, <2>5
    <3>. QED  BY <2>1, <2>4, <2>5, <3>1 DEF S
  <2>6. CASE i \notin {mem, imm}
    <3>1. K[i] = S
      BY <2>2, <2>6
    <3>2. heap.m[i] = Cardinality(S) + 0
      BY <2>1, <2>4, <3>1
    <3>. QED  BY <2>6, <3>2 DEF S
  <2>. QED  BY <2>5, <2>6
<1>12. {mem} \cup {reader[r].mem : r \in Readers} \cup {reader[r].imm : r \in Readers}
         \subseteq DOMAIN heap.m \cup {Nil}
  <2>1. \A i \in Ids : K[i] # {} => i \in DOMAIN heap.m
    BY <1>1 DEF Sound, MemsCounted
  <2>2. ASSUME NEW r \in Readers PROVE reader[r].mem \in DOMAIN heap.m \cup {Nil} /\ reader[r].imm \in DOMAIN heap.m \cup {Nil}
    <3>1. reader[r].mem \in Nat /\ reader[r].imm \in Nat
      <4>1. reader[r] = Idle \/ reader[r] \in [op : {"Get", "Iterator"}, v : Ids, mem : Ids, imm : Nat]
        BY <1>1 DEF ReaderStates
      <4>2. Idle.mem = Nil /\ Idle.imm = Nil /\ Nil \in Nat
        BY DEF Idle, Nil
      <4>. QED  BY <4>1, <4>2 DEF Ids
    <3>2. (reader[r].mem # Nil => reader[r].mem \in Ids) /\ (reader[r].imm # Nil => reader[r].imm \in Ids)
      BY <3>1 DEF Ids
    <3>. QED  BY <1>7, <2>1, <3>2
  <2>. QED  BY <1>1, <1>7, <2>1, <2>2
<1>. QED  BY <1>8, <1>9, <1>10, <1>11, <1>12 DEF CountsAreExact

\* However reads, iterators, flushes and compactions interleave, and whichever of them fail: the
\* tables of every version that is alive are in the directory, every reference count is the number
\* of references, and the candidate for a compaction by seeks is a file of the version that names
\* it, at a level with another below.  A table leaves the current version only as an input of the
\* compaction that is installed, and an installation that leaves only the current version alive
\* leaves its tables and no others.
THEOREM VersionsKeepTheirFiles ==
  ASSUME VersionsAssumption
  PROVE  Spec => VersionsAreKept
<1>1. Init => Inv
  BY InvInit
<1>2. Inv /\ [Next]_vars => Inv' /\ [LeavesNoGarbage /\ KeepsOthers]_vars
  BY InvStep
<1>3. Inv => FilesStay /\ CountsAreExact /\ CandidateIsThere
  <2>. SUFFICES ASSUME Inv PROVE FilesStay /\ CountsAreExact /\ CandidateIsThere
    OBVIOUS
  <2>1. FilesStay
    BY DEF Inv, Numbers, FilesStay
  <2>2. CandidateIsThere
    BY DEF Inv, HeapIsSound, Sound, HeapInv, Candidates, CandidateIsThere
  <2>. QED  BY <2>1, <2>2, InvCounts
<1>. QED  BY <1>1, <1>2, <1>3, PTL DEF Spec, VersionsAreKept

================================================================================

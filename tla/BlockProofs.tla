------------------------------ MODULE BlockProofs ------------------------------
(***************************************************************************)
(* Proofs about BlockReader: whatever is opened, evicted, replaced and     *)
(* read, by any number of readers, nobody reads what is gone, and all that *)
(* is there has one owner, which frees it in time.                         *)
(*                                                                         *)
(* The invariant is about two functions: one gives the owners of blocks    *)
(* their blocks, the other the tables with a filter in a buffer their      *)
(* buffers.  The lemmas of the first part say of any two such functions    *)
(* what deleting and adding does; each action is an instance of one or     *)
(* more of them.                                                           *)
(***************************************************************************)
EXTENDS BlockReader, FiniteSetTheorems, TLAPS

-------------------------------------------------------------------------------
\* Blocks blk in buffers hp, with their owners and the filters

BlockType == [data : {"heap", "map"} \X Nat, owned : BOOLEAN]
BuffersOf(blk, S) == {blk[b].data[2] : b \in {x \in S : blk[x].owned}}
ValuesOf(f, S) == {f[x] : x \in S}
OneToOne(f) == \A x, y \in DOMAIN f : f[x] = f[y] => x = y

Sound(at, blk, hp, fl) ==
  /\ OneToOne(at) /\ ValuesOf(at, DOMAIN at) = DOMAIN blk
  /\ blk \in [DOMAIN blk -> BlockType]
  /\ \A b \in DOMAIN blk : blk[b].owned <=> blk[b].data[1] = "heap"
  /\ \A b, c \in DOMAIN blk : blk[b].owned /\ blk[c].owned /\ blk[b].data[2] = blk[c].data[2] => b = c
  /\ OneToOne(fl)
  /\ \A b \in DOMAIN blk, x \in DOMAIN fl : blk[b].owned => blk[b].data[2] # fl[x]
  /\ hp = BuffersOf(blk, DOMAIN blk) \cup ValuesOf(fl, DOMAIN fl)

-------------------------------------------------------------------------------
\* The invariant

TableOwners == {<<"table", id>> : id \in DOMAIN tables}
CacheOwners == {<<"cache", h>> : h \in DOMAIN cache}
Own == {r \in Readers : reader[r].block # None /\ reader[r].handle = None}
ReaderOwners == {<<"reader", r>> : r \in Own}
OwnerOf == [o \in TableOwners \cup CacheOwners \cup ReaderOwners |->
              CASE o[1] = "table" -> tables[o[2]].index
                [] o[1] = "cache" -> cache[o[2]].block
                [] OTHER -> reader[o[2]].block]
FilterOf == [id \in {i \in DOMAIN tables : tables[i].filter_data # None} |-> tables[id].filter_data]
Users(h) == {r \in Readers : reader[r].handle = h}

ReaderType == [pc : {"idle", "open", "table", "miss", "block"}, table : Nat,
               offset : Offsets \cup {None}, block : Memory \cup {None}, handle : Memory \cup {None}]

Types ==
  /\ heap \subseteq Memory /\ DOMAIN blocks \subseteq Memory /\ DOMAIN cache \subseteq Memory
  /\ opens \in Nat /\ DOMAIN tables \subseteq 1..opens
  /\ tables \in [DOMAIN tables -> [mapped : BOOLEAN, index : Memory, filter_data : Memory \cup {None},
                                   filter : {"none", "map", "heap"} \X Nat]]
  /\ cached \in DOMAIN tables \cup {None}
  /\ cache \in [DOMAIN cache -> [key : Nat \X Offsets, block : Memory, refs : Nat, in : BOOLEAN]]
  /\ reader \in [Readers -> ReaderType]
  /\ wild = FALSE

\* What a reader holds, by where it is
ReaderIsRight(r) ==
  /\ reader[r].pc \in {"idle", "open"} => reader[r].table = None
  /\ reader[r].pc \in {"table", "miss", "block"} => reader[r].table \in DOMAIN tables
  /\ reader[r].pc = "miss" => reader[r].offset \in Offsets
  /\ reader[r].pc # "block" => reader[r].block = None /\ reader[r].handle = None
  /\ reader[r].pc = "block" => reader[r].block # None
  /\ reader[r].handle # None => reader[r].handle \in DOMAIN cache /\ cache[reader[r].handle].block = reader[r].block

ReadersAreRight == \A r \in Readers : ReaderIsRight(r)

\* Data in the mapping of a file: its table is open, and they are not in the cache.
MappedAreOpen ==
  /\ \A id \in DOMAIN tables :
       LET b == tables[id].index IN ~blocks[b].owned => blocks[b].data = <<"map", id>>
  /\ \A h \in DOMAIN cache : blocks[cache[h].block].owned
  /\ \A r \in Own :
       LET b == reader[r].block IN ~blocks[b].owned => blocks[b].data = <<"map", reader[r].table>>

FiltersAreThere ==
  \A id \in DOMAIN tables :
    IF tables[id].filter_data # None THEN tables[id].filter = <<"heap", tables[id].filter_data>>
    ELSE tables[id].filter \in {<<"none", 0>>, <<"map", id>>}

BlockInv ==
  /\ Types /\ ReadersAreRight /\ MappedAreOpen /\ FiltersAreThere
  /\ Sound(OwnerOf, blocks, heap, FilterOf) /\ NothingKept

-------------------------------------------------------------------------------
\* What adding and deleting does to blocks and their owners

\* A place that is free, if not all are taken.
LEMMA FreshIsFree == ASSUME NEW S, S \subseteq Memory, S # Memory PROVE Fresh(S) \in Memory /\ Fresh(S) \notin S
  <1> PICK x \in Memory : x \notin S OBVIOUS
  <1> QED BY DEF Fresh

LEMMA RemoveIs ==
  ASSUME NEW f, NEW S
  PROVE  /\ DOMAIN Remove(f, S) = DOMAIN f \ S
         /\ Remove(f, S) = [x \in DOMAIN f \ S |-> f[x]]
         /\ \A x \in DOMAIN f \ S : Remove(f, S)[x] = f[x]
  BY DEF Remove, Restrict

\* Owners K go with their blocks and buffers, and the filters of J with theirs.
LEMMA FreeIsSound ==
  ASSUME NEW at, NEW blk, NEW hp, NEW fl, Sound(at, blk, hp, fl),
         NEW K \in SUBSET DOMAIN at, NEW J \in SUBSET DOMAIN fl
  PROVE  /\ ValuesOf(at, K) \subseteq DOMAIN blk
         /\ BuffersOf(blk, ValuesOf(at, K)) \cup ValuesOf(fl, J) \subseteq hp
         /\ Sound(Remove(at, K), Remove(blk, ValuesOf(at, K)),
                  hp \ (BuffersOf(blk, ValuesOf(at, K)) \cup ValuesOf(fl, J)), Remove(fl, J))
  <1> DEFINE S == ValuesOf(at, K)
             at2 == Remove(at, K)
             blk2 == Remove(blk, S)
             hp2 == hp \ (BuffersOf(blk, S) \cup ValuesOf(fl, J))
             fl2 == Remove(fl, J)
  <1>1. /\ DOMAIN at2 = DOMAIN at \ K /\ DOMAIN blk2 = DOMAIN blk \ S /\ DOMAIN fl2 = DOMAIN fl \ J
        /\ \A x \in DOMAIN at2 : at2[x] = at[x]
        /\ \A x \in DOMAIN blk2 : blk2[x] = blk[x]
        /\ \A x \in DOMAIN fl2 : fl2[x] = fl[x]
        /\ blk2 = [x \in DOMAIN blk \ S |-> blk[x]]
    BY DEF at2, blk2, fl2, Remove, Restrict
  <1> HIDE DEF at2, blk2, fl2
  <1>2. S \subseteq DOMAIN blk
    BY DEF Sound, ValuesOf
  <1>3. BuffersOf(blk, S) \subseteq hp /\ ValuesOf(fl, J) \subseteq hp
    BY <1>2 DEF Sound, ValuesOf, BuffersOf
  <1>4. OneToOne(at2) /\ OneToOne(fl2)
    BY <1>1 DEF Sound, OneToOne
  <1>5. ValuesOf(at2, DOMAIN at2) = DOMAIN blk2
    <2>1. ValuesOf(at2, DOMAIN at2) = {at[x] : x \in DOMAIN at \ K}
      BY <1>1 DEF ValuesOf
    <2> QED BY <2>1, <1>1 DEF Sound, ValuesOf, OneToOne
  <1>6. blk2 \in [DOMAIN blk2 -> BlockType]
    BY <1>1 DEF Sound
  <1>7. /\ \A b \in DOMAIN blk2 : blk2[b].owned <=> blk2[b].data[1] = "heap"
        /\ \A b, c \in DOMAIN blk2 : blk2[b].owned /\ blk2[c].owned /\ blk2[b].data[2] = blk2[c].data[2] => b = c
    BY <1>1 DEF Sound
  <1>8. \A b \in DOMAIN blk2, x \in DOMAIN fl2 : blk2[b].owned => blk2[b].data[2] # fl2[x]
    BY <1>1 DEF Sound
  <1>9. hp2 = BuffersOf(blk2, DOMAIN blk2) \cup ValuesOf(fl2, DOMAIN fl2)
    <2>1. BuffersOf(blk2, DOMAIN blk2) = BuffersOf(blk, DOMAIN blk \ S)
      <3>1. {x \in DOMAIN blk2 : blk2[x].owned} = {x \in DOMAIN blk \ S : blk[x].owned}
        BY <1>1
      <3> QED BY <3>1, <1>1 DEF BuffersOf
    <2>2. ValuesOf(fl2, DOMAIN fl2) = ValuesOf(fl, DOMAIN fl \ J)
      BY <1>1 DEF ValuesOf
    <2>3. \A m \in BuffersOf(blk, DOMAIN blk \ S) : m \in hp2
      BY <1>2 DEF Sound, BuffersOf, ValuesOf
    <2>4. \A m \in ValuesOf(fl, DOMAIN fl \ J) : m \in hp2
      BY <1>2 DEF Sound, BuffersOf, ValuesOf, OneToOne
    <2>5. \A m \in hp2 : m \in BuffersOf(blk, DOMAIN blk \ S) \cup ValuesOf(fl, DOMAIN fl \ J)
      BY DEF Sound, BuffersOf, ValuesOf
    <2> QED BY <2>1, <2>2, <2>3, <2>4, <2>5
  <1> QED
    BY <1>2, <1>3, <1>4, <1>5, <1>6, <1>7, <1>8, <1>9 DEF Sound, at2, blk2, fl2

\* A new owner, with a new block, in a new buffer or in the mapping of a file
LEMMA AddIsSound ==
  ASSUME NEW at, NEW blk, NEW hp, NEW fl, Sound(at, blk, hp, fl),
         NEW o, o \notin DOMAIN at, NEW b, b \notin DOMAIN blk,
         NEW block \in BlockType, block.owned <=> block.data[1] = "heap",
         block.owned => block.data[2] \notin hp
  PROVE  Sound(Extend(at, o, b), Extend(blk, b, block),
               hp \cup (IF block.owned THEN {block.data[2]} ELSE {}), fl)
  <1> DEFINE at2 == Extend(at, o, b)
             blk2 == Extend(blk, b, block)
             hp2 == hp \cup (IF block.owned THEN {block.data[2]} ELSE {})
  <1>1. /\ DOMAIN at2 = DOMAIN at \cup {o} /\ DOMAIN blk2 = DOMAIN blk \cup {b}
        /\ \A x \in DOMAIN at : at2[x] = at[x]
        /\ \A x \in DOMAIN blk : blk2[x] = blk[x]
        /\ at2[o] = b /\ blk2[b] = block
    BY DEF Extend, at2, blk2
  <1>2. blk2 = [x \in DOMAIN blk2 |-> blk2[x]]
    BY DEF Extend
  <1> HIDE DEF at2, blk2
  <1>3. OneToOne(at2)
    BY <1>1 DEF Sound, OneToOne, ValuesOf
  <1>4. ValuesOf(at2, DOMAIN at2) = DOMAIN blk2
    BY <1>1 DEF Sound, ValuesOf
  <1>5. blk2 \in [DOMAIN blk2 -> BlockType]
    BY <1>1, <1>2 DEF Sound
  <1>6. /\ \A c \in DOMAIN blk2 : blk2[c].owned <=> blk2[c].data[1] = "heap"
        /\ \A c, d \in DOMAIN blk2 : blk2[c].owned /\ blk2[d].owned /\ blk2[c].data[2] = blk2[d].data[2] => c = d
        /\ \A c \in DOMAIN blk2, x \in DOMAIN fl : blk2[c].owned => blk2[c].data[2] # fl[x]
    BY <1>1 DEF Sound, BuffersOf, ValuesOf
  <1>7. hp2 = BuffersOf(blk2, DOMAIN blk2) \cup ValuesOf(fl, DOMAIN fl)
    <2>1. BuffersOf(blk2, DOMAIN blk2) = BuffersOf(blk, DOMAIN blk) \cup (IF block.owned THEN {block.data[2]} ELSE {})
      BY <1>1 DEF BuffersOf
    <2> QED BY <2>1 DEF Sound
  <1> QED
    BY <1>3, <1>4, <1>5, <1>6, <1>7 DEF Sound, at2, blk2

\* A new table whose filter is in a new buffer
LEMMA FilterIsSound ==
  ASSUME NEW at, NEW blk, NEW hp, NEW fl, Sound(at, blk, hp, fl),
         NEW id, id \notin DOMAIN fl, NEW m, m \notin hp
  PROVE  Sound(at, blk, hp \cup {m}, Extend(fl, id, m))
  <1> DEFINE fl2 == Extend(fl, id, m)
  <1>1. DOMAIN fl2 = DOMAIN fl \cup {id} /\ fl2[id] = m /\ \A x \in DOMAIN fl : fl2[x] = fl[x]
    BY DEF Extend, fl2
  <1> HIDE DEF fl2
  <1>2. OneToOne(fl2)
    BY <1>1 DEF Sound, OneToOne, ValuesOf
  <1>3. \A b \in DOMAIN blk, x \in DOMAIN fl2 : blk[b].owned => blk[b].data[2] # fl2[x]
    BY <1>1 DEF Sound, BuffersOf
  <1>4. ValuesOf(fl2, DOMAIN fl2) = ValuesOf(fl, DOMAIN fl) \cup {m}
    BY <1>1 DEF ValuesOf
  <1> QED BY <1>2, <1>3, <1>4 DEF Sound, fl2

\* Only what the two functions give matters.
LEMMA SameIsSound ==
  ASSUME NEW at, NEW blk, NEW hp, NEW fl, Sound(at, blk, hp, fl),
         NEW at2, DOMAIN at2 = DOMAIN at, \A o \in DOMAIN at : at2[o] = at[o],
         NEW fl2, DOMAIN fl2 = DOMAIN fl, \A id \in DOMAIN fl : fl2[id] = fl[id]
  PROVE  Sound(at2, blk, hp, fl2)
  <1>1. OneToOne(at2) /\ OneToOne(fl2)
    BY DEF Sound, OneToOne
  <1>2. ValuesOf(at2, DOMAIN at2) = ValuesOf(at, DOMAIN at) /\ ValuesOf(fl2, DOMAIN fl2) = ValuesOf(fl, DOMAIN fl)
    BY DEF ValuesOf
  <1> QED BY <1>1, <1>2 DEF Sound

-------------------------------------------------------------------------------
\* The owners of blocks and the filters in buffers, in this state and in the next

OwnersAre ==
  /\ \A id \in DOMAIN tables : <<"table", id>> \in DOMAIN OwnerOf /\ OwnerOf[<<"table", id>>] = tables[id].index
  /\ \A h \in DOMAIN cache : <<"cache", h>> \in DOMAIN OwnerOf /\ OwnerOf[<<"cache", h>>] = cache[h].block
  /\ \A r \in Own : <<"reader", r>> \in DOMAIN OwnerOf /\ OwnerOf[<<"reader", r>>] = reader[r].block
  /\ \A o \in DOMAIN OwnerOf :
       \/ \E id \in DOMAIN tables : o = <<"table", id>>
       \/ \E h \in DOMAIN cache : o = <<"cache", h>>
       \/ \E r \in Own : o = <<"reader", r>>
  /\ \A id : <<"table", id>> \in DOMAIN OwnerOf => id \in DOMAIN tables
  /\ \A h : <<"cache", h>> \in DOMAIN OwnerOf => h \in DOMAIN cache
  /\ \A r : <<"reader", r>> \in DOMAIN OwnerOf => r \in Own

LEMMA OwnersAreKnown == OwnersAre
  BY DEF OwnersAre, OwnerOf, TableOwners, CacheOwners, ReaderOwners

LEMMA OwnersAreKnownNext == OwnersAre'
  BY DEF OwnersAre, OwnerOf, TableOwners, CacheOwners, ReaderOwners

FiltersAre ==
  /\ DOMAIN FilterOf = {id \in DOMAIN tables : tables[id].filter_data # None}
  /\ \A id \in DOMAIN FilterOf : FilterOf[id] = tables[id].filter_data

LEMMA FiltersAreKnown == FiltersAre
  BY DEF FiltersAre, FilterOf

LEMMA FiltersAreKnownNext == FiltersAre'
  BY DEF FiltersAre, FilterOf

\* Everything that is owned is there.
LEMMA OwnedIsThere ==
  ASSUME Sound(OwnerOf, blocks, heap, FilterOf)
  PROVE  /\ \A id \in DOMAIN tables : tables[id].index \in DOMAIN blocks
         /\ \A h \in DOMAIN cache : cache[h].block \in DOMAIN blocks
         /\ \A r \in Own : reader[r].block \in DOMAIN blocks
         /\ \A b \in DOMAIN blocks : blocks[b].owned => blocks[b].data[2] \in heap
         /\ \A id \in DOMAIN tables : tables[id].filter_data # None => tables[id].filter_data \in heap
  <1>1. \A o \in DOMAIN OwnerOf : OwnerOf[o] \in DOMAIN blocks
    BY DEF Sound, ValuesOf
  <1>2. \A id \in DOMAIN FilterOf : FilterOf[id] \in heap
    BY DEF Sound, ValuesOf
  <1>3. \A b \in DOMAIN blocks : blocks[b].owned => blocks[b].data[2] \in heap
    BY DEF Sound, BuffersOf
  <1> QED BY <1>1, <1>2, <1>3, OwnersAreKnown, FiltersAreKnown DEF OwnersAre, FiltersAre

\* No two owners have the same block.
LEMMA OwnersAreApart ==
  ASSUME Sound(OwnerOf, blocks, heap, FilterOf)
  PROVE  /\ \A i, j \in DOMAIN tables : tables[i].index = tables[j].index => i = j
         /\ \A h, k \in DOMAIN cache : cache[h].block = cache[k].block => h = k
         /\ \A r, s \in Own : reader[r].block = reader[s].block => r = s
         /\ \A id \in DOMAIN tables, h \in DOMAIN cache : tables[id].index # cache[h].block
         /\ \A id \in DOMAIN tables, r \in Own : tables[id].index # reader[r].block
         /\ \A h \in DOMAIN cache, r \in Own : cache[h].block # reader[r].block
  <1>1. \A o, p \in DOMAIN OwnerOf : OwnerOf[o] = OwnerOf[p] => o = p
    BY DEF Sound, OneToOne
  <1>2. ASSUME NEW i \in DOMAIN tables, NEW j \in DOMAIN tables, tables[i].index = tables[j].index PROVE i = j
    <2>1. /\ <<"table", i>> \in DOMAIN OwnerOf /\ OwnerOf[<<"table", i>>] = tables[i].index
          /\ <<"table", j>> \in DOMAIN OwnerOf /\ OwnerOf[<<"table", j>>] = tables[j].index
      BY OwnersAreKnown DEF OwnersAre
    <2>2. <<"table", i>> = <<"table", j>>
      BY <2>1, <1>1, <1>2
    <2> QED BY <2>2
  <1>3. ASSUME NEW h \in DOMAIN cache, NEW k \in DOMAIN cache, cache[h].block = cache[k].block PROVE h = k
    <2>1. /\ <<"cache", h>> \in DOMAIN OwnerOf /\ OwnerOf[<<"cache", h>>] = cache[h].block
          /\ <<"cache", k>> \in DOMAIN OwnerOf /\ OwnerOf[<<"cache", k>>] = cache[k].block
      BY OwnersAreKnown DEF OwnersAre
    <2>2. <<"cache", h>> = <<"cache", k>>
      BY <2>1, <1>1, <1>3
    <2> QED BY <2>2
  <1>4. ASSUME NEW r \in Own, NEW s \in Own, reader[r].block = reader[s].block PROVE r = s
    <2>1. /\ <<"reader", r>> \in DOMAIN OwnerOf /\ OwnerOf[<<"reader", r>>] = reader[r].block
          /\ <<"reader", s>> \in DOMAIN OwnerOf /\ OwnerOf[<<"reader", s>>] = reader[s].block
      BY OwnersAreKnown DEF OwnersAre
    <2>2. <<"reader", r>> = <<"reader", s>>
      BY <2>1, <1>1, <1>4
    <2> QED BY <2>2
  <1>5. ASSUME NEW id \in DOMAIN tables, NEW h \in DOMAIN cache, tables[id].index = cache[h].block PROVE FALSE
    <2>1. /\ <<"table", id>> \in DOMAIN OwnerOf /\ OwnerOf[<<"table", id>>] = tables[id].index
          /\ <<"cache", h>> \in DOMAIN OwnerOf /\ OwnerOf[<<"cache", h>>] = cache[h].block
      BY OwnersAreKnown DEF OwnersAre
    <2>2. <<"table", id>> = <<"cache", h>>
      BY <2>1, <1>1, <1>5
    <2> QED BY <2>2
  <1>6. ASSUME NEW id \in DOMAIN tables, NEW r \in Own, tables[id].index = reader[r].block PROVE FALSE
    <2>1. /\ <<"table", id>> \in DOMAIN OwnerOf /\ OwnerOf[<<"table", id>>] = tables[id].index
          /\ <<"reader", r>> \in DOMAIN OwnerOf /\ OwnerOf[<<"reader", r>>] = reader[r].block
      BY OwnersAreKnown DEF OwnersAre
    <2>2. <<"table", id>> = <<"reader", r>>
      BY <2>1, <1>1, <1>6
    <2> QED BY <2>2
  <1>7. ASSUME NEW h \in DOMAIN cache, NEW r \in Own, cache[h].block = reader[r].block PROVE FALSE
    <2>1. /\ <<"cache", h>> \in DOMAIN OwnerOf /\ OwnerOf[<<"cache", h>>] = cache[h].block
          /\ <<"reader", r>> \in DOMAIN OwnerOf /\ OwnerOf[<<"reader", r>>] = reader[r].block
      BY OwnersAreKnown DEF OwnersAre
    <2>2. <<"cache", h>> = <<"reader", r>>
      BY <2>1, <1>1, <1>7
    <2> QED BY <2>2
  <1> QED BY <1>2, <1>3, <1>4, <1>5, <1>6, <1>7

-------------------------------------------------------------------------------
\* What goes with tables, with entries of the cache, and with the block of an iterator

LEMMA TablesGo ==
  ASSUME BlockInv, NEW closed \in SUBSET DOMAIN tables
  PROVE  LET indexes == {tables[id].index : id \in closed}
             filters == {tables[id].filter_data : id \in closed} \ {None}
         IN  /\ indexes \subseteq DOMAIN blocks /\ Buffers(indexes) \cup filters \subseteq heap
             /\ Sound(Remove(OwnerOf, {<<"table", id>> : id \in closed}), Remove(blocks, indexes),
                      heap \ (Buffers(indexes) \cup filters), Remove(FilterOf, closed \cap DOMAIN FilterOf))
  <1> DEFINE indexes == {tables[id].index : id \in closed}
             filters == {tables[id].filter_data : id \in closed} \ {None}
             K == {<<"table", id>> : id \in closed}
             J == closed \cap DOMAIN FilterOf
  <1>1. Sound(OwnerOf, blocks, heap, FilterOf)
    BY DEF BlockInv
  <1>2. K \in SUBSET DOMAIN OwnerOf /\ J \in SUBSET DOMAIN FilterOf
    BY OwnersAreKnown DEF OwnersAre
  <1>3. ValuesOf(OwnerOf, K) = indexes
    <2>1. \A id \in closed : OwnerOf[<<"table", id>>] = tables[id].index
      BY OwnersAreKnown DEF OwnersAre
    <2> QED BY <2>1 DEF ValuesOf
  <1>4. ValuesOf(FilterOf, J) = filters
    BY FiltersAreKnown DEF FiltersAre, ValuesOf
  <1>5. BuffersOf(blocks, indexes) = Buffers(indexes)
    BY DEF BuffersOf, Buffers
  <1> HIDE DEF K, J
  <1>6. /\ ValuesOf(OwnerOf, K) \subseteq DOMAIN blocks
        /\ BuffersOf(blocks, ValuesOf(OwnerOf, K)) \cup ValuesOf(FilterOf, J) \subseteq heap
        /\ Sound(Remove(OwnerOf, K), Remove(blocks, ValuesOf(OwnerOf, K)),
                 heap \ (BuffersOf(blocks, ValuesOf(OwnerOf, K)) \cup ValuesOf(FilterOf, J)), Remove(FilterOf, J))
    BY <1>1, <1>2, FreeIsSound
  <1> QED BY <1>3, <1>4, <1>5, <1>6 DEF K, J

LEMMA EntriesGo ==
  ASSUME BlockInv, NEW H \in SUBSET DOMAIN cache
  PROVE  LET gone == {cache[h].block : h \in H}
         IN  /\ gone \subseteq DOMAIN blocks /\ Buffers(gone) \subseteq heap
             /\ Sound(Remove(OwnerOf, {<<"cache", h>> : h \in H}), Remove(blocks, gone),
                      heap \ Buffers(gone), FilterOf)
  <1> DEFINE gone == {cache[h].block : h \in H}
             K == {<<"cache", h>> : h \in H}
  <1>1. Sound(OwnerOf, blocks, heap, FilterOf)
    BY DEF BlockInv
  <1>2. K \in SUBSET DOMAIN OwnerOf /\ {} \in SUBSET DOMAIN FilterOf
    BY OwnersAreKnown DEF OwnersAre
  <1>3. ValuesOf(OwnerOf, K) = gone
    <2>1. \A h \in H : OwnerOf[<<"cache", h>>] = cache[h].block
      BY OwnersAreKnown DEF OwnersAre
    <2> QED BY <2>1 DEF ValuesOf
  <1>4. ValuesOf(FilterOf, {}) = {}
    BY DEF ValuesOf
  <1>5. BuffersOf(blocks, gone) = Buffers(gone)
    BY DEF BuffersOf, Buffers
  <1> HIDE DEF K
  <1>6. /\ ValuesOf(OwnerOf, K) \subseteq DOMAIN blocks
        /\ BuffersOf(blocks, ValuesOf(OwnerOf, K)) \cup ValuesOf(FilterOf, {}) \subseteq heap
        /\ Sound(Remove(OwnerOf, K), Remove(blocks, ValuesOf(OwnerOf, K)),
                 heap \ (BuffersOf(blocks, ValuesOf(OwnerOf, K)) \cup ValuesOf(FilterOf, {})), Remove(FilterOf, {}))
    BY <1>1, <1>2, FreeIsSound
  <1>7. DOMAIN Remove(FilterOf, {}) = DOMAIN FilterOf /\ \A id \in DOMAIN FilterOf : FilterOf[id] = Remove(FilterOf, {})[id]
    BY DEF Remove, Restrict
  <1>8. Buffers(gone) \cup {} = Buffers(gone)
    OBVIOUS
  <1>9. Sound(Remove(OwnerOf, K), Remove(blocks, gone), heap \ Buffers(gone), FilterOf)
    BY <1>3, <1>4, <1>5, <1>6, <1>7, <1>8, SameIsSound
  <1> QED BY <1>3, <1>4, <1>5, <1>6, <1>9 DEF K

LEMMA OwnGoes ==
  ASSUME BlockInv, NEW r \in Own
  PROVE  LET gone == {reader[r].block}
         IN  /\ gone \subseteq DOMAIN blocks /\ Buffers(gone) \subseteq heap
             /\ Sound(Remove(OwnerOf, {<<"reader", r>>}), Remove(blocks, gone), heap \ Buffers(gone), FilterOf)
  <1> DEFINE gone == {reader[r].block}
             K == {<<"reader", r>>}
  <1>1. Sound(OwnerOf, blocks, heap, FilterOf)
    BY DEF BlockInv
  <1>2. K \in SUBSET DOMAIN OwnerOf /\ {} \in SUBSET DOMAIN FilterOf
    BY OwnersAreKnown DEF OwnersAre
  <1>3. ValuesOf(OwnerOf, K) = gone
    <2>1. OwnerOf[<<"reader", r>>] = reader[r].block
      BY OwnersAreKnown DEF OwnersAre
    <2> QED BY <2>1 DEF ValuesOf
  <1>4. ValuesOf(FilterOf, {}) = {}
    BY DEF ValuesOf
  <1>5. BuffersOf(blocks, gone) = Buffers(gone)
    BY DEF BuffersOf, Buffers
  <1> HIDE DEF K
  <1>6. /\ ValuesOf(OwnerOf, K) \subseteq DOMAIN blocks
        /\ BuffersOf(blocks, ValuesOf(OwnerOf, K)) \cup ValuesOf(FilterOf, {}) \subseteq heap
        /\ Sound(Remove(OwnerOf, K), Remove(blocks, ValuesOf(OwnerOf, K)),
                 heap \ (BuffersOf(blocks, ValuesOf(OwnerOf, K)) \cup ValuesOf(FilterOf, {})), Remove(FilterOf, {}))
    BY <1>1, <1>2, FreeIsSound
  <1>7. DOMAIN Remove(FilterOf, {}) = DOMAIN FilterOf /\ \A id \in DOMAIN FilterOf : FilterOf[id] = Remove(FilterOf, {})[id]
    BY DEF Remove, Restrict
  <1>8. Buffers(gone) \cup {} = Buffers(gone)
    OBVIOUS
  <1>9. Sound(Remove(OwnerOf, K), Remove(blocks, gone), heap \ Buffers(gone), FilterOf)
    BY <1>3, <1>4, <1>5, <1>6, <1>7, <1>8, SameIsSound
  <1> QED BY <1>3, <1>4, <1>5, <1>6, <1>9 DEF K

-------------------------------------------------------------------------------
\* The invariant holds at the beginning.

LEMMA BlockInvInit == Init => BlockInv
  <1> SUFFICES ASSUME Init PROVE BlockInv OBVIOUS
  <1> USE DEF Init
  <1>1. Types
    BY DEF Types, ReaderType, Idle, None
  <1>2. ReadersAreRight /\ FiltersAreThere /\ NothingKept
    BY DEF ReadersAreRight, ReaderIsRight, FiltersAreThere, NothingKept, Idle, None
  <1>3. Own = {}
    BY DEF Own, Idle
  <1>4. MappedAreOpen
    BY <1>3 DEF MappedAreOpen
  <1>5. DOMAIN OwnerOf = {} /\ DOMAIN FilterOf = {} /\ DOMAIN blocks = {}
    <2>1. DOMAIN tables = {} /\ DOMAIN cache = {} /\ DOMAIN blocks = {}
      OBVIOUS
    <2> QED BY <2>1, <1>3 DEF OwnerOf, TableOwners, CacheOwners, ReaderOwners, FilterOf
  <1>6. Sound(OwnerOf, blocks, heap, FilterOf)
    <2>1. blocks \in [{} -> BlockType]
      OBVIOUS
    <2> QED BY <1>5, <2>1 DEF Sound, OneToOne, ValuesOf, BuffersOf
  <1> QED BY <1>1, <1>2, <1>4, <1>6 DEF BlockInv

-------------------------------------------------------------------------------
\* What actions keep

\* Who stays or goes, when one reader changes
LEMMA OneReader ==
  ASSUME reader \in [Readers -> ReaderType], NEW r \in Readers, NEW s \in ReaderType, reader' = [reader EXCEPT ![r] = s]
  PROVE  /\ reader' \in [Readers -> ReaderType] /\ reader'[r] = s
         /\ \A q \in Readers \ {r} : reader'[q] = reader[q]
         /\ Own' \ {r} = Own \ {r} /\ (r \in Own' <=> s.block # None /\ s.handle = None)
         /\ \A id : UsersOf(id)' = (UsersOf(id) \ {r}) \cup (IF s.table = id THEN {r} ELSE {})
         /\ \A h : Users(h)' = (Users(h) \ {r}) \cup (IF s.handle = h THEN {r} ELSE {})
  <1>2. reader' \in [Readers -> ReaderType] /\ reader'[r] = s /\ \A q \in Readers \ {r} : reader'[q] = reader[q]
    OBVIOUS
  <1>3. Own' \ {r} = Own \ {r} /\ (r \in Own' <=> s.block # None /\ s.handle = None)
    BY <1>2 DEF Own
  <1>4. \A id : UsersOf(id)' = (UsersOf(id) \ {r}) \cup (IF s.table = id THEN {r} ELSE {})
    BY <1>2 DEF UsersOf
  <1>5. \A h : Users(h)' = (Users(h) \ {r}) \cup (IF s.handle = h THEN {r} ELSE {})
    BY <1>2 DEF Users
  <1> QED BY <1>2, <1>3, <1>4, <1>5

\* None is no table and no place.
LEMMA NoneIsNothing == BlockInv => None \notin DOMAIN tables /\ None \notin Memory /\ None \notin DOMAIN cache
  <1>1. 0 \notin Memory
    BY BlockReaderAssumption DEF Memory
  <1> QED BY <1>1 DEF BlockInv, Types, None

\* How many are on an entry, and on a table, says what is kept.
LEMMA NothingKeptIs ==
  NothingKept <=> /\ \A id \in DOMAIN tables : id = cached \/ UsersOf(id) # {}
                  /\ \A h \in DOMAIN cache : /\ cache[h].refs = Cardinality(Users(h)) + (IF cache[h].in THEN 1 ELSE 0)
                                             /\ cache[h].refs > 0
  BY DEF NothingKept, Users

LEMMA NothingKeptNext ==
  NothingKept' <=> /\ \A id \in DOMAIN tables' : id = cached' \/ UsersOf(id)' # {}
                   /\ \A h \in DOMAIN cache' : /\ cache'[h].refs = Cardinality(Users(h)') + (IF cache'[h].in THEN 1 ELSE 0)
                                               /\ cache'[h].refs > 0
  BY DEF NothingKept, Users

\* A reader without a block moves.
LEMMA ReaderMoves ==
  ASSUME BlockInv, NEW r \in Readers, NEW s \in ReaderType, reader' = [reader EXCEPT ![r] = s],
         UNCHANGED <<heap, blocks, tables, cached, opens, cache, wild>>,
         reader[r].pc # "block", ReaderIsRight(r)', s.pc # "block",
         \A id \in DOMAIN tables : id = cached \/ UsersOf(id)' # {}
  PROVE  BlockInv'
  <1> USE DEF BlockInv
  <1>1. /\ reader' \in [Readers -> ReaderType] /\ reader'[r] = s
        /\ \A q \in Readers \ {r} : reader'[q] = reader[q]
        /\ Own' \ {r} = Own \ {r} /\ (r \in Own' <=> s.block # None /\ s.handle = None)
        /\ \A h : Users(h)' = (Users(h) \ {r}) \cup (IF s.handle = h THEN {r} ELSE {})
    <2>1. reader \in [Readers -> ReaderType]
      BY DEF Types
    <2> QED BY <2>1, OneReader
  <1>2. reader[r].block = None /\ reader[r].handle = None /\ s.block = None /\ s.handle = None
    BY <1>1 DEF ReadersAreRight, ReaderIsRight
  <1>3. Own' = Own /\ \A q \in Own : reader'[q] = reader[q]
    BY <1>1, <1>2 DEF Own
  <1>4. \A h \in DOMAIN cache : Users(h)' = Users(h)
    BY <1>1, <1>2, NoneIsNothing DEF Users
  <1>5. Types'
    BY <1>1 DEF Types, Memory, None
  <1>6. ReadersAreRight'
    BY <1>1 DEF ReadersAreRight, ReaderIsRight
  <1>7. MappedAreOpen' /\ FiltersAreThere'
    BY <1>3 DEF MappedAreOpen, FiltersAreThere
  <1>8. NothingKept'
    BY <1>4, NothingKeptIs, NothingKeptNext
  <1>9. Sound(OwnerOf, blocks, heap, FilterOf)'
    <2>1. OwnerOf' = OwnerOf
      <3>1. /\ TableOwners' = TableOwners /\ CacheOwners' = CacheOwners /\ ReaderOwners' = ReaderOwners
        BY <1>3 DEF TableOwners, CacheOwners, ReaderOwners
      <3>2. \A o \in ReaderOwners : reader'[o[2]] = reader[o[2]]
        BY <1>3 DEF ReaderOwners
      <3>3. \A o \in DOMAIN OwnerOf : OwnerOf'[o] = OwnerOf[o]
        BY <1>3, <3>1, OwnersAreKnown, OwnersAreKnownNext DEF OwnersAre
      <3>4. DOMAIN OwnerOf' = DOMAIN OwnerOf
        BY <3>1 DEF OwnerOf
      <3> QED BY <3>3, <3>4 DEF OwnerOf
    <2>2. FilterOf' = FilterOf
      BY DEF FilterOf
    <2> QED BY <2>1, <2>2
  <1> QED BY <1>5, <1>6, <1>7, <1>8, <1>9

\* FindTable, OpenFails, ReadFails, and a Lookup that finds nothing
LEMMA FindTableKeeps == ASSUME BlockInv, NEW r \in Readers, FindTable(r) PROVE BlockInv'
  <1> DEFINE s == IF cached = None THEN [Idle EXCEPT !.pc = "open"] ELSE [Idle EXCEPT !.pc = "table", !.table = cached]
  <1>1. s \in ReaderType
    <2>1. cached \in Nat
      BY DEF BlockInv, Types, None
    <2> QED BY <2>1 DEF ReaderType, Idle, None
  <1>2. /\ reader' = [reader EXCEPT ![r] = s] /\ reader[r].pc = "idle" /\ s.pc # "block"
        /\ UNCHANGED <<heap, blocks, tables, cached, opens, cache, wild>>
    BY DEF FindTable, Step, Idle
  <1>3. reader'[r] = s /\ \A id : UsersOf(id)' = (UsersOf(id) \ {r}) \cup (IF s.table = id THEN {r} ELSE {})
    <2>1. s \in ReaderType /\ reader' = [reader EXCEPT ![r] = s]
      BY <1>1, <1>2
    <2>2. reader \in [Readers -> ReaderType]
      BY DEF BlockInv, Types
    <2> HIDE DEF s
    <2> QED BY <2>1, <2>2, OneReader
  <1>4. ReaderIsRight(r)'
    BY <1>2, <1>3, NoneIsNothing DEF ReaderIsRight, Idle, BlockInv, Types
  <1>5. \A id \in DOMAIN tables : id = cached \/ UsersOf(id)' # {}
    <2>1. reader[r].table = None
      BY <1>2 DEF BlockInv, ReadersAreRight, ReaderIsRight
    <2>2. \A id \in DOMAIN tables : r \notin UsersOf(id)
      BY <2>1, NoneIsNothing DEF UsersOf
    <2> HIDE DEF s
    <2> QED BY <1>3, <2>2, NothingKeptIs DEF BlockInv
  <1> HIDE DEF s
  <1> QED BY <1>1, <1>2, <1>4, <1>5, ReaderMoves

LEMMA OpenFailsKeeps == ASSUME BlockInv, NEW r \in Readers, OpenFails(r) PROVE BlockInv'
  <1>1. Idle \in ReaderType
    BY DEF ReaderType, Idle, None
  <1>2. /\ reader' = [reader EXCEPT ![r] = Idle] /\ reader[r].pc = "open" /\ Idle.pc # "block"
        /\ UNCHANGED <<heap, blocks, tables, cached, opens, cache, wild>>
    BY DEF OpenFails, Step, Idle
  <1>3. reader'[r] = Idle /\ \A id : UsersOf(id)' = (UsersOf(id) \ {r}) \cup (IF Idle.table = id THEN {r} ELSE {})
    <2> DEFINE s == Idle
    <2>1. s \in ReaderType /\ reader' = [reader EXCEPT ![r] = s]
      BY <1>1, <1>2
    <2> HIDE DEF s
    <2>2. reader'[r] = s /\ \A id : UsersOf(id)' = (UsersOf(id) \ {r}) \cup (IF s.table = id THEN {r} ELSE {})
      <3>1. reader \in [Readers -> ReaderType]
        BY DEF BlockInv, Types
      <3> QED BY <2>1, <3>1, OneReader
    <2> QED BY <2>2 DEF s
  <1>4. ReaderIsRight(r)'
    BY <1>3 DEF ReaderIsRight, Idle
  <1>5. \A id \in DOMAIN tables : id = cached \/ UsersOf(id)' # {}
    <2>1. reader[r].table = None
      BY <1>2 DEF BlockInv, ReadersAreRight, ReaderIsRight
    <2>2. \A id \in DOMAIN tables : r \notin UsersOf(id)
      BY <2>1, NoneIsNothing DEF UsersOf
    <2> QED BY <1>3, <2>2, NothingKeptIs DEF BlockInv
  <1> QED BY <1>1, <1>2, <1>4, <1>5, ReaderMoves

LEMMA ReadFailsKeeps == ASSUME BlockInv, NEW r \in Readers, ReadFails(r) PROVE BlockInv'
  <1> DEFINE s == [reader[r] EXCEPT !.pc = "table", !.offset = None]
  <1>1. s \in ReaderType /\ s.table = reader[r].table /\ s.pc = "table" /\ s.block = reader[r].block /\ s.handle = reader[r].handle
    BY DEF BlockInv, Types, ReaderType
  <1>2. /\ reader' = [reader EXCEPT ![r] = s] /\ reader[r].pc = "miss"
        /\ UNCHANGED <<heap, blocks, tables, cached, opens, cache, wild>>
    BY DEF ReadFails, Step
  <1> HIDE DEF s
  <1>3. reader'[r] = s /\ \A id : UsersOf(id)' = (UsersOf(id) \ {r}) \cup (IF s.table = id THEN {r} ELSE {})
    <2>1. reader \in [Readers -> ReaderType]
      BY DEF BlockInv, Types
    <2> QED BY <1>1, <1>2, <2>1, OneReader
  <1>4. ReaderIsRight(r)'
    BY <1>1, <1>2, <1>3 DEF BlockInv, ReadersAreRight, ReaderIsRight
  <1>5. \A id \in DOMAIN tables : id = cached \/ UsersOf(id)' # {}
    BY <1>1, <1>3, NothingKeptIs DEF BlockInv, UsersOf
  <1> QED BY <1>1, <1>2, <1>4, <1>5, ReaderMoves

LEMMA LookupMisses ==
  ASSUME BlockInv, NEW r \in Readers, NEW offset \in Offsets, Lookup(r, offset), Find(<<reader[r].table, offset>>) = {}
  PROVE  BlockInv'
  <1> DEFINE s == [reader[r] EXCEPT !.pc = "miss", !.offset = offset]
  <1>1. /\ s \in ReaderType /\ s.table = reader[r].table /\ s.pc = "miss" /\ s.block = reader[r].block
        /\ s.handle = reader[r].handle /\ s.offset = offset
    BY DEF BlockInv, Types, ReaderType
  <1>2. /\ reader' = [reader EXCEPT ![r] = s] /\ reader[r].pc = "table"
        /\ UNCHANGED <<heap, blocks, tables, cached, opens, cache, wild>>
    BY DEF Lookup, Step
  <1> HIDE DEF s
  <1>3. reader'[r] = s /\ \A id : UsersOf(id)' = (UsersOf(id) \ {r}) \cup (IF s.table = id THEN {r} ELSE {})
    <2>1. reader \in [Readers -> ReaderType]
      BY DEF BlockInv, Types
    <2> QED BY <1>1, <1>2, <2>1, OneReader
  <1>4. ReaderIsRight(r)'
    BY <1>1, <1>2, <1>3 DEF BlockInv, ReadersAreRight, ReaderIsRight
  <1>5. \A id \in DOMAIN tables : id = cached \/ UsersOf(id)' # {}
    BY <1>1, <1>3, NothingKeptIs DEF BlockInv, UsersOf
  <1> QED BY <1>1, <1>2, <1>4, <1>5, ReaderMoves

\* No block changes hands.
LEMMA TransferKeeps ==
  ASSUME BlockInv, UNCHANGED <<heap, blocks, tables>>,
         Own' = Own, \A q \in Own : reader'[q].block = reader[q].block /\ reader'[q].table = reader[q].table,
         DOMAIN cache' = DOMAIN cache, \A h \in DOMAIN cache : cache'[h].block = cache[h].block
  PROVE  Sound(OwnerOf, blocks, heap, FilterOf)' /\ MappedAreOpen' /\ FiltersAreThere'
  <1> USE DEF BlockInv
  <1>1. MappedAreOpen'
    BY DEF MappedAreOpen
  <1>2. FiltersAreThere'
    BY DEF FiltersAreThere
  <1>3. Sound(OwnerOf, blocks, heap, FilterOf)'
    <2>1. TableOwners' = TableOwners /\ CacheOwners' = CacheOwners /\ ReaderOwners' = ReaderOwners
      BY DEF TableOwners, CacheOwners, ReaderOwners
    <2>2. DOMAIN OwnerOf' = DOMAIN OwnerOf
      BY <2>1 DEF OwnerOf
    <2>3. \A o \in DOMAIN OwnerOf : OwnerOf'[o] = OwnerOf[o]
      BY OwnersAreKnown, OwnersAreKnownNext DEF OwnersAre
    <2>4. FilterOf' = FilterOf
      BY DEF FilterOf
    <2>5. Sound(OwnerOf, blocks, heap, FilterOf)
      OBVIOUS
    <2>6. DOMAIN FilterOf' = DOMAIN FilterOf /\ \A id \in DOMAIN FilterOf : FilterOf'[id] = FilterOf[id]
      BY <2>4
    <2>7. Sound(OwnerOf', blocks, heap, FilterOf')
      BY <2>2, <2>3, <2>5, <2>6, SameIsSound
    <2> QED BY <2>7
  <1> QED BY <1>1, <1>2, <1>3

\* Readers are finitely many.
LEMMA UsersAreFinite == ASSUME NEW h PROVE IsFiniteSet(Users(h)) /\ Cardinality(Users(h)) \in Nat
  <1>1. Users(h) \subseteq Readers
    BY DEF Users
  <1>2. IsFiniteSet(Users(h))
    BY <1>1, BlockReaderAssumption, FS_Subset
  <1> QED BY <1>2, FS_CardinalityType

LEMMA UsersChange ==
  ASSUME NEW h, NEW r, NEW S, S = Users(h)
  PROVE  /\ r \notin S => Cardinality(S \cup {r}) = Cardinality(S) + 1
         /\ r \in S => Cardinality(S \ {r}) = Cardinality(S) - 1
  BY UsersAreFinite, FS_AddElement, FS_RemoveElement

LEMMA LookupFinds ==
  ASSUME BlockInv, NEW r \in Readers, NEW offset \in Offsets, Lookup(r, offset), Find(<<reader[r].table, offset>>) # {}
  PROVE  BlockInv'
  <1> USE DEF BlockInv
  <1>1. PICK h \in DOMAIN cache :
          /\ reader' = [reader EXCEPT ![r] = [reader[r] EXCEPT !.pc = "block", !.offset = offset, !.block = cache[h].block, !.handle = h]]
          /\ cache' = [cache EXCEPT ![h].refs = @ + 1]
    <2> DEFINE x == CHOOSE y \in Find(<<reader[r].table, offset>>) : TRUE
    <2>1. x \in DOMAIN cache
      BY DEF Find
    <2>2. /\ reader' = [reader EXCEPT ![r] = [reader[r] EXCEPT !.pc = "block", !.offset = offset, !.block = cache[x].block, !.handle = x]]
          /\ cache' = [cache EXCEPT ![x].refs = @ + 1]
      BY DEF Lookup, Step
    <2> HIDE DEF x
    <2> QED BY <2>1, <2>2
  <1>2. reader[r].pc = "table" /\ UNCHANGED <<heap, blocks, tables, cached, opens, wild>>
    BY DEF Lookup
  <1>3. cache[h].block \in Memory /\ h \in Memory /\ reader[r] \in ReaderType
    BY DEF Types
  <1>4. PICK s \in ReaderType :
          /\ s.table = reader[r].table /\ s.pc = "block" /\ s.handle = h /\ s.block = cache[h].block
          /\ reader' = [reader EXCEPT ![r] = s]
    <2> DEFINE t == [reader[r] EXCEPT !.pc = "block", !.offset = offset, !.block = cache[h].block, !.handle = h]
    <2>1. t \in ReaderType /\ t.table = reader[r].table /\ t.pc = "block" /\ t.handle = h /\ t.block = cache[h].block
      BY <1>3 DEF ReaderType
    <2>2. reader' = [reader EXCEPT ![r] = t]
      BY <1>1
    <2> HIDE DEF t
    <2> QED BY <2>1, <2>2
  <1>5. /\ reader' \in [Readers -> ReaderType] /\ reader'[r] = s
        /\ \A q \in Readers \ {r} : reader'[q] = reader[q]
        /\ Own' \ {r} = Own \ {r} /\ (r \in Own' <=> s.block # None /\ s.handle = None)
        /\ \A id : UsersOf(id)' = (UsersOf(id) \ {r}) \cup (IF s.table = id THEN {r} ELSE {})
        /\ \A k : Users(k)' = (Users(k) \ {r}) \cup (IF s.handle = k THEN {r} ELSE {})
    <2>1. reader \in [Readers -> ReaderType]
      BY DEF Types
    <2>2. reader' = [reader EXCEPT ![r] = s]
      BY <1>4
    <2> HIDE DEF BlockInv
    <2> QED BY <2>1, <2>2, OneReader
  <1>6. reader[r].block = None /\ reader[r].handle = None /\ h # None /\ cache[h].block # None
    BY <1>2, <1>3, NoneIsNothing DEF ReadersAreRight, ReaderIsRight
  <1>7. Own' = Own /\ \A q \in Own : reader'[q].block = reader[q].block /\ reader'[q].table = reader[q].table
    <2>1. r \notin Own /\ r \notin Own'
      BY <1>4, <1>5, <1>6 DEF Own
    <2>2. Own \subseteq Readers
      BY DEF Own
    <2>3. Own' = Own
      <3>1. Own' \ {r} = Own \ {r}
        BY <1>5
      <3> QED BY <2>1, <3>1
    <2>4. \A q \in Own : reader'[q] = reader[q]
      BY <1>5, <2>1, <2>2
    <2> QED BY <2>3, <2>4
  <1>8. /\ DOMAIN cache' = DOMAIN cache /\ cache'[h].refs = cache[h].refs + 1
        /\ \A k \in DOMAIN cache : /\ cache'[k].block = cache[k].block /\ cache'[k].in = cache[k].in
                                   /\ cache'[k].key = cache[k].key /\ (k # h => cache'[k] = cache[k])
    BY <1>1, <1>2 DEF Types
  <1>9. Types'
    <2>1. cache' \in [DOMAIN cache' -> [key : Nat \X Offsets, block : Memory, refs : Nat, in : BOOLEAN]]
      BY <1>1, <1>2 DEF Types
    <2> QED BY <2>1, <1>2, <1>5, <1>8 DEF Types, Memory, None
  <1>10. ReadersAreRight'
    <2>1. ReaderIsRight(r)'
      BY <1>1, <1>2, <1>4, <1>5, <1>6, <1>8 DEF ReadersAreRight, ReaderIsRight, None
    <2>2. ASSUME NEW q \in Readers \ {r} PROVE ReaderIsRight(q)'
      BY <1>2, <1>5, <1>8 DEF ReadersAreRight, ReaderIsRight, None
    <2> QED BY <2>1, <2>2 DEF ReadersAreRight
  <1>11. Sound(OwnerOf, blocks, heap, FilterOf)' /\ MappedAreOpen' /\ FiltersAreThere'
    BY <1>2, <1>7, <1>8, TransferKeeps
  <1>12. NothingKept'
    <2>1. \A id \in DOMAIN tables : id = cached \/ UsersOf(id)' # {}
      BY <1>4, <1>5, NothingKeptIs DEF UsersOf
    <2>2. ASSUME NEW k \in DOMAIN cache, k # h PROVE Users(k)' = Users(k)
      BY <1>4, <1>5, <1>6, <2>2, NoneIsNothing DEF Users
    <2>3. Cardinality(Users(h)') = Cardinality(Users(h)) + 1 /\ Cardinality(Users(h)) \in Nat
      <3>1. r \notin Users(h)
        BY <1>6 DEF Users
      <3>2. Users(h)' = Users(h) \cup {r}
        BY <1>4, <1>5, <3>1
      <3> QED BY <3>1, <3>2, UsersChange, UsersAreFinite
    <2>4. ASSUME NEW k \in DOMAIN cache
          PROVE  cache'[k].refs = Cardinality(Users(k)') + (IF cache'[k].in THEN 1 ELSE 0) /\ cache'[k].refs > 0
      <3>1. cache[k].refs = Cardinality(Users(k)) + (IF cache[k].in THEN 1 ELSE 0) /\ cache[k].refs > 0 /\ cache[k].refs \in Nat
        BY NothingKeptIs DEF Types
      <3>2. CASE k = h
        BY <3>1, <3>2, <2>3, <1>8
      <3>3. CASE k # h
        BY <3>1, <3>3, <2>2, <1>8
      <3> QED BY <3>2, <3>3
    <2> QED BY <2>1, <2>4, <1>2, <1>8, NothingKeptNext
  <1> QED BY <1>9, <1>10, <1>11, <1>12

\* An entry of the cache goes, with its block.
LEMMA EntryGoes ==
  ASSUME BlockInv, NEW h \in DOMAIN cache, DeleteBlocks({cache[h].block}, {}), cache' = Remove(cache, {h}),
         UNCHANGED tables, Own' = Own,
         \A q \in Own : reader'[q].block = reader[q].block /\ reader'[q].table = reader[q].table
  PROVE  /\ Sound(OwnerOf, blocks, heap, FilterOf)' /\ MappedAreOpen' /\ FiltersAreThere' /\ wild' = wild
         /\ heap' \subseteq heap /\ DOMAIN blocks' \subseteq DOMAIN blocks
         /\ DOMAIN cache' = DOMAIN cache \ {h} /\ \A k \in DOMAIN cache \ {h} : cache'[k] = cache[k]
         /\ cache' = [k \in DOMAIN cache \ {h} |-> cache[k]]
  <1> DEFINE gone == {cache[h].block}
             K == {<<"cache", h>>}
  <1>1. /\ gone \subseteq DOMAIN blocks /\ Buffers(gone) \subseteq heap
        /\ Sound(Remove(OwnerOf, K), Remove(blocks, gone), heap \ Buffers(gone), FilterOf)
    <2>1. {h} \in SUBSET DOMAIN cache /\ {cache[k].block : k \in {h}} = gone /\ {<<"cache", k>> : k \in {h}} = K
      OBVIOUS
    <2> HIDE DEF gone, K
    <2> QED BY <2>1, EntriesGo
  <1>2. wild' = wild /\ blocks' = Remove(blocks, gone) /\ heap' = heap \ Buffers(gone)
    <2>1. gone \cap DOMAIN blocks = gone
      BY <1>1
    <2> QED BY <1>1, <2>1 DEF DeleteBlocks, BlockInv, Types
  <1>3. /\ DOMAIN cache' = DOMAIN cache \ {h} /\ \A k \in DOMAIN cache \ {h} : cache'[k] = cache[k]
        /\ cache' = [k \in DOMAIN cache \ {h} |-> cache[k]]
    BY DEF Remove, Restrict
  <1>4. DOMAIN blocks' = DOMAIN blocks \ gone /\ \A b \in DOMAIN blocks \ gone : blocks'[b] = blocks[b]
    BY <1>2 DEF Remove, Restrict
  <1>5. FilterOf' = FilterOf /\ FiltersAreThere'
    BY DEF FilterOf, FiltersAreThere, BlockInv
  <1>6. Sound(OwnerOf, blocks, heap, FilterOf)'
    <2>1. TableOwners' = TableOwners /\ CacheOwners' = CacheOwners \ K /\ ReaderOwners' = ReaderOwners
      BY <1>3 DEF TableOwners, CacheOwners, ReaderOwners
    <2>2. /\ DOMAIN OwnerOf' = TableOwners' \cup CacheOwners' \cup ReaderOwners'
          /\ DOMAIN OwnerOf = TableOwners \cup CacheOwners \cup ReaderOwners
      BY DEF OwnerOf
    <2>3. <<"cache", h>> \notin TableOwners /\ <<"cache", h>> \notin ReaderOwners
      BY DEF TableOwners, ReaderOwners
    <2>4. DOMAIN OwnerOf' = DOMAIN Remove(OwnerOf, K)
      <3>1. DOMAIN Remove(OwnerOf, K) = DOMAIN OwnerOf \ K
        BY RemoveIs
      <3> HIDE DEF gone
      <3> QED BY <2>1, <2>2, <2>3, <3>1
    <2>5. \A o \in DOMAIN OwnerOf' : OwnerOf'[o] = OwnerOf[o]
      <3>1. ASSUME NEW id \in DOMAIN tables PROVE OwnerOf'[<<"table", id>>] = OwnerOf[<<"table", id>>]
        BY OwnersAreKnown, OwnersAreKnownNext DEF OwnersAre
      <3>2. ASSUME NEW k \in DOMAIN cache' PROVE OwnerOf'[<<"cache", k>>] = OwnerOf[<<"cache", k>>]
        <4>1. k \in DOMAIN cache /\ cache'[k] = cache[k]
          BY <1>3
        <4>2. OwnerOf'[<<"cache", k>>] = cache'[k].block
          BY OwnersAreKnownNext DEF OwnersAre
        <4> QED BY <4>1, <4>2, OwnersAreKnown DEF OwnersAre
      <3>3. ASSUME NEW q \in Own' PROVE OwnerOf'[<<"reader", q>>] = OwnerOf[<<"reader", q>>]
        BY OwnersAreKnown, OwnersAreKnownNext DEF OwnersAre
      <3> QED BY <3>1, <3>2, <3>3, OwnersAreKnownNext DEF OwnersAre
    <2>6. \A o \in DOMAIN Remove(OwnerOf, K) : OwnerOf'[o] = Remove(OwnerOf, K)[o]
      BY <2>4, <2>5 DEF Remove, Restrict
    <2>7. DOMAIN FilterOf' = DOMAIN FilterOf /\ \A id \in DOMAIN FilterOf : FilterOf'[id] = FilterOf[id]
      BY <1>5
    <2> HIDE DEF gone, K
    <2>8. Sound(OwnerOf', Remove(blocks, gone), heap \ Buffers(gone), FilterOf')
      BY <1>1, <2>4, <2>6, <2>7, SameIsSound
    <2> QED BY <1>2, <2>8
  <1>7. MappedAreOpen'
    <2>1. /\ \A id \in DOMAIN tables : tables[id].index \in DOMAIN blocks \ gone
          /\ \A k \in DOMAIN cache \ {h} : cache[k].block \in DOMAIN blocks \ gone
          /\ \A q \in Own : reader[q].block \in DOMAIN blocks \ gone
      BY OwnedIsThere, OwnersAreApart DEF BlockInv
    <2>2. /\ \A id \in DOMAIN tables : blocks'[tables[id].index] = blocks[tables[id].index]
          /\ \A k \in DOMAIN cache \ {h} : blocks'[cache[k].block] = blocks[cache[k].block]
          /\ \A q \in Own : blocks'[reader[q].block] = blocks[reader[q].block]
      BY <1>4, <2>1
    <2>3. MappedAreOpen
      BY DEF BlockInv
    <2> HIDE DEF gone
    <2>4. ASSUME NEW id \in DOMAIN tables PROVE ~blocks'[tables[id].index].owned => blocks'[tables[id].index].data = <<"map", id>>
      BY <2>2, <2>3 DEF MappedAreOpen
    <2>5. ASSUME NEW k \in DOMAIN cache' PROVE blocks'[cache'[k].block].owned
      BY <1>3, <2>2, <2>3 DEF MappedAreOpen
    <2>6. ASSUME NEW q \in Own'
          PROVE  ~blocks'[reader'[q].block].owned => blocks'[reader'[q].block].data = <<"map", reader'[q].table>>
      <3>1. /\ q \in Own /\ reader'[q].block = reader[q].block /\ reader'[q].table = reader[q].table
            /\ blocks'[reader[q].block] = blocks[reader[q].block]
        BY <2>2
      <3> QED BY <3>1, <2>3 DEF MappedAreOpen
    <2> QED BY <2>4, <2>5, <2>6 DEF MappedAreOpen
  <1>8. heap' \subseteq heap /\ DOMAIN blocks' \subseteq DOMAIN blocks
    BY <1>2, <1>4
  <1> QED BY <1>2, <1>3, <1>5, <1>6, <1>7, <1>8

\* The block of an iterator that is not in the cache goes with it.
LEMMA OwnBlockGoes ==
  ASSUME BlockInv, NEW r \in Own, DeleteBlocks({reader[r].block}, {}), UNCHANGED <<tables, cache>>, Own' = Own \ {r},
         \A q \in Own \ {r} : reader'[q].block = reader[q].block /\ reader'[q].table = reader[q].table
  PROVE  /\ Sound(OwnerOf, blocks, heap, FilterOf)' /\ MappedAreOpen' /\ FiltersAreThere' /\ wild' = wild
         /\ heap' \subseteq heap /\ DOMAIN blocks' \subseteq DOMAIN blocks
  <1> DEFINE gone == {reader[r].block}
             K == {<<"reader", r>>}
  <1>1. /\ gone \subseteq DOMAIN blocks /\ Buffers(gone) \subseteq heap
        /\ Sound(Remove(OwnerOf, K), Remove(blocks, gone), heap \ Buffers(gone), FilterOf)
    BY OwnGoes
  <1>2. wild' = wild /\ blocks' = Remove(blocks, gone) /\ heap' = heap \ Buffers(gone)
    <2>1. gone \cap DOMAIN blocks = gone
      BY <1>1
    <2> QED BY <1>1, <2>1 DEF DeleteBlocks, BlockInv, Types
  <1>4. DOMAIN blocks' = DOMAIN blocks \ gone /\ \A b \in DOMAIN blocks \ gone : blocks'[b] = blocks[b]
    BY <1>2 DEF Remove, Restrict
  <1>5. FilterOf' = FilterOf /\ FiltersAreThere'
    BY DEF FilterOf, FiltersAreThere, BlockInv
  <1>6. Sound(OwnerOf, blocks, heap, FilterOf)'
    <2>1. TableOwners' = TableOwners /\ CacheOwners' = CacheOwners /\ ReaderOwners' = ReaderOwners \ K
      BY DEF TableOwners, CacheOwners, ReaderOwners
    <2>2. /\ DOMAIN OwnerOf' = TableOwners' \cup CacheOwners' \cup ReaderOwners'
          /\ DOMAIN OwnerOf = TableOwners \cup CacheOwners \cup ReaderOwners
      BY DEF OwnerOf
    <2>3. <<"reader", r>> \notin TableOwners /\ <<"reader", r>> \notin CacheOwners
      BY DEF TableOwners, CacheOwners
    <2>4. DOMAIN OwnerOf' = DOMAIN Remove(OwnerOf, K)
      <3>1. DOMAIN Remove(OwnerOf, K) = DOMAIN OwnerOf \ K
        BY RemoveIs
      <3> HIDE DEF gone
      <3> QED BY <2>1, <2>2, <2>3, <3>1
    <2>5. \A o \in DOMAIN OwnerOf' : OwnerOf'[o] = OwnerOf[o]
      BY OwnersAreKnown, OwnersAreKnownNext DEF OwnersAre
    <2>6. \A o \in DOMAIN Remove(OwnerOf, K) : OwnerOf'[o] = Remove(OwnerOf, K)[o]
      BY <2>4, <2>5 DEF Remove, Restrict
    <2>7. DOMAIN FilterOf' = DOMAIN FilterOf /\ \A id \in DOMAIN FilterOf : FilterOf'[id] = FilterOf[id]
      BY <1>5
    <2> HIDE DEF gone, K
    <2>8. Sound(OwnerOf', Remove(blocks, gone), heap \ Buffers(gone), FilterOf')
      BY <1>1, <2>4, <2>6, <2>7, SameIsSound
    <2> QED BY <1>2, <2>8
  <1>7. MappedAreOpen'
    <2>1. /\ \A id \in DOMAIN tables : tables[id].index \in DOMAIN blocks \ gone
          /\ \A k \in DOMAIN cache : cache[k].block \in DOMAIN blocks \ gone
          /\ \A q \in Own \ {r} : reader[q].block \in DOMAIN blocks \ gone
      BY OwnedIsThere, OwnersAreApart DEF BlockInv
    <2>2. /\ \A id \in DOMAIN tables : blocks'[tables[id].index] = blocks[tables[id].index]
          /\ \A k \in DOMAIN cache : blocks'[cache[k].block] = blocks[cache[k].block]
          /\ \A q \in Own \ {r} : blocks'[reader[q].block] = blocks[reader[q].block]
      BY <1>4, <2>1
    <2>3. MappedAreOpen
      BY DEF BlockInv
    <2> HIDE DEF gone
    <2>4. ASSUME NEW id \in DOMAIN tables PROVE ~blocks'[tables[id].index].owned => blocks'[tables[id].index].data = <<"map", id>>
      BY <2>2, <2>3 DEF MappedAreOpen
    <2>5. ASSUME NEW k \in DOMAIN cache' PROVE blocks'[cache'[k].block].owned
      BY <2>2, <2>3 DEF MappedAreOpen
    <2>6. ASSUME NEW q \in Own'
          PROVE  ~blocks'[reader'[q].block].owned => blocks'[reader'[q].block].data = <<"map", reader'[q].table>>
      <3>1. /\ q \in Own \ {r} /\ reader'[q].block = reader[q].block /\ reader'[q].table = reader[q].table
            /\ blocks'[reader[q].block] = blocks[reader[q].block]
        BY <2>2
      <3> QED BY <3>1, <2>3 DEF MappedAreOpen
    <2> QED BY <2>4, <2>5, <2>6 DEF MappedAreOpen
  <1>8. heap' \subseteq heap /\ DOMAIN blocks' \subseteq DOMAIN blocks
    BY <1>2, <1>4
  <1> QED BY <1>2, <1>5, <1>6, <1>7, <1>8

LEMMA EvictBlockKeeps == ASSUME BlockInv, EvictBlock PROVE BlockInv'
  <1>1. PICK h \in DOMAIN cache :
          /\ cache[h].in /\ cache[h].refs = 1 /\ DeleteBlocks({cache[h].block}, {}) /\ cache' = Remove(cache, {h})
    BY DEF EvictBlock
  <1>2. UNCHANGED <<tables, cached, opens, reader>>
    BY DEF EvictBlock
  <1>3. Own' = Own /\ \A q \in Own : reader'[q].block = reader[q].block /\ reader'[q].table = reader[q].table
    BY <1>2 DEF Own
  <1>4. /\ Sound(OwnerOf, blocks, heap, FilterOf)' /\ MappedAreOpen' /\ FiltersAreThere' /\ wild' = wild
        /\ heap' \subseteq heap /\ DOMAIN blocks' \subseteq DOMAIN blocks
        /\ DOMAIN cache' = DOMAIN cache \ {h} /\ \A k \in DOMAIN cache \ {h} : cache'[k] = cache[k]
        /\ cache' = [k \in DOMAIN cache \ {h} |-> cache[k]]
    BY <1>1, <1>2, <1>3, EntryGoes
  <1>5. Types'
    BY <1>2, <1>4 DEF BlockInv, Types, Memory, None
  <1>6. Users(h) = {}
    <2>1. cache[h].refs = Cardinality(Users(h)) + 1
      BY <1>1, NothingKeptIs DEF BlockInv
    <2>2. Cardinality(Users(h)) = 0
      BY <1>1, <2>1, UsersAreFinite
    <2> QED BY <2>2, UsersAreFinite, FS_EmptySet
  <1>7. ReadersAreRight'
    <2>1. \A q \in Readers : reader[q].handle # h
      BY <1>6 DEF Users
    <2> QED BY <1>2, <1>4, <2>1 DEF BlockInv, ReadersAreRight, ReaderIsRight, None
  <1>8. NothingKept'
    <2>1. \A k : Users(k)' = Users(k) /\ UsersOf(k)' = UsersOf(k)
      BY <1>2 DEF Users, UsersOf
    <2> QED BY <1>2, <1>4, <2>1, NothingKeptIs, NothingKeptNext DEF BlockInv
  <1> QED BY <1>4, <1>5, <1>7, <1>8 DEF BlockInv

\* The reader of a block is done with it.
LEMMA EndBlockKeeps == ASSUME BlockInv, NEW r \in Readers, EndBlock(r) PROVE BlockInv'
  <1>1. PICK s \in ReaderType :
          /\ s.table = reader[r].table /\ s.pc = "table" /\ s.handle = None /\ s.block = None
          /\ reader' = [reader EXCEPT ![r] = s]
    <2> DEFINE t == [reader[r] EXCEPT !.pc = "table", !.block = None, !.handle = None, !.offset = None]
    <2>1. t \in ReaderType /\ t.table = reader[r].table /\ t.pc = "table" /\ t.handle = None /\ t.block = None
      BY DEF ReaderType, BlockInv, Types
    <2>2. reader' = [reader EXCEPT ![r] = t]
      BY DEF EndBlock, Step
    <2> HIDE DEF t
    <2> QED BY <2>1, <2>2
  <1>2. reader[r].pc = "block" /\ reader[r].block # None /\ reader[r].table \in DOMAIN tables /\ UNCHANGED <<tables, cached, opens>>
    BY DEF EndBlock, BlockInv, ReadersAreRight, ReaderIsRight
  <1>3. /\ reader' \in [Readers -> ReaderType] /\ reader'[r] = s
        /\ \A q \in Readers \ {r} : reader'[q] = reader[q]
        /\ Own' \ {r} = Own \ {r} /\ (r \in Own' <=> s.block # None /\ s.handle = None)
        /\ \A id : UsersOf(id)' = (UsersOf(id) \ {r}) \cup (IF s.table = id THEN {r} ELSE {})
        /\ \A k : Users(k)' = (Users(k) \ {r}) \cup (IF s.handle = k THEN {r} ELSE {})
    <2>1. reader \in [Readers -> ReaderType] /\ reader' = [reader EXCEPT ![r] = s]
      BY <1>1 DEF BlockInv, Types
    <2> QED BY <2>1, OneReader
  <1>4. Own' = Own \ {r} /\ \A q \in Own \ {r} : reader'[q] = reader[q]
    <2>1. r \notin Own'
      BY <1>1, <1>3
    <2>2. Own' \ {r} = Own \ {r}
      BY <1>3
    <2>3. Own \subseteq Readers
      BY DEF Own
    <2> QED BY <1>3, <2>1, <2>2, <2>3
  <1>5. \A id \in DOMAIN tables : UsersOf(id)' = UsersOf(id)
    BY <1>1, <1>3 DEF UsersOf
  <1>6. ASSUME NEW k \in DOMAIN cache PROVE Users(k)' = Users(k) \ {r}
    <2>1. k # None
      BY NoneIsNothing
    <2> QED BY <1>1, <1>3, <2>1
  <1>7. ReaderIsRight(r)'
    BY <1>1, <1>2, <1>3 DEF ReaderIsRight, None
  <1>8. \A id \in DOMAIN tables' : id = cached' \/ UsersOf(id)' # {}
    BY <1>2, <1>5, NothingKeptIs DEF BlockInv
  <1>9. CASE reader[r].handle = None
    <2>1. r \in Own
      BY <1>2, <1>9 DEF Own
    <2>2. DeleteBlocks({reader[r].block}, {}) /\ UNCHANGED cache
      BY <1>9 DEF EndBlock
    <2>3. \A q \in Own \ {r} : reader'[q].block = reader[q].block /\ reader'[q].table = reader[q].table
      BY <1>4
    <2>4. /\ Sound(OwnerOf, blocks, heap, FilterOf)' /\ MappedAreOpen' /\ FiltersAreThere' /\ wild' = wild
          /\ heap' \subseteq heap /\ DOMAIN blocks' \subseteq DOMAIN blocks
      BY <1>2, <1>4, <2>1, <2>2, <2>3, OwnBlockGoes
    <2>5. Types'
      BY <1>2, <1>3, <2>2, <2>4 DEF BlockInv, Types, Memory, None
    <2>6. ReadersAreRight'
      BY <1>2, <1>3, <1>7, <2>2 DEF BlockInv, ReadersAreRight, ReaderIsRight, None
    <2>7. NothingKept'
      <3>1. ASSUME NEW k \in DOMAIN cache PROVE Users(k)' = Users(k)
        <4>1. k # None
          BY NoneIsNothing
        <4>2. r \notin Users(k)
          BY <1>9, <4>1 DEF Users
        <4> QED BY <1>6, <4>2
      <3> QED BY <1>8, <2>2, <3>1, NothingKeptIs, NothingKeptNext DEF BlockInv
    <2> QED BY <2>4, <2>5, <2>6, <2>7 DEF BlockInv
  <1>10. ASSUME reader[r].handle # None, NEW h, h = reader[r].handle PROVE BlockInv'
    <2>1. h \in DOMAIN cache /\ r \in Users(h) /\ r \notin Own
      BY <1>10 DEF BlockInv, ReadersAreRight, ReaderIsRight, Users, Own
    <2>2. Own' = Own /\ \A q \in Own : reader'[q].block = reader[q].block /\ reader'[q].table = reader[q].table
      BY <1>4, <2>1
    <2>3. ASSUME NEW k \in DOMAIN cache, k # h PROVE Users(k)' = Users(k)
      <3>1. r \notin Users(k)
        BY <1>10, <2>3 DEF Users
      <3> QED BY <1>6, <3>1
    <2>4. Users(h)' = Users(h) \ {r} /\ Cardinality(Users(h)') = Cardinality(Users(h)) - 1 /\ Cardinality(Users(h)) \in Nat
      BY <1>6, <2>1, UsersChange, UsersAreFinite
    <2>5. /\ cache[h].refs = Cardinality(Users(h)) + (IF cache[h].in THEN 1 ELSE 0) /\ cache[h].refs > 0
          /\ cache[h].refs \in Nat
      BY <2>1, NothingKeptIs DEF BlockInv, Types
    <2>6. CASE cache[h].refs = 1
      <3>1. DeleteBlocks({cache[h].block}, {}) /\ cache' = Remove(cache, {h})
        BY <1>10, <2>6 DEF EndBlock
      <3>2. /\ Sound(OwnerOf, blocks, heap, FilterOf)' /\ MappedAreOpen' /\ FiltersAreThere' /\ wild' = wild
            /\ heap' \subseteq heap /\ DOMAIN blocks' \subseteq DOMAIN blocks
            /\ DOMAIN cache' = DOMAIN cache \ {h} /\ \A k \in DOMAIN cache \ {h} : cache'[k] = cache[k]
            /\ cache' = [k \in DOMAIN cache \ {h} |-> cache[k]]
        BY <1>2, <2>1, <2>2, <3>1, EntryGoes
      <3>3. Types'
        BY <1>2, <1>3, <3>2 DEF BlockInv, Types, Memory, None
      <3>4. Users(h) = {r}
        <4>1. Cardinality(Users(h)) = 1 \/ Cardinality(Users(h)) = 0
          BY <2>4, <2>5, <2>6
        <4>2. Cardinality(Users(h)) = 1
          BY <2>1, <4>1, UsersAreFinite, FS_EmptySet
        <4>3. \E x : Users(h) = {x}
          BY <4>2, UsersAreFinite, FS_Singleton
        <4> QED BY <2>1, <4>3
      <3>5. \A q \in Readers \ {r} : reader[q].handle # h
        BY <3>4 DEF Users
      <3>6. ReadersAreRight'
        BY <1>2, <1>3, <1>7, <3>2, <3>5 DEF BlockInv, ReadersAreRight, ReaderIsRight, None
      <3>7. NothingKept'
        BY <1>8, <2>3, <3>2, NothingKeptIs, NothingKeptNext DEF BlockInv
      <3> QED BY <3>2, <3>3, <3>6, <3>7 DEF BlockInv
    <2>7. CASE cache[h].refs # 1
      <3>1. cache' = [cache EXCEPT ![h].refs = @ - 1] /\ UNCHANGED <<heap, blocks, wild>>
        BY <1>10, <2>7 DEF EndBlock
      <3>2. /\ DOMAIN cache' = DOMAIN cache /\ cache'[h].refs = cache[h].refs - 1 /\ cache[h].refs - 1 \in Nat
            /\ \A k \in DOMAIN cache : /\ cache'[k].block = cache[k].block /\ cache'[k].in = cache[k].in
                                       /\ cache'[k].key = cache[k].key /\ (k # h => cache'[k] = cache[k])
            /\ cache' \in [DOMAIN cache -> [key : Nat \X Offsets, block : Memory, refs : Nat, in : BOOLEAN]]
        BY <2>1, <2>5, <3>1 DEF BlockInv, Types
      <3>3. Sound(OwnerOf, blocks, heap, FilterOf)' /\ MappedAreOpen' /\ FiltersAreThere'
        BY <1>2, <2>2, <3>1, <3>2, TransferKeeps
      <3>4. Types'
        BY <1>2, <1>3, <3>1, <3>2 DEF BlockInv, Types, Memory, None
      <3>5. ReadersAreRight'
        BY <1>2, <1>3, <1>7, <3>2 DEF BlockInv, ReadersAreRight, ReaderIsRight, None
      <3>6. NothingKept'
        <4>1. ASSUME NEW k \in DOMAIN cache
              PROVE  cache'[k].refs = Cardinality(Users(k)') + (IF cache'[k].in THEN 1 ELSE 0) /\ cache'[k].refs > 0
          <5>1. CASE k = h
            <6>1. cache'[h].refs = Cardinality(Users(h)') + (IF cache'[h].in THEN 1 ELSE 0)
              BY <2>1, <2>4, <2>5, <3>2
            <6>2. cache'[h].refs > 0
              BY <2>5, <2>7, <3>2
            <6> QED BY <5>1, <6>1, <6>2
          <5>2. CASE k # h
            BY <2>3, <3>2, <5>2, NothingKeptIs DEF BlockInv
          <5> QED BY <5>1, <5>2
        <4> QED BY <1>8, <3>2, <4>1, NothingKeptNext
      <3> QED BY <3>3, <3>4, <3>5, <3>6 DEF BlockInv
    <2> QED BY <2>6, <2>7
  <1> QED BY <1>9, <1>10

\* A table is closed.
LEMMA TableGoes ==
  ASSUME BlockInv, NEW id \in DOMAIN tables, CloseTable(id), UNCHANGED cache, Own' = Own,
         \A q \in Own : reader'[q].block = reader[q].block /\ reader'[q].table = reader[q].table
  PROVE  /\ Sound(OwnerOf, blocks, heap, FilterOf)' /\ MappedAreOpen' /\ FiltersAreThere' /\ wild' = wild
         /\ heap' \subseteq heap /\ DOMAIN blocks' \subseteq DOMAIN blocks
         /\ DOMAIN tables' = DOMAIN tables \ {id} /\ \A i \in DOMAIN tables \ {id} : tables'[i] = tables[i]
         /\ tables' = [i \in DOMAIN tables \ {id} |-> tables[i]]
  <1> DEFINE gone == {tables[id].index}
             filters == {tables[id].filter_data} \ {None}
             K == {<<"table", id>>}
             J == {id} \cap DOMAIN FilterOf
  <1>1. /\ gone \subseteq DOMAIN blocks /\ Buffers(gone) \cup filters \subseteq heap
        /\ Sound(Remove(OwnerOf, K), Remove(blocks, gone), heap \ (Buffers(gone) \cup filters), Remove(FilterOf, J))
    <2>1. {id} \in SUBSET DOMAIN tables /\ {tables[i].index : i \in {id}} = gone
          /\ {tables[i].filter_data : i \in {id}} \ {None} = filters /\ {<<"table", i>> : i \in {id}} = K
      OBVIOUS
    <2> HIDE DEF gone, K, filters
    <2> QED BY <2>1, TablesGo
  <1>2. wild' = wild /\ blocks' = Remove(blocks, gone) /\ heap' = heap \ (Buffers(gone) \cup filters)
    <2>1. gone \cap DOMAIN blocks = gone
      BY <1>1
    <2> QED BY <1>1, <2>1 DEF CloseTable, DeleteBlocks, BlockInv, Types
  <1>3. /\ DOMAIN tables' = DOMAIN tables \ {id} /\ \A i \in DOMAIN tables \ {id} : tables'[i] = tables[i]
        /\ tables' = [i \in DOMAIN tables \ {id} |-> tables[i]]
    BY DEF CloseTable, Remove, Restrict
  <1>4. DOMAIN blocks' = DOMAIN blocks \ gone /\ \A b \in DOMAIN blocks \ gone : blocks'[b] = blocks[b]
    BY <1>2 DEF Remove, Restrict
  <1>5. FiltersAreThere'
    BY <1>3 DEF FiltersAreThere, BlockInv
  <1>6. Sound(OwnerOf, blocks, heap, FilterOf)'
    <2>1. TableOwners' = TableOwners \ K /\ CacheOwners' = CacheOwners /\ ReaderOwners' = ReaderOwners
      BY <1>3 DEF TableOwners, CacheOwners, ReaderOwners
    <2>2. /\ DOMAIN OwnerOf' = TableOwners' \cup CacheOwners' \cup ReaderOwners'
          /\ DOMAIN OwnerOf = TableOwners \cup CacheOwners \cup ReaderOwners
      BY DEF OwnerOf
    <2>3. <<"table", id>> \notin CacheOwners /\ <<"table", id>> \notin ReaderOwners
      BY DEF CacheOwners, ReaderOwners
    <2>4. DOMAIN OwnerOf' = DOMAIN Remove(OwnerOf, K)
      <3>1. DOMAIN Remove(OwnerOf, K) = DOMAIN OwnerOf \ K
        BY RemoveIs
      <3> HIDE DEF gone
      <3> QED BY <2>1, <2>2, <2>3, <3>1
    <2>5. \A o \in DOMAIN OwnerOf' : OwnerOf'[o] = OwnerOf[o]
      <3>1. ASSUME NEW i \in DOMAIN tables' PROVE OwnerOf'[<<"table", i>>] = OwnerOf[<<"table", i>>]
        <4>1. i \in DOMAIN tables /\ tables'[i] = tables[i]
          BY <1>3
        <4>2. OwnerOf'[<<"table", i>>] = tables'[i].index
          BY OwnersAreKnownNext DEF OwnersAre
        <4> QED BY <4>1, <4>2, OwnersAreKnown DEF OwnersAre
      <3>2. ASSUME NEW k \in DOMAIN cache' PROVE OwnerOf'[<<"cache", k>>] = OwnerOf[<<"cache", k>>]
        BY OwnersAreKnown, OwnersAreKnownNext DEF OwnersAre
      <3>3. ASSUME NEW q \in Own' PROVE OwnerOf'[<<"reader", q>>] = OwnerOf[<<"reader", q>>]
        BY OwnersAreKnown, OwnersAreKnownNext DEF OwnersAre
      <3> QED BY <3>1, <3>2, <3>3, OwnersAreKnownNext DEF OwnersAre
    <2>6. \A o \in DOMAIN Remove(OwnerOf, K) : OwnerOf'[o] = Remove(OwnerOf, K)[o]
      BY <2>4, <2>5 DEF Remove, Restrict
    <2>7. /\ DOMAIN FilterOf' = DOMAIN Remove(FilterOf, J)
          /\ \A i \in DOMAIN Remove(FilterOf, J) : FilterOf'[i] = Remove(FilterOf, J)[i]
      BY <1>3, FiltersAreKnown, FiltersAreKnownNext DEF FiltersAre, Remove, Restrict
    <2> HIDE DEF gone, K, filters, J
    <2>8. Sound(OwnerOf', Remove(blocks, gone), heap \ (Buffers(gone) \cup filters), FilterOf')
      BY <1>1, <2>4, <2>6, <2>7, SameIsSound
    <2> QED BY <1>2, <2>8
  <1>7. MappedAreOpen'
    <2>1. /\ \A i \in DOMAIN tables \ {id} : tables[i].index \in DOMAIN blocks \ gone
          /\ \A k \in DOMAIN cache : cache[k].block \in DOMAIN blocks \ gone
          /\ \A q \in Own : reader[q].block \in DOMAIN blocks \ gone
      BY OwnedIsThere, OwnersAreApart DEF BlockInv
    <2>2. /\ \A i \in DOMAIN tables \ {id} : blocks'[tables[i].index] = blocks[tables[i].index]
          /\ \A k \in DOMAIN cache : blocks'[cache[k].block] = blocks[cache[k].block]
          /\ \A q \in Own : blocks'[reader[q].block] = blocks[reader[q].block]
      BY <1>4, <2>1
    <2>3. MappedAreOpen
      BY DEF BlockInv
    <2> HIDE DEF gone
    <2>4. ASSUME NEW i \in DOMAIN tables' PROVE ~blocks'[tables'[i].index].owned => blocks'[tables'[i].index].data = <<"map", i>>
      <3>1. i \in DOMAIN tables \ {id} /\ tables'[i] = tables[i]
        BY <1>3
      <3> QED BY <3>1, <2>2, <2>3 DEF MappedAreOpen
    <2>5. ASSUME NEW k \in DOMAIN cache' PROVE blocks'[cache'[k].block].owned
      BY <2>2, <2>3 DEF MappedAreOpen
    <2>6. ASSUME NEW q \in Own'
          PROVE  ~blocks'[reader'[q].block].owned => blocks'[reader'[q].block].data = <<"map", reader'[q].table>>
      <3>1. /\ q \in Own /\ reader'[q].block = reader[q].block /\ reader'[q].table = reader[q].table
            /\ blocks'[reader[q].block] = blocks[reader[q].block]
        BY <2>2
      <3> QED BY <3>1, <2>3 DEF MappedAreOpen
    <2> QED BY <2>4, <2>5, <2>6 DEF MappedAreOpen
  <1>8. heap' \subseteq heap /\ DOMAIN blocks' \subseteq DOMAIN blocks
    BY <1>2, <1>4
  <1> QED BY <1>2, <1>3, <1>5, <1>6, <1>7, <1>8

LEMMA EvictTableKeeps == ASSUME BlockInv, EvictTable PROVE BlockInv'
  <1>1. cached # None /\ cached \in DOMAIN tables /\ cached' = None /\ UNCHANGED <<opens, cache, reader>>
    BY DEF EvictTable, BlockInv, Types
  <1>2. Own' = Own /\ \A q \in Own : reader'[q].block = reader[q].block /\ reader'[q].table = reader[q].table
    BY <1>1 DEF Own
  <1>3. \A k : Users(k)' = Users(k) /\ UsersOf(k)' = UsersOf(k)
    BY <1>1 DEF Users, UsersOf
  <1>4. ASSUME NEW id, id = cached, UsersOf(id) = {} PROVE BlockInv'
    <2>1. CloseTable(id)
      BY <1>4 DEF EvictTable
    <2>2. /\ Sound(OwnerOf, blocks, heap, FilterOf)' /\ MappedAreOpen' /\ FiltersAreThere' /\ wild' = wild
          /\ heap' \subseteq heap /\ DOMAIN blocks' \subseteq DOMAIN blocks
          /\ DOMAIN tables' = DOMAIN tables \ {id} /\ \A i \in DOMAIN tables \ {id} : tables'[i] = tables[i]
          /\ tables' = [i \in DOMAIN tables \ {id} |-> tables[i]]
      BY <1>1, <1>2, <1>4, <2>1, TableGoes
    <2>3. Types'
      BY <1>1, <2>2 DEF BlockInv, Types, Memory, None
    <2>4. ReadersAreRight'
      <3>1. \A q \in Readers : reader[q].table # id
        BY <1>4 DEF UsersOf
      <3> QED BY <1>1, <2>2, <3>1 DEF BlockInv, ReadersAreRight, ReaderIsRight, None
    <2>5. NothingKept'
      BY <1>1, <1>3, <1>4, <2>2, NothingKeptIs, NothingKeptNext DEF BlockInv
    <2> QED BY <2>2, <2>3, <2>4, <2>5 DEF BlockInv
  <1>5. CASE UsersOf(cached) # {}
    <2>1. UNCHANGED <<heap, blocks, tables, wild>>
      BY <1>5 DEF EvictTable
    <2>2. Sound(OwnerOf, blocks, heap, FilterOf)' /\ MappedAreOpen' /\ FiltersAreThere'
      BY <1>1, <1>2, <2>1, TransferKeeps
    <2>3. Types'
      BY <1>1, <2>1 DEF BlockInv, Types, Memory, None
    <2>4. ReadersAreRight'
      BY <1>1, <2>1 DEF BlockInv, ReadersAreRight, ReaderIsRight, None
    <2>5. NothingKept'
      BY <1>1, <1>3, <1>5, <2>1, NothingKeptIs, NothingKeptNext DEF BlockInv
    <2> QED BY <2>2, <2>3, <2>4, <2>5 DEF BlockInv
  <1> QED BY <1>4, <1>5

LEMMA EndTableKeeps == ASSUME BlockInv, NEW r \in Readers, EndTable(r) PROVE BlockInv'
  <1>1. PICK s \in ReaderType :
          /\ s.table = None /\ s.pc = "idle" /\ s.handle = None /\ s.block = None
          /\ reader' = [reader EXCEPT ![r] = s]
    <2>1. Idle \in ReaderType /\ Idle.table = None /\ Idle.pc = "idle" /\ Idle.handle = None /\ Idle.block = None
      BY DEF Idle, ReaderType, None
    <2> QED BY <2>1 DEF EndTable, Step
  <1>2. /\ reader[r].pc = "table" /\ reader[r].table \in DOMAIN tables /\ UNCHANGED <<cached, opens, cache>>
        /\ reader[r].block = None /\ reader[r].handle = None
    BY DEF EndTable, BlockInv, ReadersAreRight, ReaderIsRight
  <1>3. /\ reader' \in [Readers -> ReaderType] /\ reader'[r] = s
        /\ \A q \in Readers \ {r} : reader'[q] = reader[q]
        /\ Own' \ {r} = Own \ {r} /\ (r \in Own' <=> s.block # None /\ s.handle = None)
        /\ \A id : UsersOf(id)' = (UsersOf(id) \ {r}) \cup (IF s.table = id THEN {r} ELSE {})
        /\ \A k : Users(k)' = (Users(k) \ {r}) \cup (IF s.handle = k THEN {r} ELSE {})
    <2>1. reader \in [Readers -> ReaderType] /\ reader' = [reader EXCEPT ![r] = s]
      BY <1>1 DEF BlockInv, Types
    <2> QED BY <2>1, OneReader
  <1>4. Own' = Own /\ \A q \in Own : reader'[q].block = reader[q].block /\ reader'[q].table = reader[q].table
    <2>1. r \notin Own' /\ r \notin Own /\ Own \subseteq Readers
      BY <1>1, <1>2, <1>3 DEF Own
    <2>2. Own' \ {r} = Own \ {r}
      BY <1>3
    <2>3. Own' = Own
      BY <2>1, <2>2
    <2>4. \A q \in Own : reader'[q] = reader[q]
      BY <1>3, <2>1
    <2> QED BY <2>3, <2>4
  <1>5. ASSUME NEW k \in DOMAIN cache PROVE Users(k)' = Users(k)
    <2>1. k # None /\ r \notin Users(k)
      BY <1>2, NoneIsNothing DEF Users
    <2> QED BY <1>1, <1>3, <2>1
  <1>6. ASSUME NEW i \in DOMAIN tables PROVE UsersOf(i)' = UsersOf(i) \ {r}
    <2>1. i # None
      BY NoneIsNothing
    <2> QED BY <1>1, <1>3, <2>1
  <1>7. ReaderIsRight(r)'
    BY <1>1, <1>3 DEF ReaderIsRight, None
  <1>8. ASSUME NEW id, id = reader[r].table, cached # id, UsersOf(id) = {r} PROVE BlockInv'
    <2>1. CloseTable(id)
      BY <1>8 DEF EndTable
    <2>2. /\ Sound(OwnerOf, blocks, heap, FilterOf)' /\ MappedAreOpen' /\ FiltersAreThere' /\ wild' = wild
          /\ heap' \subseteq heap /\ DOMAIN blocks' \subseteq DOMAIN blocks
          /\ DOMAIN tables' = DOMAIN tables \ {id} /\ \A i \in DOMAIN tables \ {id} : tables'[i] = tables[i]
          /\ tables' = [i \in DOMAIN tables \ {id} |-> tables[i]]
      BY <1>2, <1>4, <1>8, <2>1, TableGoes
    <2>3. Types'
      BY <1>2, <1>3, <1>8, <2>2 DEF BlockInv, Types, Memory, None
    <2>4. ReadersAreRight'
      <3>1. \A q \in Readers \ {r} : reader[q].table # id
        BY <1>8 DEF UsersOf
      <3> QED BY <1>2, <1>3, <1>7, <2>2, <3>1 DEF BlockInv, ReadersAreRight, ReaderIsRight, None
    <2>5. NothingKept'
      <3>1. ASSUME NEW i \in DOMAIN tables \ {id} PROVE UsersOf(i)' = UsersOf(i)
        <4>1. r \notin UsersOf(i)
          BY <1>8 DEF UsersOf
        <4> QED BY <1>6, <4>1
      <3> QED BY <1>2, <1>5, <2>2, <3>1, NothingKeptIs, NothingKeptNext DEF BlockInv
    <2> QED BY <2>2, <2>3, <2>4, <2>5 DEF BlockInv
  <1>9. CASE ~(cached # reader[r].table /\ UsersOf(reader[r].table) = {r})
    <2>1. UNCHANGED <<heap, blocks, tables, wild>>
      BY <1>9 DEF EndTable
    <2>2. Sound(OwnerOf, blocks, heap, FilterOf)' /\ MappedAreOpen' /\ FiltersAreThere'
      BY <1>2, <1>4, <2>1, TransferKeeps
    <2>3. Types'
      BY <1>2, <1>3, <2>1 DEF BlockInv, Types, Memory, None
    <2>4. ReadersAreRight'
      BY <1>2, <1>3, <1>7, <2>1 DEF BlockInv, ReadersAreRight, ReaderIsRight, None
    <2>5. NothingKept'
      <3>1. ASSUME NEW i \in DOMAIN tables PROVE i = cached \/ UsersOf(i)' # {}
        <4>1. i = cached \/ UsersOf(i) # {}
          BY NothingKeptIs DEF BlockInv
        <4>2. r \in UsersOf(i) <=> i = reader[r].table
          BY DEF UsersOf
        <4>3. i # cached => \E q \in UsersOf(i) : q # r
          BY <1>9, <4>1, <4>2
        <4> QED BY <1>6, <4>3
      <3> QED BY <1>2, <1>5, <2>1, <3>1, NothingKeptIs, NothingKeptNext DEF BlockInv
    <2> QED BY <2>2, <2>3, <2>4, <2>5 DEF BlockInv
  <1> QED BY <1>8, <1>9

-------------------------------------------------------------------------------
\* Reading blocks

BlockOf(c) == [data |-> c.data, owned |-> c.heap_allocated]

LEMMA ReadBlockIs ==
  ASSUME NEW id \in Nat, NEW mapped, NEW h, h \subseteq Memory, NEW c \in ReadBlock(id, mapped, h) \ {Failed}
  PROVE  /\ BlockOf(c) \in BlockType /\ (BlockOf(c).owned <=> BlockOf(c).data[1] = "heap")
         /\ BlockOf(c).owned => BlockOf(c).data[2] \in Memory /\ BlockOf(c).data[2] \notin h
         /\ BlockOf(c).owned => BlockOf(c).data = <<"heap", BlockOf(c).data[2]>>
         /\ ~BlockOf(c).owned => BlockOf(c).data = <<"map", id>>
         /\ c.cachable => BlockOf(c).owned
         /\ Allocated(c) = (IF BlockOf(c).owned THEN {BlockOf(c).data[2]} ELSE {})
         /\ Allocated(c) \subseteq Memory /\ Allocated(c) \cap h = {}
         /\ FilterData(c) = (IF BlockOf(c).owned THEN BlockOf(c).data[2] ELSE None)
  <1>1. Memory \subseteq Nat
    BY BlockReaderAssumption DEF Memory
  <1>2. CASE h # Memory /\ c = [ok |-> TRUE, data |-> <<"heap", Fresh(h)>>, heap_allocated |-> TRUE, cachable |-> TRUE]
    <2>1. Fresh(h) \in Memory /\ Fresh(h) \notin h
      BY <1>2, FreshIsFree
    <2>2. BlockOf(c) = [data |-> <<"heap", Fresh(h)>>, owned |-> TRUE] /\ c.cachable
          /\ Allocated(c) = {Fresh(h)} /\ FilterData(c) = Fresh(h)
      BY <1>2 DEF BlockOf, Allocated, FilterData
    <2>3. /\ BlockOf(c).owned /\ BlockOf(c).data = <<"heap", Fresh(h)>>
          /\ BlockOf(c).data[1] = "heap" /\ BlockOf(c).data[2] = Fresh(h)
      BY <2>2
    <2>4. BlockOf(c) \in BlockType
      <3>1. <<"heap", Fresh(h)>> \in {"heap", "map"} \X Nat
        BY <1>1, <2>1
      <3> QED BY <2>2, <3>1 DEF BlockType
    <2> QED BY <2>1, <2>2, <2>3, <2>4
  <1>3. CASE c = [ok |-> TRUE, data |-> <<"map", id>>, heap_allocated |-> FALSE, cachable |-> FALSE]
    <2>1. BlockOf(c) = [data |-> <<"map", id>>, owned |-> FALSE] /\ ~c.cachable
          /\ Allocated(c) = {} /\ FilterData(c) = None
      BY <1>3 DEF BlockOf, Allocated, FilterData
    <2> QED BY <2>1 DEF BlockType
  <1> QED BY <1>2, <1>3 DEF ReadBlock

LEMMA ReadOwnKeeps == ASSUME BlockInv, NEW r \in Readers, ReadOwn(r) PROVE BlockInv'
  <1>1. /\ reader[r].pc = "miss" /\ DOMAIN blocks # Memory /\ UNCHANGED <<tables, cached, opens, cache, wild>>
        /\ reader[r].table \in DOMAIN tables /\ reader[r].block = None /\ reader[r].handle = None
        /\ reader[r].table \in Nat
    BY DEF ReadOwn, BlockInv, Types, ReadersAreRight, ReaderIsRight
  <1>2. PICK b, c :
          /\ b \in Memory /\ b \notin DOMAIN blocks
          /\ c \in ReadBlock(reader[r].table, tables[reader[r].table].mapped, heap) \ {Failed}
          /\ heap' = heap \cup Allocated(c) /\ blocks' = Extend(blocks, b, BlockOf(c))
          /\ reader' = [reader EXCEPT ![r] = [reader[r] EXCEPT !.pc = "block", !.block = b]]
    <2>1. Fresh(DOMAIN blocks) \in Memory /\ Fresh(DOMAIN blocks) \notin DOMAIN blocks
      BY <1>1, FreshIsFree DEF BlockInv, Types
    <2> QED BY <2>1 DEF ReadOwn, Step, BlockOf
  <1> DEFINE block == BlockOf(c)
  <1>3. /\ block \in BlockType /\ (block.owned <=> block.data[1] = "heap")
        /\ block.owned => block.data[2] \in Memory /\ block.data[2] \notin heap
        /\ ~block.owned => block.data = <<"map", reader[r].table>>
        /\ Allocated(c) = (IF block.owned THEN {block.data[2]} ELSE {}) /\ Allocated(c) \subseteq Memory
    <2>1. heap \subseteq Memory
      BY DEF BlockInv, Types
    <2> QED BY <1>1, <1>2, <2>1, ReadBlockIs
  <1>4. PICK s \in ReaderType :
          /\ s.table = reader[r].table /\ s.pc = "block" /\ s.handle = None /\ s.block = b
          /\ reader' = [reader EXCEPT ![r] = s]
    <2> DEFINE t == [reader[r] EXCEPT !.pc = "block", !.block = b]
    <2>1. t \in ReaderType /\ t.table = reader[r].table /\ t.pc = "block" /\ t.handle = None /\ t.block = b
      BY <1>1, <1>2 DEF ReaderType, BlockInv, Types
    <2>2. reader' = [reader EXCEPT ![r] = t]
      BY <1>2
    <2> HIDE DEF t
    <2> QED BY <2>1, <2>2
  <1>5. /\ reader' \in [Readers -> ReaderType] /\ reader'[r] = s
        /\ \A q \in Readers \ {r} : reader'[q] = reader[q]
        /\ Own' \ {r} = Own \ {r} /\ (r \in Own' <=> s.block # None /\ s.handle = None)
        /\ \A id : UsersOf(id)' = (UsersOf(id) \ {r}) \cup (IF s.table = id THEN {r} ELSE {})
        /\ \A k : Users(k)' = (Users(k) \ {r}) \cup (IF s.handle = k THEN {r} ELSE {})
    <2>1. reader \in [Readers -> ReaderType] /\ reader' = [reader EXCEPT ![r] = s]
      BY <1>4 DEF BlockInv, Types
    <2> QED BY <2>1, OneReader
  <1>6. b # None
    BY <1>2, NoneIsNothing
  <1>7. Own' = Own \cup {r} /\ r \notin Own /\ \A q \in Own : reader'[q] = reader[q]
    <2>1. r \in Own' /\ r \notin Own /\ Own \subseteq Readers
      BY <1>1, <1>4, <1>5, <1>6 DEF Own
    <2>2. Own' \ {r} = Own \ {r}
      BY <1>5
    <2>3. Own' = Own \cup {r}
      BY <2>1, <2>2
    <2> QED BY <1>5, <2>1, <2>3
  <1>8. /\ DOMAIN blocks' = DOMAIN blocks \cup {b} /\ blocks'[b] = block
        /\ \A x \in DOMAIN blocks : blocks'[x] = blocks[x]
    BY <1>2 DEF Extend
  <1>9. Types'
    BY <1>1, <1>2, <1>3, <1>5, <1>8 DEF BlockInv, Types, Memory, None
  <1>10. ReadersAreRight'
    <2>1. ReaderIsRight(r)'
      BY <1>1, <1>4, <1>5, <1>6 DEF ReaderIsRight, None
    <2> QED BY <1>1, <1>5, <2>1 DEF BlockInv, ReadersAreRight, ReaderIsRight, None
  <1>11. FiltersAreThere' /\ FilterOf' = FilterOf
    BY <1>1 DEF FiltersAreThere, FilterOf, BlockInv
  <1>12. NothingKept'
    <2>1. \A k \in DOMAIN cache : Users(k)' = Users(k)
      <3>1. ASSUME NEW k \in DOMAIN cache PROVE Users(k)' = Users(k)
        <4>1. k # None /\ r \notin Users(k)
          BY <1>1, NoneIsNothing DEF Users
        <4> QED BY <1>4, <1>5, <4>1
      <3> QED BY <3>1
    <2>2. \A id \in DOMAIN tables : UsersOf(id)' = UsersOf(id)
      BY <1>4, <1>5 DEF UsersOf
    <2> QED BY <1>1, <2>1, <2>2, NothingKeptIs, NothingKeptNext DEF BlockInv
  <1>13. Sound(OwnerOf, blocks, heap, FilterOf)'
    <2> DEFINE o == <<"reader", r>>
    <2>1. o \notin DOMAIN OwnerOf
      BY <1>7, OwnersAreKnown DEF OwnersAre
    <2>2. Sound(Extend(OwnerOf, o, b), Extend(blocks, b, block),
                heap \cup (IF block.owned THEN {block.data[2]} ELSE {}), FilterOf)
      <3>1. Sound(OwnerOf, blocks, heap, FilterOf)
        BY DEF BlockInv
      <3> HIDE DEF block, o
      <3> QED BY <1>2, <1>3, <2>1, <3>1, AddIsSound
    <2>3. Sound(Extend(OwnerOf, o, b), blocks', heap', FilterOf)
      <3>1. heap' = heap \cup (IF block.owned THEN {block.data[2]} ELSE {}) /\ blocks' = Extend(blocks, b, block)
        BY <1>2, <1>3
      <3> HIDE DEF block, o
      <3> QED BY <2>2, <3>1
    <2>4. DOMAIN OwnerOf' = DOMAIN OwnerOf \cup {o}
      <3>1. TableOwners' = TableOwners /\ CacheOwners' = CacheOwners /\ ReaderOwners' = ReaderOwners \cup {o}
        BY <1>1, <1>7 DEF TableOwners, CacheOwners, ReaderOwners
      <3>2. /\ DOMAIN OwnerOf' = TableOwners' \cup CacheOwners' \cup ReaderOwners'
            /\ DOMAIN OwnerOf = TableOwners \cup CacheOwners \cup ReaderOwners
        BY DEF OwnerOf
      <3> HIDE DEF o
      <3> QED BY <3>1, <3>2
    <2>5. OwnerOf'[o] = b
      BY <1>4, <1>5, <1>7, OwnersAreKnownNext DEF OwnersAre
    <2>6. \A p \in DOMAIN OwnerOf : OwnerOf'[p] = OwnerOf[p]
      <3>1. ASSUME NEW i \in DOMAIN tables PROVE OwnerOf'[<<"table", i>>] = OwnerOf[<<"table", i>>]
        BY <1>1, OwnersAreKnown, OwnersAreKnownNext DEF OwnersAre
      <3>2. ASSUME NEW k \in DOMAIN cache PROVE OwnerOf'[<<"cache", k>>] = OwnerOf[<<"cache", k>>]
        BY <1>1, OwnersAreKnown, OwnersAreKnownNext DEF OwnersAre
      <3>3. ASSUME NEW q \in Own PROVE OwnerOf'[<<"reader", q>>] = OwnerOf[<<"reader", q>>]
        BY <1>7, OwnersAreKnown, OwnersAreKnownNext DEF OwnersAre
      <3> QED BY <3>1, <3>2, <3>3, OwnersAreKnown DEF OwnersAre
    <2>7. /\ DOMAIN OwnerOf' = DOMAIN Extend(OwnerOf, o, b)
          /\ \A p \in DOMAIN Extend(OwnerOf, o, b) : OwnerOf'[p] = Extend(OwnerOf, o, b)[p]
      <3> HIDE DEF o
      <3> QED BY <2>1, <2>4, <2>5, <2>6 DEF Extend
    <2>8. DOMAIN FilterOf' = DOMAIN FilterOf /\ \A id \in DOMAIN FilterOf : FilterOf'[id] = FilterOf[id]
      BY <1>11
    <2> HIDE DEF o
    <2>9. Sound(OwnerOf', blocks', heap', FilterOf')
      BY <2>3, <2>7, <2>8, SameIsSound
    <2> QED BY <2>9
  <1>14. MappedAreOpen'
    <2>1. MappedAreOpen /\ Sound(OwnerOf, blocks, heap, FilterOf)
      BY DEF BlockInv
    <2>2. ASSUME NEW id \in DOMAIN tables PROVE ~blocks'[tables[id].index].owned => blocks'[tables[id].index].data = <<"map", id>>
      BY <1>8, <2>1, OwnedIsThere DEF MappedAreOpen
    <2>3. ASSUME NEW k \in DOMAIN cache PROVE blocks'[cache[k].block].owned
      BY <1>8, <2>1, OwnedIsThere DEF MappedAreOpen
    <2>4. ASSUME NEW q \in Own PROVE ~blocks'[reader[q].block].owned => blocks'[reader[q].block].data = <<"map", reader[q].table>>
      BY <1>8, <2>1, OwnedIsThere DEF MappedAreOpen
    <2>5. ~blocks'[reader'[r].block].owned => blocks'[reader'[r].block].data = <<"map", reader'[r].table>>
      BY <1>3, <1>4, <1>5, <1>8
    <2>6. ASSUME NEW q \in Own'
          PROVE  ~blocks'[reader'[q].block].owned => blocks'[reader'[q].block].data = <<"map", reader'[q].table>>
      BY <1>7, <2>4, <2>5
    <2> QED BY <1>1, <2>2, <2>3, <2>6 DEF MappedAreOpen
  <1> QED BY <1>9, <1>10, <1>11, <1>12, <1>13, <1>14 DEF BlockInv

\* The block goes into the cache.
LEMMA ReadAndInsertKeeps == ASSUME BlockInv, NEW r \in Readers, ReadAndInsert(r) PROVE BlockInv'
  <1>1. /\ reader[r].pc = "miss" /\ DOMAIN blocks # Memory /\ DOMAIN cache # Memory
        /\ UNCHANGED <<tables, cached, opens, wild>>
        /\ reader[r].table \in DOMAIN tables /\ reader[r].block = None /\ reader[r].handle = None
        /\ reader[r].table \in Nat /\ reader[r].offset \in Offsets
    <2>1. /\ reader[r].pc = "miss" /\ DOMAIN blocks # Memory /\ DOMAIN cache # Memory
          /\ UNCHANGED <<tables, cached, opens, wild>>
      BY DEF ReadAndInsert
    <2>2. ReaderIsRight(r) /\ reader[r] \in ReaderType
      BY DEF BlockInv, Types, ReadersAreRight
    <2> QED BY <2>1, <2>2 DEF ReaderIsRight, ReaderType
  <1> DEFINE key == <<reader[r].table, reader[r].offset>>
  <1>2. PICK b, h, c, old, unused :
          /\ b \in Memory /\ b \notin DOMAIN blocks /\ h \in Memory /\ h \notin DOMAIN cache
          /\ c \in ReadBlock(reader[r].table, tables[reader[r].table].mapped, heap) \ {Failed} /\ c.cachable
          /\ old = Find(key) /\ unused = {x \in old : cache[x].refs = 1}
          /\ cache' = Extend([x \in DOMAIN cache \ unused |->
                               IF x \in old THEN [cache[x] EXCEPT !.in = FALSE, !.refs = @ - 1] ELSE cache[x]],
                             h, [key |-> key, block |-> b, refs |-> 2, in |-> TRUE])
          /\ heap' = (heap \cup Allocated(c)) \ Buffers({cache[x].block : x \in unused})
          /\ blocks' = Extend(Remove(blocks, {cache[x].block : x \in unused}), b, BlockOf(c))
          /\ reader' = [reader EXCEPT ![r] = [reader[r] EXCEPT !.pc = "block", !.block = b, !.handle = h]]
    <2>1. Fresh(DOMAIN blocks) \in Memory /\ Fresh(DOMAIN blocks) \notin DOMAIN blocks
      BY <1>1, FreshIsFree DEF BlockInv, Types
    <2>2. Fresh(DOMAIN cache) \in Memory /\ Fresh(DOMAIN cache) \notin DOMAIN cache
      BY <1>1, FreshIsFree DEF BlockInv, Types
    <2>3. Failed.cachable = FALSE
      BY DEF Failed
    <2> DEFINE b == Fresh(DOMAIN blocks)
               h == Fresh(DOMAIN cache)
               old == Find(key)
               unused == {x \in old : cache[x].refs = 1}
    <2>4. PICK c \in {x \in ReadBlock(reader[r].table, tables[reader[r].table].mapped, heap) : x.cachable} :
          /\ cache' = Extend([x \in DOMAIN cache \ unused |->
                               IF x \in old THEN [cache[x] EXCEPT !.in = FALSE, !.refs = @ - 1] ELSE cache[x]],
                             h, [key |-> key, block |-> b, refs |-> 2, in |-> TRUE])
          /\ heap' = (heap \cup Allocated(c)) \ Buffers({cache[x].block : x \in unused})
          /\ blocks' = Extend(Remove(blocks, {cache[x].block : x \in unused}), b, BlockOf(c))
          /\ reader' = [reader EXCEPT ![r] = [reader[r] EXCEPT !.pc = "block", !.block = b, !.handle = h]]
      BY DEF ReadAndInsert, Step, BlockOf
    <2>5. c \in ReadBlock(reader[r].table, tables[reader[r].table].mapped, heap) \ {Failed} /\ c.cachable
      BY <2>3, <2>4
    <2>6. unused = {x \in old : cache[x].refs = 1} /\ old = Find(key)
      OBVIOUS
    <2> HIDE DEF b, h, old, unused
    <2> QED BY <2>1, <2>2, <2>4, <2>5, <2>6 DEF b, h
  <1> DEFINE block == BlockOf(c)
             gone == {cache[x].block : x \in unused}
             K == {<<"cache", x>> : x \in unused}
             o == <<"cache", h>>
  <1>3. /\ block \in BlockType /\ (block.owned <=> block.data[1] = "heap") /\ block.owned
        /\ block.data[2] \in Memory /\ block.data[2] \notin heap /\ Allocated(c) = {block.data[2]}
    <2>1. heap \subseteq Memory
      BY DEF BlockInv, Types
    <2>2. c \in ReadBlock(reader[r].table, tables[reader[r].table].mapped, heap) \ {Failed} /\ c.cachable
      BY <1>2
    <2>3. /\ block \in BlockType /\ (block.owned <=> block.data[1] = "heap") /\ (c.cachable => block.owned)
          /\ block.owned => block.data[2] \in Memory /\ block.data[2] \notin heap
          /\ Allocated(c) = (IF block.owned THEN {block.data[2]} ELSE {})
      BY <1>1, <2>1, <2>2, ReadBlockIs
    <2> QED BY <2>2, <2>3
  <1>4. PICK s \in ReaderType :
          /\ s.table = reader[r].table /\ s.pc = "block" /\ s.handle = h /\ s.block = b
          /\ reader' = [reader EXCEPT ![r] = s]
    <2> DEFINE t == [reader[r] EXCEPT !.pc = "block", !.block = b, !.handle = h]
    <2>1. t \in ReaderType /\ t.table = reader[r].table /\ t.pc = "block" /\ t.handle = h /\ t.block = b
      BY <1>1, <1>2 DEF ReaderType, BlockInv, Types
    <2>2. reader' = [reader EXCEPT ![r] = t]
      BY <1>2
    <2> HIDE DEF t
    <2> QED BY <2>1, <2>2
  <1>5. /\ reader' \in [Readers -> ReaderType] /\ reader'[r] = s
        /\ \A q \in Readers \ {r} : reader'[q] = reader[q]
        /\ Own' \ {r} = Own \ {r} /\ (r \in Own' <=> s.block # None /\ s.handle = None)
        /\ \A id : UsersOf(id)' = (UsersOf(id) \ {r}) \cup (IF s.table = id THEN {r} ELSE {})
        /\ \A k : Users(k)' = (Users(k) \ {r}) \cup (IF s.handle = k THEN {r} ELSE {})
    <2>1. reader \in [Readers -> ReaderType] /\ reader' = [reader EXCEPT ![r] = s]
      BY <1>4 DEF BlockInv, Types
    <2> QED BY <2>1, OneReader
  <1>6. b # None /\ h # None
    BY <1>2, NoneIsNothing
  <1>7. Own' = Own /\ \A q \in Own : reader'[q] = reader[q]
    <2>1. r \notin Own' /\ r \notin Own /\ Own \subseteq Readers
      BY <1>1, <1>4, <1>5, <1>6 DEF Own
    <2>2. Own' \ {r} = Own \ {r}
      BY <1>5
    <2>3. Own' = Own
      BY <2>1, <2>2
    <2> QED BY <1>5, <2>1, <2>3
  <1>8. /\ unused \subseteq DOMAIN cache
        /\ gone \subseteq DOMAIN blocks /\ Buffers(gone) \subseteq heap
        /\ Sound(Remove(OwnerOf, K), Remove(blocks, gone), heap \ Buffers(gone), FilterOf)
    <2>1. unused \in SUBSET DOMAIN cache
      BY <1>2 DEF Find
    <2> QED BY <2>1, EntriesGo
  <1>9. /\ DOMAIN blocks' = (DOMAIN blocks \ gone) \cup {b} /\ blocks'[b] = block
        /\ \A x \in DOMAIN blocks \ gone : blocks'[x] = blocks[x]
    BY <1>2 DEF Extend, Remove, Restrict
  <1>10. /\ DOMAIN cache' = (DOMAIN cache \ unused) \cup {h}
         /\ cache'[h] = [key |-> key, block |-> b, refs |-> 2, in |-> TRUE]
         /\ \A k \in DOMAIN cache \ unused :
              cache'[k] = IF k \in old THEN [cache[k] EXCEPT !.in = FALSE, !.refs = @ - 1] ELSE cache[k]
         /\ cache' = [k \in DOMAIN cache' |-> cache'[k]]
    BY <1>2 DEF Extend
  <1>11. ASSUME NEW k \in DOMAIN cache \ unused
         PROVE  /\ cache'[k].block = cache[k].block /\ cache'[k].key = cache[k].key
                /\ IF k \in old THEN cache'[k].in = FALSE /\ cache'[k].refs = cache[k].refs - 1 /\ cache[k].refs # 1 /\ cache[k].in
                   ELSE cache'[k] = cache[k]
    <2>1. cache[k] \in [key : Nat \X Offsets, block : Memory, refs : Nat, in : BOOLEAN]
      BY DEF BlockInv, Types
    <2>2. k \in old => cache[k].in /\ cache[k].refs # 1
      BY <1>2 DEF Find
    <2>3. CASE k \in old
      BY <1>10, <2>1, <2>2, <2>3
    <2>4. CASE k \notin old
      BY <1>10, <2>4
    <2> QED BY <2>3, <2>4
  <1>12. heap' = (heap \ Buffers(gone)) \cup {block.data[2]}
    BY <1>2, <1>3, <1>8
  <1>13. h \in DOMAIN cache' /\ cache'[h].block = b /\ cache'[h].refs = 2 /\ cache'[h].in
    <2>1. h \in DOMAIN cache' /\ cache'[h] = [key |-> key, block |-> b, refs |-> 2, in |-> TRUE]
      BY <1>10
    <2> HIDE DEF key
    <2> QED BY <2>1
  <1>14. Types'
    <2>1. key \in Nat \X Offsets
      BY <1>1
    <2>2. [key |-> key, block |-> b, refs |-> 2, in |-> TRUE] \in [key : Nat \X Offsets, block : Memory, refs : Nat, in : BOOLEAN]
      <3> HIDE DEF key
      <3> QED BY <1>2, <2>1
    <2>3. ASSUME NEW k \in DOMAIN cache \ unused
          PROVE  cache'[k] \in [key : Nat \X Offsets, block : Memory, refs : Nat, in : BOOLEAN]
      <3>1. cache[k] \in [key : Nat \X Offsets, block : Memory, refs : Nat, in : BOOLEAN] /\ cache[k].refs > 0
        BY NothingKeptIs DEF BlockInv, Types
      <3>2. CASE k \in old
        <4>1. cache[k].refs - 1 \in Nat
          BY <3>1
        <4> QED BY <1>10, <3>1, <3>2, <4>1
      <3>3. CASE k \notin old
        BY <1>10, <3>1, <3>3
      <3> QED BY <3>2, <3>3
    <2>4. cache' \in [DOMAIN cache' -> [key : Nat \X Offsets, block : Memory, refs : Nat, in : BOOLEAN]]
      <3> HIDE DEF key
      <3> QED BY <1>10, <2>2, <2>3
    <2>5. DOMAIN cache' \subseteq Memory /\ DOMAIN blocks' \subseteq Memory /\ heap' \subseteq Memory
      <3> HIDE DEF gone, block, key
      <3> QED BY <1>2, <1>3, <1>9, <1>10, <1>12 DEF BlockInv, Types
    <2> HIDE DEF gone, block, key
    <2> QED BY <1>1, <1>5, <2>4, <2>5 DEF BlockInv, Types, Memory, None
  <1>15. ASSUME NEW k \in unused PROVE Users(k) = {}
    <2>1. cache[k].in /\ cache[k].refs = 1 /\ k \in DOMAIN cache
      BY <1>2 DEF Find
    <2>2. Cardinality(Users(k)) = 0
      BY <2>1, NothingKeptIs, UsersAreFinite DEF BlockInv
    <2> QED BY <2>2, UsersAreFinite, FS_EmptySet
  <1>16. ReadersAreRight'
    <2>1. ReaderIsRight(r)'
      <3>1. h \in DOMAIN cache' /\ cache'[h].block = b
        BY <1>13
      <3> QED BY <1>1, <1>4, <1>5, <1>6, <3>1 DEF ReaderIsRight, None
    <2>2. ASSUME NEW q \in Readers \ {r} PROVE ReaderIsRight(q)'
      <3>1. ReaderIsRight(q) /\ reader'[q] = reader[q]
        BY <1>5 DEF BlockInv, ReadersAreRight
      <3>2. ASSUME reader[q].handle # None
            PROVE  reader[q].handle \in DOMAIN cache' /\ cache'[reader[q].handle].block = cache[reader[q].handle].block
        <4>1. reader[q].handle \in DOMAIN cache
          BY <3>1, <3>2 DEF ReaderIsRight
        <4>2. reader[q].handle \notin unused
          BY <1>15 DEF Users
        <4> QED BY <1>10, <1>11, <4>1, <4>2
      <3> HIDE DEF gone, block, key
      <3> QED BY <1>1, <3>1, <3>2 DEF ReaderIsRight, None
    <2> QED BY <2>1, <2>2 DEF ReadersAreRight
  <1>17. FiltersAreThere' /\ FilterOf' = FilterOf
    BY <1>1 DEF FiltersAreThere, FilterOf, BlockInv
  <1>18. NothingKept'
    <2>1. ASSUME NEW k \in DOMAIN cache PROVE Users(k)' = Users(k)
      <3>1. k # None /\ k # h /\ r \notin Users(k)
        BY <1>1, <1>2, NoneIsNothing DEF Users
      <3> QED BY <1>4, <1>5, <3>1
    <2>2. \A id \in DOMAIN tables : UsersOf(id)' = UsersOf(id)
      BY <1>4, <1>5 DEF UsersOf
    <2>3. Users(h)' = {r}
      <3>1. Users(h) = {}
        BY <1>2, <1>6 DEF BlockInv, ReadersAreRight, ReaderIsRight, Users
      <3> QED BY <1>4, <1>5, <3>1
    <2>4. Cardinality(Users(h)') = 1
      BY <2>3, FS_Singleton
    <2>5. cache'[h].refs = Cardinality(Users(h)') + (IF cache'[h].in THEN 1 ELSE 0) /\ cache'[h].refs > 0
      BY <1>13, <2>4
    <2>6. ASSUME NEW k \in DOMAIN cache \ unused
          PROVE  cache'[k].refs = Cardinality(Users(k)') + (IF cache'[k].in THEN 1 ELSE 0) /\ cache'[k].refs > 0
      <3>1. /\ cache[k].refs = Cardinality(Users(k)) + (IF cache[k].in THEN 1 ELSE 0) /\ cache[k].refs > 0
            /\ cache[k].refs \in Nat
        BY NothingKeptIs DEF BlockInv, Types
      <3>2. CASE k \in old
        <4>1. cache'[k].in = FALSE /\ cache'[k].refs = cache[k].refs - 1 /\ cache[k].refs # 1 /\ cache[k].in
          BY <1>11, <3>2
        <4>2. Users(k)' = Users(k) /\ Cardinality(Users(k)) \in Nat
          BY <2>1, UsersAreFinite
        <4>3. cache[k].refs = Cardinality(Users(k)) + 1
          BY <3>1, <4>1
        <4> QED BY <3>1, <4>1, <4>2, <4>3
      <3>3. CASE k \notin old
        BY <1>11, <2>1, <3>1, <3>3
      <3> QED BY <3>2, <3>3
    <2>7. ASSUME NEW k \in DOMAIN cache'
          PROVE  cache'[k].refs = Cardinality(Users(k)') + (IF cache'[k].in THEN 1 ELSE 0) /\ cache'[k].refs > 0
      <3>1. CASE k = h
        BY <2>5, <3>1
      <3>2. CASE k # h
        BY <1>10, <2>6, <3>2
      <3> QED BY <3>1, <3>2
    <2>8. \A id \in DOMAIN tables' : id = cached' \/ UsersOf(id)' # {}
      BY <1>1, <2>2, NothingKeptIs DEF BlockInv
    <2> QED BY <2>7, <2>8, NothingKeptNext
  <1>19. Sound(OwnerOf, blocks, heap, FilterOf)'
    <2> DEFINE at == Remove(OwnerOf, K)
    <2>1. DOMAIN at = DOMAIN OwnerOf \ K /\ \A p \in DOMAIN at : at[p] = OwnerOf[p]
      BY DEF Remove, Restrict
    <2>2. o \notin DOMAIN at
      BY <1>2, <2>1, OwnersAreKnown DEF OwnersAre
    <2>3. Sound(Extend(at, o, b), Extend(Remove(blocks, gone), b, block),
                (heap \ Buffers(gone)) \cup (IF block.owned THEN {block.data[2]} ELSE {}), FilterOf)
      <3>1. Sound(at, Remove(blocks, gone), heap \ Buffers(gone), FilterOf)
        BY <1>8
      <3>2. b \notin DOMAIN Remove(blocks, gone)
        BY <1>2 DEF Remove, Restrict
      <3>3. block \in BlockType /\ (block.owned <=> block.data[1] = "heap") /\ (block.owned => block.data[2] \notin heap \ Buffers(gone))
        BY <1>3
      <3> HIDE DEF block, o, at, gone
      <3> QED BY <2>2, <3>1, <3>2, <3>3, AddIsSound
    <2>4. Sound(Extend(at, o, b), blocks', heap', FilterOf)
      <3>1. /\ heap' = (heap \ Buffers(gone)) \cup (IF block.owned THEN {block.data[2]} ELSE {})
            /\ blocks' = Extend(Remove(blocks, gone), b, block)
        BY <1>2, <1>3, <1>12
      <3> HIDE DEF block, o, gone, at
      <3> QED BY <2>3, <3>1
    <2>5. DOMAIN OwnerOf' = DOMAIN at \cup {o}
      <3>1. TableOwners' = TableOwners /\ CacheOwners' = (CacheOwners \ K) \cup {o} /\ ReaderOwners' = ReaderOwners
        <4>1. CacheOwners' = {<<"cache", k>> : k \in (DOMAIN cache \ unused) \cup {h}}
          BY <1>10 DEF CacheOwners
        <4>2. CacheOwners' = (CacheOwners \ K) \cup {o}
          BY <4>1 DEF CacheOwners
        <4> QED BY <1>1, <1>7, <4>2 DEF TableOwners, ReaderOwners
      <3>2. /\ DOMAIN OwnerOf' = TableOwners' \cup CacheOwners' \cup ReaderOwners'
            /\ DOMAIN OwnerOf = TableOwners \cup CacheOwners \cup ReaderOwners
        BY DEF OwnerOf
      <3>3. \A p \in K : p \notin TableOwners /\ p \notin ReaderOwners
        BY DEF TableOwners, ReaderOwners
      <3> HIDE DEF o, K, at
      <3> QED BY <2>1, <3>1, <3>2, <3>3
    <2>6. OwnerOf'[o] = b
      <3>1. h \in DOMAIN cache' /\ cache'[h].block = b
        BY <1>13
      <3> QED BY <3>1, OwnersAreKnownNext DEF OwnersAre
    <2>7. \A p \in DOMAIN at : OwnerOf'[p] = at[p]
      <3>1. ASSUME NEW i \in DOMAIN tables PROVE OwnerOf'[<<"table", i>>] = OwnerOf[<<"table", i>>]
        BY <1>1, OwnersAreKnown, OwnersAreKnownNext DEF OwnersAre
      <3>2. ASSUME NEW k \in DOMAIN cache \ unused PROVE OwnerOf'[<<"cache", k>>] = OwnerOf[<<"cache", k>>]
        <4>1. k \in DOMAIN cache' /\ cache'[k].block = cache[k].block
          BY <1>10, <1>11
        <4>2. OwnerOf'[<<"cache", k>>] = cache'[k].block
          BY <4>1, OwnersAreKnownNext DEF OwnersAre
        <4> QED BY <4>1, <4>2, OwnersAreKnown DEF OwnersAre
      <3>3. ASSUME NEW q \in Own PROVE OwnerOf'[<<"reader", q>>] = OwnerOf[<<"reader", q>>]
        BY <1>7, OwnersAreKnown, OwnersAreKnownNext DEF OwnersAre
      <3>4. ASSUME NEW p \in DOMAIN at PROVE OwnerOf'[p] = OwnerOf[p]
        <4>1. p \in DOMAIN OwnerOf /\ p \notin K
          BY <2>1
        <4>2. \/ \E id \in DOMAIN tables : p = <<"table", id>>
              \/ \E k \in DOMAIN cache \ unused : p = <<"cache", k>>
              \/ \E q \in Own : p = <<"reader", q>>
          BY <4>1, OwnersAreKnown DEF OwnersAre
        <4> QED BY <3>1, <3>2, <3>3, <4>2
      <3> QED BY <2>1, <3>4
    <2>8. /\ DOMAIN OwnerOf' = DOMAIN Extend(at, o, b)
          /\ \A p \in DOMAIN Extend(at, o, b) : OwnerOf'[p] = Extend(at, o, b)[p]
      <3> HIDE DEF o, at
      <3> QED BY <2>2, <2>5, <2>6, <2>7 DEF Extend
    <2>9. DOMAIN FilterOf' = DOMAIN FilterOf /\ \A id \in DOMAIN FilterOf : FilterOf'[id] = FilterOf[id]
      BY <1>17
    <2> HIDE DEF o, at
    <2>10. Sound(OwnerOf', blocks', heap', FilterOf')
      BY <2>4, <2>8, <2>9, SameIsSound
    <2> QED BY <2>10
  <1>20. MappedAreOpen'
    <2>1. MappedAreOpen /\ Sound(OwnerOf, blocks, heap, FilterOf)
      BY DEF BlockInv
    <2>2. /\ \A i \in DOMAIN tables : tables[i].index \in DOMAIN blocks \ gone
          /\ \A k \in DOMAIN cache \ unused : cache[k].block \in DOMAIN blocks \ gone
          /\ \A q \in Own : reader[q].block \in DOMAIN blocks \ gone
      BY <1>8, <2>1, OwnedIsThere, OwnersAreApart
    <2> HIDE DEF gone
    <2>3. ASSUME NEW id \in DOMAIN tables PROVE ~blocks'[tables[id].index].owned => blocks'[tables[id].index].data = <<"map", id>>
      BY <1>9, <2>1, <2>2 DEF MappedAreOpen
    <2>4. ASSUME NEW k \in DOMAIN cache' PROVE blocks'[cache'[k].block].owned
      <3>1. CASE k = h
        BY <1>3, <1>9, <1>13, <3>1
      <3>2. CASE k # h
        <4>1. k \in DOMAIN cache \ unused /\ cache'[k].block = cache[k].block
          BY <1>10, <1>11, <3>2
        <4> QED BY <1>9, <2>1, <2>2, <4>1 DEF MappedAreOpen
      <3> QED BY <3>1, <3>2
    <2>5. ASSUME NEW q \in Own' PROVE ~blocks'[reader'[q].block].owned => blocks'[reader'[q].block].data = <<"map", reader'[q].table>>
      <3>1. q \in Own /\ reader'[q] = reader[q]
        BY <1>7
      <3> QED BY <1>9, <2>1, <2>2, <3>1 DEF MappedAreOpen
    <2> QED BY <1>1, <2>3, <2>4, <2>5 DEF MappedAreOpen
  <1> QED BY <1>14, <1>16, <1>17, <1>18, <1>19, <1>20 DEF BlockInv

-------------------------------------------------------------------------------
\* Opening a table

LEMMA FilterIs ==
  ASSUME NEW id \in Nat, NEW mapped, NEW h, h \subseteq Memory, NEW c \in ReadBlock(id, mapped, h)
  PROVE  /\ Allocated(c) = IF FilterData(c) = None THEN {} ELSE {FilterData(c)}
         /\ FilterData(c) # None => FilterData(c) \notin h
         /\ FilterData(c) \in Memory \cup {None}
         /\ IF FilterData(c) = None THEN c.data \in {<<"none", 0>>, <<"map", id>>}
            ELSE c.data = <<"heap", FilterData(c)>>
         /\ c.data \in {"none", "map", "heap"} \X Nat
  <1>1. Memory \subseteq Nat /\ None \notin Memory
    BY BlockReaderAssumption DEF Memory, None
  <1>2. CASE c = Failed
    <2>1. Allocated(c) = {} /\ FilterData(c) = None /\ c.data = <<"none", 0>>
      BY <1>2 DEF Failed, Allocated, FilterData
    <2> QED BY <2>1
  <1>3. CASE h # Memory /\ c = [ok |-> TRUE, data |-> <<"heap", Fresh(h)>>, heap_allocated |-> TRUE, cachable |-> TRUE]
    <2>1. Fresh(h) \in Memory /\ Fresh(h) \notin h
      BY <1>3, FreshIsFree
    <2>2. Allocated(c) = {Fresh(h)} /\ FilterData(c) = Fresh(h) /\ c.data = <<"heap", Fresh(h)>>
      BY <1>3 DEF Allocated, FilterData
    <2>3. Fresh(h) # None /\ Fresh(h) \in Nat
      BY <1>1, <2>1
    <2> QED BY <2>1, <2>2, <2>3
  <1>4. CASE c = [ok |-> TRUE, data |-> <<"map", id>>, heap_allocated |-> FALSE, cachable |-> FALSE]
    <2>1. Allocated(c) = {} /\ FilterData(c) = None /\ c.data = <<"map", id>>
      BY <1>4 DEF Allocated, FilterData
    <2> QED BY <2>1
  <1> QED BY <1>2, <1>3, <1>4 DEF ReadBlock

LEMMA OpenKeeps == ASSUME BlockInv, NEW r \in Readers, Open(r) PROVE BlockInv'
  <1>1. /\ reader[r].pc = "open" /\ DOMAIN blocks # Memory /\ opens' = opens + 1 /\ cached' = opens'
        /\ UNCHANGED <<cache, wild>>
        /\ reader[r].table = None /\ reader[r].block = None /\ reader[r].handle = None
    <2>1. /\ reader[r].pc = "open" /\ DOMAIN blocks # Memory /\ opens' = opens + 1 /\ cached' = opens'
          /\ UNCHANGED <<cache, wild>>
      BY DEF Open
    <2>2. ReaderIsRight(r)
      BY DEF BlockInv, ReadersAreRight
    <2> QED BY <2>1, <2>2 DEF ReaderIsRight
  <1>2. PICK n, b, mapped, c, f, closed :
          /\ n = opens' /\ mapped \in BOOLEAN /\ b \in Memory /\ b \notin DOMAIN blocks
          /\ c \in ReadBlock(n, mapped, heap) \ {Failed} /\ f \in ReadBlock(n, mapped, heap \cup Allocated(c))
          /\ closed = {id \in {cached} \ {None} : UsersOf(id) = {}}
          /\ blocks' = Extend(Remove(blocks, {tables[id].index : id \in closed}), b, BlockOf(c))
          /\ heap' = (heap \cup Allocated(c) \cup Allocated(f))
                       \ (Buffers({tables[id].index : id \in closed}) \cup ({tables[id].filter_data : id \in closed} \ {None}))
          /\ tables' = Extend(Remove(tables, closed), n,
                              [mapped |-> mapped, index |-> b, filter_data |-> FilterData(f), filter |-> f.data])
          /\ reader' = [reader EXCEPT ![r] = [Idle EXCEPT !.pc = "table", !.table = n]]
    <2>1. Fresh(DOMAIN blocks) \in Memory /\ Fresh(DOMAIN blocks) \notin DOMAIN blocks
      BY <1>1, FreshIsFree DEF BlockInv, Types
    <2> DEFINE b == Fresh(DOMAIN blocks)
               closed == {id \in {cached} \ {None} : UsersOf(id) = {}}
    <2>2. PICK mapped \in BOOLEAN :
          \E c \in ReadBlock(opens', mapped, heap) \ {Failed} :
          \E f \in ReadBlock(opens', mapped, heap \cup Allocated(c)) :
            /\ blocks' = Extend(Remove(blocks, {tables[id].index : id \in closed}), b, BlockOf(c))
            /\ heap' = (heap \cup Allocated(c) \cup Allocated(f))
                         \ (Buffers({tables[id].index : id \in closed}) \cup ({tables[id].filter_data : id \in closed} \ {None}))
            /\ tables' = Extend(Remove(tables, closed), opens',
                                [mapped |-> mapped, index |-> b, filter_data |-> FilterData(f), filter |-> f.data])
      BY DEF Open, BlockOf
    <2>3. reader' = [reader EXCEPT ![r] = [Idle EXCEPT !.pc = "table", !.table = opens']]
      BY DEF Open, Step
    <2>4. closed = {id \in {cached} \ {None} : UsersOf(id) = {}}
      OBVIOUS
    <2> HIDE DEF b, closed
    <2> QED BY <2>1, <2>2, <2>3, <2>4 DEF b
  <1> DEFINE block == BlockOf(c)
             table == [mapped |-> mapped, index |-> b, filter_data |-> FilterData(f), filter |-> f.data]
             indexes == {tables[id].index : id \in closed}
             filters == {tables[id].filter_data : id \in closed} \ {None}
             K == {<<"table", id>> : id \in closed}
             J == closed \cap DOMAIN FilterOf
             o == <<"table", n>>
             m == FilterData(f)
  <1>3. n \in Nat /\ n # None /\ n \notin DOMAIN tables /\ n = opens + 1
    <2>1. opens \in Nat /\ DOMAIN tables \subseteq 1..opens
      BY DEF BlockInv, Types
    <2> QED BY <1>1, <1>2, <2>1 DEF None
  <1>4. closed \in SUBSET DOMAIN tables /\ \A id \in closed : UsersOf(id) = {}
    BY <1>2 DEF BlockInv, Types
  <1>5. heap \subseteq Memory
    BY DEF BlockInv, Types
  <1>6. /\ block \in BlockType /\ (block.owned <=> block.data[1] = "heap")
        /\ block.owned => block.data[2] \in Memory /\ block.data[2] \notin heap
        /\ ~block.owned => block.data = <<"map", n>>
        /\ Allocated(c) = (IF block.owned THEN {block.data[2]} ELSE {}) /\ Allocated(c) \subseteq Memory
        /\ Allocated(c) \cap heap = {}
    BY <1>2, <1>3, <1>5, ReadBlockIs
  <1>7. /\ Allocated(f) = (IF m = None THEN {} ELSE {m})
        /\ m # None => m \notin heap \cup Allocated(c)
        /\ m \in Memory \cup {None}
        /\ IF m = None THEN f.data \in {<<"none", 0>>, <<"map", n>>} ELSE f.data = <<"heap", m>>
        /\ f.data \in {"none", "map", "heap"} \X Nat
    <2>1. heap \cup Allocated(c) \subseteq Memory /\ f \in ReadBlock(n, mapped, heap \cup Allocated(c))
      BY <1>2, <1>5, <1>6
    <2> QED BY <1>3, <2>1, FilterIs
  <1>8. /\ indexes \subseteq DOMAIN blocks /\ Buffers(indexes) \cup filters \subseteq heap
        /\ Sound(Remove(OwnerOf, K), Remove(blocks, indexes), heap \ (Buffers(indexes) \cup filters), Remove(FilterOf, J))
    BY <1>4, TablesGo
  <1>9. /\ blocks' = Extend(Remove(blocks, indexes), b, block)
        /\ heap' = (heap \ (Buffers(indexes) \cup filters)) \cup Allocated(c) \cup Allocated(f)
        /\ tables' = Extend(Remove(tables, closed), n, table)
    <2>1. heap' = (heap \cup Allocated(c) \cup Allocated(f)) \ (Buffers(indexes) \cup filters)
      BY <1>2
    <2>2. Allocated(f) \cap heap = {}
      BY <1>7
    <2> HIDE DEF indexes, filters, m
    <2>3. heap' = (heap \ (Buffers(indexes) \cup filters)) \cup Allocated(c) \cup Allocated(f)
      BY <1>6, <1>8, <2>1, <2>2
    <2> QED BY <1>2, <2>3 DEF indexes
  <1>10. /\ DOMAIN blocks' = (DOMAIN blocks \ indexes) \cup {b} /\ blocks'[b] = block
         /\ \A x \in DOMAIN blocks \ indexes : blocks'[x] = blocks[x]
    <2> HIDE DEF block, table, indexes, filters, K, J, o, m
    <2>1. b \notin DOMAIN blocks /\ blocks' = Extend(Remove(blocks, indexes), b, block)
      BY <1>2, <1>9
    <2> QED BY <2>1 DEF Extend, Remove, Restrict
  <1>11. /\ DOMAIN tables' = (DOMAIN tables \ closed) \cup {n} /\ tables'[n] = table
         /\ \A i \in DOMAIN tables \ closed : tables'[i] = tables[i]
         /\ tables' = [i \in DOMAIN tables' |-> tables'[i]]
    <2> HIDE DEF table
    <2> QED BY <1>3, <1>9 DEF Extend, Remove, Restrict
  <1>12. tables'[n].index = b /\ tables'[n].filter_data = m /\ tables'[n].filter = f.data
    BY <1>11
  <1>13. PICK s \in ReaderType :
          /\ s.table = n /\ s.pc = "table" /\ s.handle = None /\ s.block = None
          /\ reader' = [reader EXCEPT ![r] = s]
    <2> DEFINE t == [Idle EXCEPT !.pc = "table", !.table = n]
    <2>1. t \in ReaderType /\ t.table = n /\ t.pc = "table" /\ t.handle = None /\ t.block = None
      BY <1>3 DEF ReaderType, Idle, None
    <2>2. reader' = [reader EXCEPT ![r] = t]
      BY <1>2
    <2> HIDE DEF t
    <2> QED BY <2>1, <2>2
  <1>14. /\ reader' \in [Readers -> ReaderType] /\ reader'[r] = s
         /\ \A q \in Readers \ {r} : reader'[q] = reader[q]
         /\ Own' \ {r} = Own \ {r} /\ (r \in Own' <=> s.block # None /\ s.handle = None)
         /\ \A id : UsersOf(id)' = (UsersOf(id) \ {r}) \cup (IF s.table = id THEN {r} ELSE {})
         /\ \A k : Users(k)' = (Users(k) \ {r}) \cup (IF s.handle = k THEN {r} ELSE {})
    <2>1. reader \in [Readers -> ReaderType] /\ reader' = [reader EXCEPT ![r] = s]
      BY <1>13 DEF BlockInv, Types
    <2> QED BY <2>1, OneReader
  <1>15. Own' = Own /\ \A q \in Own : reader'[q] = reader[q]
    <2> HIDE DEF block, table, indexes, filters, K, J, o, m
    <2>1. r \notin Own' /\ r \notin Own /\ Own \subseteq Readers
      BY <1>1, <1>13, <1>14 DEF Own
    <2>2. Own' \ {r} = Own \ {r}
      BY <1>14
    <2>3. Own' = Own
      BY <2>1, <2>2
    <2> QED BY <1>14, <2>1, <2>3
  <1>16. Types'
    <2> DEFINE TableType == [mapped : BOOLEAN, index : Memory, filter_data : Memory \cup {None},
                             filter : {"none", "map", "heap"} \X Nat]
    <2>1. table \in TableType
      <3> HIDE DEF m
      <3> QED BY <1>2, <1>7 DEF m
    <2>2. \A i \in DOMAIN tables : tables[i] \in TableType
      BY DEF BlockInv, Types
    <2>3. tables' \in [DOMAIN tables' -> TableType]
      <3> HIDE DEF table, TableType
      <3> QED BY <1>11, <2>1, <2>2
    <2>4. DOMAIN tables' \subseteq 1..opens' /\ opens' \in Nat /\ cached' \in DOMAIN tables' \cup {None}
      <3>1. opens \in Nat /\ DOMAIN tables \subseteq 1..opens
        BY DEF BlockInv, Types
      <3>2. opens' = n /\ cached' = n /\ n = opens + 1
        BY <1>1, <1>2, <1>3
      <3>3. DOMAIN tables' = (DOMAIN tables \ closed) \cup {n}
        BY <1>11
      <3> HIDE DEF block, table, indexes, filters, K, J, o, m
      <3> QED BY <3>1, <3>2, <3>3
    <2>5. DOMAIN blocks' \subseteq Memory /\ heap' \subseteq Memory
      <3> HIDE DEF indexes, filters, block
      <3>1. Allocated(f) \subseteq Memory
        BY <1>7
      <3> QED BY <1>2, <1>5, <1>6, <1>9, <1>10, <3>1 DEF BlockInv, Types
    <2> HIDE DEF TableType, table, indexes, filters, block
    <2> QED BY <1>1, <1>14, <2>3, <2>4, <2>5 DEF BlockInv, Types, Memory, None, TableType
  <1>17. ReadersAreRight'
    <2>1. ReaderIsRight(r)'
      BY <1>11, <1>13, <1>14 DEF ReaderIsRight, None
    <2>2. ASSUME NEW q \in Readers \ {r} PROVE ReaderIsRight(q)'
      <3>1. ReaderIsRight(q) /\ reader'[q] = reader[q]
        BY <1>14 DEF BlockInv, ReadersAreRight
      <3>2. ASSUME reader[q].table \in DOMAIN tables PROVE reader[q].table \in DOMAIN tables'
        <4>1. reader[q].table \notin closed
          BY <1>4 DEF UsersOf
        <4> QED BY <1>11, <3>2, <4>1
      <3> HIDE DEF table
      <3> QED BY <1>1, <3>1, <3>2 DEF ReaderIsRight, None
    <2> QED BY <2>1, <2>2 DEF ReadersAreRight
  <1>18. FiltersAreThere'
    <2>1. ASSUME NEW i \in DOMAIN tables'
          PROVE  IF tables'[i].filter_data # None THEN tables'[i].filter = <<"heap", tables'[i].filter_data>>
                 ELSE tables'[i].filter \in {<<"none", 0>>, <<"map", i>>}
      <3>1. CASE i = n
        <4> HIDE DEF m
        <4> QED BY <1>7, <1>12, <3>1
      <3>2. CASE i # n
        <4>1. i \in DOMAIN tables /\ tables'[i] = tables[i]
          BY <1>11, <3>2
        <4> QED BY <4>1 DEF BlockInv, FiltersAreThere
      <3> QED BY <3>1, <3>2
    <2> QED BY <2>1 DEF FiltersAreThere, None
  <1>19. NothingKept'
    <2> HIDE DEF block, table, indexes, filters, K, J, o, m
    <2>1. ASSUME NEW k \in DOMAIN cache PROVE Users(k)' = Users(k)
      <3>1. k # None /\ r \notin Users(k)
        BY <1>1, NoneIsNothing DEF Users
      <3> QED BY <1>13, <1>14, <3>1
    <2>2. ASSUME NEW i \in DOMAIN tables' PROVE i = cached' \/ UsersOf(i)' # {}
      <3>1. CASE i # n
        <4>1. i \in DOMAIN tables /\ i \notin closed /\ i # None /\ r \notin UsersOf(i)
          BY <1>1, <1>11, <3>1, NoneIsNothing DEF UsersOf
        <4>2. UsersOf(i) # {}
          BY <1>2, <4>1, NothingKeptIs DEF BlockInv
        <4> QED BY <1>14, <4>1, <4>2
      <3> QED BY <1>1, <1>2, <3>1
    <2> QED BY <1>1, <2>1, <2>2, NothingKeptIs, NothingKeptNext DEF BlockInv
  <1>20. Sound(OwnerOf, blocks, heap, FilterOf)'
    <2> DEFINE at == Remove(OwnerOf, K)
               fl == Remove(FilterOf, J)
               left == heap \ (Buffers(indexes) \cup filters)
    <2>1. /\ DOMAIN at = DOMAIN OwnerOf \ K /\ \A p \in DOMAIN at : at[p] = OwnerOf[p]
          /\ DOMAIN fl = DOMAIN FilterOf \ J /\ \A p \in DOMAIN fl : fl[p] = FilterOf[p]
      BY DEF Remove, Restrict
    <2>2. o \notin DOMAIN at /\ n \notin DOMAIN fl
      BY <1>3, <2>1, OwnersAreKnown, FiltersAreKnown DEF OwnersAre, FiltersAre
    <2>3. Sound(Extend(at, o, b), blocks', left \cup Allocated(c), fl)
      <3>1. Sound(at, Remove(blocks, indexes), left, fl)
        BY <1>8
      <3>2. b \notin DOMAIN Remove(blocks, indexes)
        BY <1>2 DEF Remove, Restrict
      <3>3. block \in BlockType /\ (block.owned <=> block.data[1] = "heap") /\ (block.owned => block.data[2] \notin left)
        BY <1>6
      <3>4. blocks' = Extend(Remove(blocks, indexes), b, block)
        BY <1>9
      <3>5. Allocated(c) = (IF block.owned THEN {block.data[2]} ELSE {})
        BY <1>6
      <3> HIDE DEF block, o, at, fl, left, indexes
      <3>6. Sound(Extend(at, o, b), Extend(Remove(blocks, indexes), b, block), left \cup (IF block.owned THEN {block.data[2]} ELSE {}), fl)
        BY <2>2, <3>1, <3>2, <3>3, AddIsSound
      <3> QED BY <3>4, <3>5, <3>6
    <2>4. DOMAIN OwnerOf' = DOMAIN at \cup {o}
      <3>1. TableOwners' = (TableOwners \ K) \cup {o} /\ CacheOwners' = CacheOwners /\ ReaderOwners' = ReaderOwners
        <4>1. TableOwners' = {<<"table", k>> : k \in (DOMAIN tables \ closed) \cup {n}}
          BY <1>11 DEF TableOwners
        <4>2. TableOwners' = (TableOwners \ K) \cup {o}
          BY <4>1 DEF TableOwners
        <4> QED BY <1>1, <1>15, <4>2 DEF CacheOwners, ReaderOwners
      <3>2. /\ DOMAIN OwnerOf' = TableOwners' \cup CacheOwners' \cup ReaderOwners'
            /\ DOMAIN OwnerOf = TableOwners \cup CacheOwners \cup ReaderOwners
        BY DEF OwnerOf
      <3>3. \A p \in K : p \notin CacheOwners /\ p \notin ReaderOwners
        BY DEF CacheOwners, ReaderOwners
      <3> HIDE DEF o, K, at, fl
      <3> QED BY <2>1, <3>1, <3>2, <3>3
    <2>5. OwnerOf'[o] = b
      <3>1. n \in DOMAIN tables' /\ tables'[n].index = b
        BY <1>11, <1>12
      <3> QED BY <3>1, OwnersAreKnownNext DEF OwnersAre
    <2>6. \A p \in DOMAIN at : OwnerOf'[p] = at[p]
      <3>1. ASSUME NEW i \in DOMAIN tables \ closed PROVE OwnerOf'[<<"table", i>>] = OwnerOf[<<"table", i>>]
        <4>1. i \in DOMAIN tables' /\ tables'[i] = tables[i]
          BY <1>11
        <4>2. OwnerOf'[<<"table", i>>] = tables'[i].index
          BY <4>1, OwnersAreKnownNext DEF OwnersAre
        <4> QED BY <4>1, <4>2, OwnersAreKnown DEF OwnersAre
      <3>2. ASSUME NEW k \in DOMAIN cache PROVE OwnerOf'[<<"cache", k>>] = OwnerOf[<<"cache", k>>]
        BY <1>1, OwnersAreKnown, OwnersAreKnownNext DEF OwnersAre
      <3>3. ASSUME NEW q \in Own PROVE OwnerOf'[<<"reader", q>>] = OwnerOf[<<"reader", q>>]
        BY <1>15, OwnersAreKnown, OwnersAreKnownNext DEF OwnersAre
      <3>4. ASSUME NEW p \in DOMAIN at PROVE OwnerOf'[p] = OwnerOf[p]
        <4>1. p \in DOMAIN OwnerOf /\ p \notin K
          BY <2>1
        <4>2. \/ \E i \in DOMAIN tables \ closed : p = <<"table", i>>
              \/ \E k \in DOMAIN cache : p = <<"cache", k>>
              \/ \E q \in Own : p = <<"reader", q>>
          BY <4>1, OwnersAreKnown DEF OwnersAre
        <4> QED BY <3>1, <3>2, <3>3, <4>2
      <3> QED BY <2>1, <3>4
    <2>7. /\ DOMAIN OwnerOf' = DOMAIN Extend(at, o, b)
          /\ \A p \in DOMAIN Extend(at, o, b) : OwnerOf'[p] = Extend(at, o, b)[p]
      <3> HIDE DEF o, at, fl
      <3> QED BY <2>2, <2>4, <2>5, <2>6 DEF Extend
    <2>8. CASE m = None
      <3>1. DOMAIN FilterOf' = DOMAIN fl /\ \A i \in DOMAIN fl : FilterOf'[i] = fl[i]
        <4>1. DOMAIN FilterOf' = {i \in DOMAIN tables' : tables'[i].filter_data # None}
          BY FiltersAreKnownNext DEF FiltersAre, None
        <4>2. DOMAIN fl = {i \in DOMAIN tables \ closed : tables[i].filter_data # None}
          BY <2>1, FiltersAreKnown DEF FiltersAre
        <4>3. DOMAIN FilterOf' = DOMAIN fl
          <5> HIDE DEF block, table, indexes, filters, K, J, o, m, fl, at
          <5>1. ~(tables'[n].filter_data # None)
            BY <1>12, <2>8
          <5> QED BY <1>11, <4>1, <4>2, <5>1
        <4>4. ASSUME NEW i \in DOMAIN fl PROVE FilterOf'[i] = fl[i]
          <5> HIDE DEF block, table, indexes, filters, K, J, o, m, at
          <5>1. i \in DOMAIN tables \ closed /\ i \in DOMAIN FilterOf' /\ fl[i] = FilterOf[i] /\ i \in DOMAIN FilterOf
            BY <2>1, <4>2, <4>3, <4>4
          <5>2. FilterOf'[i] = tables'[i].filter_data /\ tables'[i] = tables[i]
            BY <1>11, <5>1, FiltersAreKnownNext DEF FiltersAre
          <5> QED BY <5>1, <5>2, FiltersAreKnown DEF FiltersAre
        <4> QED BY <4>3, <4>4
      <3>2. heap' = left \cup Allocated(c)
        BY <1>7, <1>9, <2>8
      <3> HIDE DEF o, at, fl, left
      <3>3. Sound(Extend(at, o, b), blocks', heap', fl)
        BY <2>3, <3>2
      <3>4. Sound(OwnerOf', blocks', heap', FilterOf')
        BY <2>7, <3>1, <3>3, SameIsSound
      <3> QED BY <3>4
    <2>9. CASE m # None
      <3>1. DOMAIN FilterOf' = DOMAIN fl \cup {n} /\ FilterOf'[n] = m /\ \A i \in DOMAIN fl : FilterOf'[i] = fl[i]
        <4>1. DOMAIN FilterOf' = {i \in DOMAIN tables' : tables'[i].filter_data # None}
          BY FiltersAreKnownNext DEF FiltersAre, None
        <4>2. DOMAIN fl = {i \in DOMAIN tables \ closed : tables[i].filter_data # None}
          BY <2>1, FiltersAreKnown DEF FiltersAre
        <4>3. DOMAIN FilterOf' = DOMAIN fl \cup {n}
          <5> HIDE DEF block, table, indexes, filters, K, J, o, m, fl, at
          <5>1. tables'[n].filter_data # None
            BY <1>12, <2>9
          <5> QED BY <1>11, <4>1, <4>2, <5>1
        <4>4. ASSUME NEW i \in DOMAIN fl PROVE FilterOf'[i] = fl[i]
          <5> HIDE DEF block, table, indexes, filters, K, J, o, m, at
          <5>1. i \in DOMAIN tables \ closed /\ i \in DOMAIN FilterOf' /\ fl[i] = FilterOf[i] /\ i \in DOMAIN FilterOf
            BY <2>1, <4>2, <4>3, <4>4
          <5>2. FilterOf'[i] = tables'[i].filter_data /\ tables'[i] = tables[i]
            BY <1>11, <5>1, FiltersAreKnownNext DEF FiltersAre
          <5> QED BY <5>1, <5>2, FiltersAreKnown DEF FiltersAre
        <4>5. FilterOf'[n] = m
          <5> HIDE DEF block, table, indexes, filters, K, J, o, m, fl, at
          <5> QED BY <1>12, <4>3, FiltersAreKnownNext DEF FiltersAre
        <4> QED BY <4>3, <4>4, <4>5
      <3>2. heap' = (left \cup Allocated(c)) \cup {m} /\ m \notin left \cup Allocated(c)
        BY <1>7, <1>9, <2>9
      <3> HIDE DEF o, at, fl, left, m
      <3>3. Sound(Extend(at, o, b), blocks', (left \cup Allocated(c)) \cup {m}, Extend(fl, n, m))
        BY <2>2, <2>3, <3>2, FilterIsSound
      <3>4. Sound(Extend(at, o, b), blocks', heap', Extend(fl, n, m))
        BY <3>2, <3>3
      <3>5. DOMAIN FilterOf' = DOMAIN Extend(fl, n, m) /\ \A i \in DOMAIN Extend(fl, n, m) : FilterOf'[i] = Extend(fl, n, m)[i]
        BY <2>2, <3>1 DEF Extend
      <3>6. Sound(OwnerOf', blocks', heap', FilterOf')
        BY <2>7, <3>4, <3>5, SameIsSound
      <3> QED BY <3>6
    <2> QED BY <2>8, <2>9
  <1>21. MappedAreOpen'
    <2>1. MappedAreOpen /\ Sound(OwnerOf, blocks, heap, FilterOf)
      BY DEF BlockInv
    <2>2. /\ \A i \in DOMAIN tables \ closed : tables[i].index \in DOMAIN blocks \ indexes
          /\ \A k \in DOMAIN cache : cache[k].block \in DOMAIN blocks \ indexes
          /\ \A q \in Own : reader[q].block \in DOMAIN blocks \ indexes
      BY <1>4, <2>1, OwnedIsThere, OwnersAreApart
    <2> HIDE DEF indexes
    <2>3. ASSUME NEW i \in DOMAIN tables' PROVE ~blocks'[tables'[i].index].owned => blocks'[tables'[i].index].data = <<"map", i>>
      <3>1. CASE i = n
        BY <1>6, <1>10, <1>12, <3>1
      <3>2. CASE i # n
        <4>1. i \in DOMAIN tables \ closed /\ tables'[i] = tables[i]
          BY <1>11, <3>2
        <4> QED BY <1>10, <2>1, <2>2, <4>1 DEF MappedAreOpen
      <3> QED BY <3>1, <3>2
    <2>4. ASSUME NEW k \in DOMAIN cache PROVE blocks'[cache[k].block].owned
      BY <1>10, <2>1, <2>2 DEF MappedAreOpen
    <2>5. ASSUME NEW q \in Own' PROVE ~blocks'[reader'[q].block].owned => blocks'[reader'[q].block].data = <<"map", reader'[q].table>>
      <3>1. q \in Own /\ reader'[q] = reader[q]
        BY <1>15
      <3> QED BY <1>10, <2>1, <2>2, <3>1 DEF MappedAreOpen
    <2> QED BY <1>1, <2>3, <2>4, <2>5 DEF MappedAreOpen
  <1> QED BY <1>16, <1>17, <1>18, <1>19, <1>20, <1>21 DEF BlockInv

-------------------------------------------------------------------------------
\* The invariant, and what it says

LEMMA BlockInvNext == ASSUME BlockInv, [Next]_vars PROVE BlockInv'
  <1>1. CASE UNCHANGED vars
    <2> USE <1>1 DEF vars
    <2>1. Own' = Own
      BY DEF Own
    <2>2. Sound(OwnerOf, blocks, heap, FilterOf)' /\ MappedAreOpen' /\ FiltersAreThere'
      BY <2>1, TransferKeeps
    <2>3. Types'
      BY DEF BlockInv, Types, Memory, None
    <2>4. ReadersAreRight'
      BY DEF BlockInv, ReadersAreRight, ReaderIsRight, None
    <2>5. NothingKept'
      BY DEF BlockInv, NothingKept, UsersOf
    <2> QED BY <2>2, <2>3, <2>4, <2>5 DEF BlockInv
  <1>2. CASE EvictTable
    BY <1>2, EvictTableKeeps
  <1>3. CASE EvictBlock
    BY <1>3, EvictBlockKeeps
  <1>4. ASSUME NEW r \in Readers, FindTable(r) PROVE BlockInv'
    BY <1>4, FindTableKeeps
  <1>5. ASSUME NEW r \in Readers, Open(r) PROVE BlockInv'
    BY <1>5, OpenKeeps
  <1>6. ASSUME NEW r \in Readers, OpenFails(r) PROVE BlockInv'
    BY <1>6, OpenFailsKeeps
  <1>7. ASSUME NEW r \in Readers, EndTable(r) PROVE BlockInv'
    BY <1>7, EndTableKeeps
  <1>8. ASSUME NEW r \in Readers, NEW offset \in Offsets, Lookup(r, offset) PROVE BlockInv'
    BY <1>8, LookupFinds, LookupMisses
  <1>9. ASSUME NEW r \in Readers, ReadFails(r) PROVE BlockInv'
    BY <1>9, ReadFailsKeeps
  <1>10. ASSUME NEW r \in Readers, ReadOwn(r) PROVE BlockInv'
    BY <1>10, ReadOwnKeeps
  <1>11. ASSUME NEW r \in Readers, ReadAndInsert(r) PROVE BlockInv'
    BY <1>11, ReadAndInsertKeeps
  <1>12. ASSUME NEW r \in Readers, EndBlock(r) PROVE BlockInv'
    BY <1>12, EndBlockKeeps
  <1> QED BY <1>1, <1>2, <1>3, <1>4, <1>5, <1>6, <1>7, <1>8, <1>9, <1>10, <1>11, <1>12 DEF Next

\* What is there in a state of the invariant can be looked at.
LEMMA NothingDangles == ASSUME BlockInv PROVE NoDangling
  <1>1. Sound(OwnerOf, blocks, heap, FilterOf) /\ Types /\ ReadersAreRight /\ MappedAreOpen /\ FiltersAreThere
    BY DEF BlockInv
  <1>2. ASSUME NEW b \in DOMAIN blocks, blocks[b].owned PROVE Alive(blocks[b].data)
    BY <1>1, <1>2, OwnedIsThere DEF Sound, Alive
  <1>3. ASSUME NEW id \in DOMAIN tables PROVE Alive(<<"map", id>>)
    BY DEF Alive
  <1>4. ASSUME NEW id \in DOMAIN tables
        PROVE  tables[id].index \in DOMAIN blocks /\ Alive(blocks[tables[id].index].data) /\ Alive(tables[id].filter)
    <2>1. tables[id].index \in DOMAIN blocks
      BY <1>1, OwnedIsThere
    <2>2. Alive(blocks[tables[id].index].data)
      BY <1>1, <1>2, <1>3, <2>1 DEF MappedAreOpen
    <2>3. Alive(tables[id].filter)
      <3>1. CASE tables[id].filter_data # None
        BY <1>1, <3>1, OwnedIsThere DEF FiltersAreThere, Alive
      <3>2. CASE tables[id].filter_data = None
        BY <1>1, <3>2 DEF FiltersAreThere, Alive
      <3> QED BY <3>1, <3>2
    <2> QED BY <2>1, <2>2, <2>3
  <1>5. ASSUME NEW r \in Readers
        PROVE  /\ reader[r].table # None => reader[r].table \in DOMAIN tables
               /\ reader[r].block # None => reader[r].block \in DOMAIN blocks /\ Alive(blocks[reader[r].block].data)
    <2>1. ReaderIsRight(r) /\ reader[r] \in ReaderType
      BY <1>1 DEF ReadersAreRight, Types
    <2>2. reader[r].table # None => reader[r].table \in DOMAIN tables
      BY <2>1 DEF ReaderIsRight, ReaderType
    <2>3. ASSUME reader[r].block # None, reader[r].handle # None
          PROVE  reader[r].block \in DOMAIN blocks /\ Alive(blocks[reader[r].block].data)
      <3>1. reader[r].handle \in DOMAIN cache /\ cache[reader[r].handle].block = reader[r].block
        BY <2>1, <2>3 DEF ReaderIsRight
      <3>2. reader[r].block \in DOMAIN blocks /\ blocks[reader[r].block].owned
        BY <1>1, <3>1, OwnedIsThere DEF MappedAreOpen
      <3> QED BY <1>2, <3>2
    <2>4. ASSUME reader[r].block # None, reader[r].handle = None
          PROVE  reader[r].block \in DOMAIN blocks /\ Alive(blocks[reader[r].block].data)
      <3>1. r \in Own
        BY <2>4 DEF Own
      <3>2. reader[r].pc = "block" /\ reader[r].table \in DOMAIN tables
        BY <2>1, <2>4 DEF ReaderIsRight
      <3>3. reader[r].block \in DOMAIN blocks
        BY <1>1, <3>1, OwnedIsThere
      <3>4. ~blocks[reader[r].block].owned => blocks[reader[r].block].data = <<"map", reader[r].table>>
        BY <1>1, <3>1 DEF MappedAreOpen
      <3> QED BY <1>2, <1>3, <3>2, <3>3, <3>4
    <2> QED BY <2>2, <2>3, <2>4
  <1>6. ~wild
    BY <1>1 DEF Types
  <1> QED BY <1>4, <1>5, <1>6 DEF NoDangling

\* As many values as places, if no value is there twice
LEMMA AsMany ==
  ASSUME NEW f, OneToOne(f), IsFiniteSet(DOMAIN f)
  PROVE  IsFiniteSet(ValuesOf(f, DOMAIN f)) /\ Cardinality(ValuesOf(f, DOMAIN f)) = Cardinality(DOMAIN f)
  <1> DEFINE S == DOMAIN f
             T == ValuesOf(f, DOMAIN f)
             g == [x \in S |-> f[x]]
  <1>1. g \in Bijection(S, T)
    <2>1. g \in [S -> T]
      BY DEF ValuesOf
    <2>2. \A x, y \in S : g[x] = g[y] => x = y
      BY DEF OneToOne
    <2>3. \A t \in T : \E x \in S : g[x] = t
      BY DEF ValuesOf
    <2> QED BY <2>1, <2>2, <2>3 DEF Bijection, Injection, Surjection, IsInjective
  <1> QED BY <1>1, FS_Bijection DEF ExistsBijection

LEMMA Together ==
  ASSUME NEW S, IsFiniteSet(S), NEW T, IsFiniteSet(T), S \cap T = {}
  PROVE  IsFiniteSet(S \cup T) /\ Cardinality(S \cup T) = Cardinality(S) + Cardinality(T)
  <1>1. Cardinality(S \cap T) = 0
    BY FS_EmptySet
  <1>2. Cardinality(S) \in Nat /\ Cardinality(T) \in Nat
    BY FS_CardinalityType
  <1>3. IsFiniteSet(S \cup T) /\ Cardinality(S \cup T) = Cardinality(S) + Cardinality(T) - Cardinality(S \cap T)
    BY FS_Union
  <1> QED BY <1>1, <1>2, <1>3

LEMMA AllIsOwned == ASSUME BlockInv PROVE EverythingOwned
  <1> DEFINE inTables == {tables[id].index : id \in DOMAIN tables}
             inCache == {cache[h].block : h \in DOMAIN cache}
             ownBlocks == {reader[r].block : r \in Own}
             filters == {id \in DOMAIN tables : tables[id].filter_data # None}
             filterBuffers == {tables[id].filter_data : id \in filters}
             owners == {b \in DOMAIN blocks : blocks[b].owned}
  <1>1. Sound(OwnerOf, blocks, heap, FilterOf) /\ Types
    BY DEF BlockInv
  <1>2. DOMAIN blocks = inTables \cup inCache \cup ownBlocks
    <2>1. DOMAIN blocks = {OwnerOf[o] : o \in DOMAIN OwnerOf}
      BY <1>1 DEF Sound, ValuesOf
    <2>2. ASSUME NEW b \in DOMAIN blocks PROVE b \in inTables \cup inCache \cup ownBlocks
      <3>1. PICK o \in DOMAIN OwnerOf : b = OwnerOf[o]
        BY <2>1
      <3>2. CASE \E id \in DOMAIN tables : o = <<"table", id>>
        BY <3>1, <3>2, OwnersAreKnown DEF OwnersAre
      <3>3. CASE \E h \in DOMAIN cache : o = <<"cache", h>>
        BY <3>1, <3>3, OwnersAreKnown DEF OwnersAre
      <3>4. CASE \E r \in Own : o = <<"reader", r>>
        BY <3>1, <3>4, OwnersAreKnown DEF OwnersAre
      <3> QED BY <3>2, <3>3, <3>4, OwnersAreKnown DEF OwnersAre
    <2>3. inTables \subseteq DOMAIN blocks /\ inCache \subseteq DOMAIN blocks /\ ownBlocks \subseteq DOMAIN blocks
      BY <1>1, OwnedIsThere
    <2> HIDE DEF inTables, inCache, ownBlocks
    <2> QED BY <2>2, <2>3
  <1>3. IsFiniteSet(DOMAIN tables) /\ IsFiniteSet(DOMAIN cache) /\ IsFiniteSet(Own) /\ IsFiniteSet(DOMAIN blocks)
    <2>1. IsFiniteSet(1..opens) /\ IsFiniteSet(Memory)
      <3>1. 1 \in Int /\ opens \in Int /\ MaxMemory \in Int
        BY <1>1, BlockReaderAssumption DEF Types
      <3> QED BY <3>1, FS_Interval DEF Memory
    <2>2. Own \subseteq Readers
      BY DEF Own
    <2> QED BY <1>1, <2>1, <2>2, BlockReaderAssumption, FS_Subset DEF Types
  <1>4. IsFiniteSet(inTables) /\ Cardinality(inTables) = Cardinality(DOMAIN tables)
    <2> DEFINE f == [id \in DOMAIN tables |-> tables[id].index]
    <2>1. DOMAIN f = DOMAIN tables /\ OneToOne(f)
      BY <1>1, OwnersAreApart DEF OneToOne
    <2>2. ValuesOf(f, DOMAIN f) = inTables
      BY DEF ValuesOf
    <2> HIDE DEF f, inTables
    <2> QED BY <1>3, <2>1, <2>2, AsMany
  <1>5. IsFiniteSet(inCache) /\ Cardinality(inCache) = Cardinality(DOMAIN cache)
    <2> DEFINE f == [h \in DOMAIN cache |-> cache[h].block]
    <2>1. DOMAIN f = DOMAIN cache /\ OneToOne(f)
      BY <1>1, OwnersAreApart DEF OneToOne
    <2>2. ValuesOf(f, DOMAIN f) = inCache
      BY DEF ValuesOf
    <2> HIDE DEF f, inCache
    <2> QED BY <1>3, <2>1, <2>2, AsMany
  <1>6. IsFiniteSet(ownBlocks) /\ Cardinality(ownBlocks) = Cardinality(Own)
    <2> DEFINE f == [r \in Own |-> reader[r].block]
    <2>1. DOMAIN f = Own /\ OneToOne(f)
      BY <1>1, OwnersAreApart DEF OneToOne
    <2>2. ValuesOf(f, DOMAIN f) = ownBlocks
      BY DEF ValuesOf
    <2> HIDE DEF f, ownBlocks
    <2> QED BY <1>3, <2>1, <2>2, AsMany
  <1>7. inTables \cap inCache = {} /\ (inTables \cup inCache) \cap ownBlocks = {}
    BY <1>1, OwnersAreApart
  <1>8. Cardinality(DOMAIN blocks) = Cardinality(DOMAIN tables) + Cardinality(DOMAIN cache) + Cardinality(Own)
    <2> HIDE DEF inTables, inCache, ownBlocks
    <2>1. IsFiniteSet(inTables \cup inCache) /\ Cardinality(inTables \cup inCache) = Cardinality(inTables) + Cardinality(inCache)
      BY <1>4, <1>5, <1>7, Together
    <2>2. Cardinality((inTables \cup inCache) \cup ownBlocks) = Cardinality(inTables \cup inCache) + Cardinality(ownBlocks)
      BY <1>6, <1>7, <2>1, Together
    <2> QED BY <1>2, <1>4, <1>5, <1>6, <2>1, <2>2
  <1>9. Buffers(owners) = BuffersOf(blocks, DOMAIN blocks) /\ filterBuffers = ValuesOf(FilterOf, DOMAIN FilterOf)
    <2>1. {x \in owners : blocks[x].owned} = owners
      OBVIOUS
    <2>2. Buffers(owners) = BuffersOf(blocks, DOMAIN blocks)
      BY <2>1 DEF Buffers, BuffersOf
    <2>3. DOMAIN FilterOf = filters /\ \A id \in filters : FilterOf[id] = tables[id].filter_data
      BY FiltersAreKnown DEF FiltersAre
    <2>4. filterBuffers = ValuesOf(FilterOf, DOMAIN FilterOf)
      <3> HIDE DEF filters
      <3> QED BY <2>3 DEF ValuesOf
    <2> QED BY <2>2, <2>4
  <1>10. heap = Buffers(owners) \cup filterBuffers
    BY <1>1, <1>9 DEF Sound
  <1>11. IsFiniteSet(Buffers(owners)) /\ Cardinality(Buffers(owners)) = Cardinality(owners)
    <2> DEFINE f == [b \in owners |-> blocks[b].data[2]]
    <2>1. DOMAIN f = owners /\ OneToOne(f)
      BY <1>1 DEF Sound, OneToOne
    <2>2. ValuesOf(f, DOMAIN f) = Buffers(owners)
      BY DEF ValuesOf, Buffers
    <2>3. IsFiniteSet(owners)
      BY <1>3, FS_Subset
    <2> HIDE DEF f, owners
    <2> QED BY <2>1, <2>2, <2>3, AsMany
  <1>12. IsFiniteSet(filterBuffers) /\ Cardinality(filterBuffers) = Cardinality(filters)
    <2>1. DOMAIN FilterOf = filters
      BY FiltersAreKnown DEF FiltersAre
    <2>2. IsFiniteSet(filters)
      BY <1>3, FS_Subset
    <2>3. OneToOne(FilterOf)
      BY <1>1 DEF Sound
    <2> HIDE DEF filters, filterBuffers
    <2> QED BY <1>9, <2>1, <2>2, <2>3, AsMany
  <1>13. Buffers(owners) \cap filterBuffers = {}
    BY <1>1, <1>9 DEF Sound, BuffersOf, ValuesOf
  <1>14. Cardinality(heap) = Cardinality(owners) + Cardinality(filters)
    <2> HIDE DEF filters, filterBuffers, owners
    <2> QED BY <1>10, <1>11, <1>12, <1>13, Together
  <1> QED BY <1>2, <1>8, <1>10, <1>14 DEF EverythingOwned, Own

-------------------------------------------------------------------------------
\* While tables are opened, evicted, replaced and read (Table::Open, Table::BlockReader,
\* TableCache::FindTable), nobody looks at a block, a filter or a mapped file that is gone; every
\* block and buffer belongs to one table, one entry of the cache or one iterator; nothing
\* stays that the caches have dropped and nobody uses.
THEOREM MemoryIsKept == Spec => []BlocksAreKept
  <1>1. BlockInv => BlocksAreKept
    BY NothingDangles, AllIsOwned DEF BlockInv, BlocksAreKept
  <1>2. Init => BlockInv
    BY BlockInvInit
  <1>3. BlockInv /\ [Next]_vars => BlockInv'
    BY BlockInvNext
  <1> QED BY <1>1, <1>2, <1>3, PTL DEF Spec

===============================================================================

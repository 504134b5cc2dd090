------------------------------- MODULE TableCache -------------------------------
(***************************************************************************)
(* The cache of open tables: TableCache (db/table_cache.cc) over one shard *)
(* of the LRU cache (util/cache.cc).  Threads look tables up, open them on *)
(* a miss without the lock of the cache, insert them and release them; the *)
(* background thread evicts tables whose files it removes.  The cells that *)
(* hold entries are allocated and freed, and used again.                   *)
(***************************************************************************)
EXTENDS Integers, Sequences, FiniteSets, FiniteSetsExt, SequencesExt

CONSTANTS
  Threads, Files,   \* readers; files, 1..n: a file is its own hash
  Handles,          \* cells for entries, 1..n
  Capacities,       \* the capacities of the shard to consider
  Charge,           \* [Files -> the charge of the entry]: 1 for tables
  MinLength         \* buckets of an empty hash table: 4 in the code

TableCacheAssumption ==
  /\ Files = 1..Cardinality(Files) /\ Handles = 1..Cardinality(Handles)
  /\ Capacities \subseteq Nat /\ Charge \in [Files -> Nat] /\ MinLength \in Nat \ {0}


VARIABLES
  capacity_,  \* the capacity of the shard
  cache,      \* the shard: entries, hash table, lists, usage
  reader,     \* [thread -> what it does, with which file and which handle]
  live,       \* files that are there
  closed      \* the cache was destroyed

vars == <<capacity_, cache, reader, live, closed>>

Free == [key |-> 0, refs |-> 0, in_cache |-> FALSE]
Idle == [pc |-> "idle", file |-> 0, handle |-> 0]

EmptyCache ==
  [entry |-> [h \in Handles |-> Free],
   list_ |-> [i \in 0..MinLength - 1 |-> <<>>],  \* buckets of handles
   elems_ |-> 0, usage_ |-> 0,
   lru_ |-> <<>>, in_use_ |-> {}]                \* oldest first; in no order

-------------------------------------------------------------------------------
(* HandleTable *)

length_(c) == Cardinality(DOMAIN c.list_)
Bucket(c, f) == f % length_(c)

\* FindPointer: where in its bucket the key is, or where it would be added.
FindPointer(c, f) ==
  LET chain == c.list_[Bucket(c, f)]
      places == {i \in DOMAIN chain : c.entry[chain[i]].key = f}
  IN  IF places = {} THEN Len(chain) + 1 ELSE Min(places)

\* HandleTable::Lookup; 0 if the key is not there
TableLookup(c, f) ==
  LET chain == c.list_[Bucket(c, f)]
      i == FindPointer(c, f)
  IN  IF i > Len(chain) THEN 0 ELSE chain[i]

\* Resize: the number of buckets doubles until there is one for every entry, and the
\* entries are put into them one after the other, in front.
Resize(c) ==
  LET lengths == {MinLength * 2^k : k \in 0..c.elems_}
      new_length == Min({n \in lengths : n >= c.elems_})
      all == FlattenSeq([i \in 1..length_(c) |-> c.list_[i - 1]])
  IN  [c EXCEPT !.list_ = [i \in 0..new_length - 1 |->
                             Reverse(SelectSeq(all, LAMBDA h : c.entry[h].key % new_length = i))]]

\* HandleTable::Insert: the new entry takes the place of the old one, if there is one.
TableInsert(c, h) ==
  LET f == c.entry[h].key
      i == FindPointer(c, f)
      chain == c.list_[Bucket(c, f)]
      new == [c EXCEPT !.list_[Bucket(c, f)] = IF i > Len(chain) THEN Append(chain, h) ELSE [chain EXCEPT ![i] = h]]
      grown == [new EXCEPT !.elems_ = @ + 1]
  IN  IF i <= Len(chain) THEN new
      ELSE IF grown.elems_ > length_(c) THEN Resize(grown) ELSE grown

\* HandleTable::Remove
TableRemove(c, f) ==
  LET i == FindPointer(c, f)
  IN  [c EXCEPT !.list_[Bucket(c, f)] = RemoveAt(@, i), !.elems_ = @ - 1]

-------------------------------------------------------------------------------
(* LRUCache *)

LRU_Remove(c, h) == [c EXCEPT !.lru_ = SelectSeq(@, LAMBDA x : x # h), !.in_use_ = @ \ {h}]

Ref(c, h) ==
  LET idle == c.entry[h].refs = 1 /\ c.entry[h].in_cache
      moved == IF idle THEN [LRU_Remove(c, h) EXCEPT !.in_use_ = @ \cup {h}] ELSE c
  IN  [moved EXCEPT !.entry[h].refs = @ + 1]

Unref(c, h) ==
  LET refs == c.entry[h].refs - 1
      less == [c EXCEPT !.entry[h].refs = refs]
  IN  IF refs = 0 THEN [c EXCEPT !.entry[h] = Free]   \* the deleter closes the table
      ELSE IF c.entry[h].in_cache /\ refs = 1 THEN [LRU_Remove(less, h) EXCEPT !.lru_ = Append(@, h)]
      ELSE less

\* Variant: the entry is freed although a thread uses it.
FinishEraseFreed(c, h) ==
  IF h = 0 THEN c
  ELSE [LRU_Remove(c, h) EXCEPT !.entry[h] = Free, !.usage_ = @ - Charge[c.entry[h].key]]

\* FinishErase: the entry h, already out of the hash table, leaves the cache.
FinishErase(c, h) ==
  IF h = 0 THEN c
  ELSE Unref([LRU_Remove(c, h) EXCEPT !.entry[h].in_cache = FALSE, !.usage_ = @ - Charge[c.entry[h].key]], h)

EraseEntry(c, f) ==
  LET h == TableLookup(c, f)
  IN  IF h = 0 THEN c ELSE FinishErase(TableRemove(c, f), h)

\* The loops of Insert and Prune: the oldest entries go while the usage is above a limit.
EvictDownTo(c, limit) ==
  LET after[n \in 0..Cardinality(Handles)] ==
        IF n = 0 THEN c
        ELSE LET d == after[n - 1]
             IN  IF d.usage_ > limit /\ d.lru_ # <<>> THEN EraseEntry(d, d.entry[Head(d.lru_)].key) ELSE d
  IN  after[Cardinality(Handles)]

\* The part of Insert for a cache that has a capacity.
Cached(c, h) ==
  LET f == c.entry[h].key
      new == [c EXCEPT !.entry[h].refs = 2, !.entry[h].in_cache = TRUE, !.in_use_ = @ \cup {h}, !.usage_ = @ + Charge[f]]
  IN  FinishErase(TableInsert(new, h), TableLookup(c, f))

\* LRUCache::Insert, of file f into the free cell h
InsertEntry(c, h, f) ==
  LET made == [c EXCEPT !.entry[h] = [key |-> f, refs |-> 1, in_cache |-> FALSE]]
  IN  EvictDownTo(IF capacity_ > 0 THEN Cached(made, h) ELSE made, capacity_)

-------------------------------------------------------------------------------
(* TableCache *)

Init ==
  /\ capacity_ \in Capacities /\ cache = EmptyCache
  /\ reader = [t \in Threads |-> Idle] /\ live = Files /\ closed = FALSE

\* FindTable: the table is in the cache, or the thread begins to open it.  Files that are
\* being read are not removed: a version refers to them.
FindTable(t, f) ==
  LET h == TableLookup(cache, f) IN
  /\ ~closed /\ reader[t].pc = "idle" /\ f \in live
  /\ IF h # 0
     THEN reader' = [reader EXCEPT ![t] = [pc |-> "using", file |-> f, handle |-> h]] /\ cache' = Ref(cache, h)
     ELSE reader' = [reader EXCEPT ![t] = [pc |-> "opening", file |-> f, handle |-> 0]] /\ UNCHANGED cache
  /\ UNCHANGED <<capacity_, live, closed>>

\* The table cannot be opened: "We do not cache error results".
OpenFails(t) ==
  /\ reader[t].pc = "opening"
  /\ reader' = [reader EXCEPT ![t] = Idle]
  /\ UNCHANGED <<capacity_, cache, live, closed>>

\* The table is open and is inserted: another thread may have inserted it meanwhile.
InsertTable(t) ==
  LET f == reader[t].file
      h == Min({x \in Handles : cache.entry[x] = Free}) IN
  /\ reader[t].pc = "opening"
  /\ cache' = InsertEntry(cache, h, f)
  /\ reader' = [reader EXCEPT ![t] = [pc |-> "using", file |-> f, handle |-> h]]
  /\ UNCHANGED <<capacity_, live, closed>>

\* UnrefEntry, and the end of Get
Release(t) ==
  /\ reader[t].pc = "using"
  /\ cache' = Unref(cache, reader[t].handle)
  /\ reader' = [reader EXCEPT ![t] = Idle]
  /\ UNCHANGED <<capacity_, live, closed>>

\* Evict, when no version refers to the file any more; the file is then removed.
Evict(f) ==
  /\ ~closed /\ f \in live /\ \A t \in Threads : reader[t].file # f
  /\ cache' = EraseEntry(cache, f) /\ live' = live \ {f}
  /\ UNCHANGED <<capacity_, reader, closed>>

Prune ==
  /\ ~closed /\ cache.lru_ # <<>>
  /\ cache' = EvictDownTo(cache, -1)
  /\ UNCHANGED <<capacity_, reader, live, closed>>

\* ~LRUCache: the entries of the LRU list lose their last reference.
Close ==
  /\ ~closed /\ \A t \in Threads : reader[t] = Idle
  /\ closed' = TRUE
  /\ cache' = [cache EXCEPT !.entry = [h \in Handles |-> IF h \in ToSet(cache.lru_) THEN Free ELSE @[h]]]
  /\ UNCHANGED <<capacity_, reader, live>>

Next ==
  \/ \E t \in Threads : (\E f \in Files : FindTable(t, f)) \/ OpenFails(t) \/ InsertTable(t) \/ Release(t)
  \/ (\E f \in Files : Evict(f)) \/ Prune \/ Close

Spec == Init /\ [][Next]_vars

-------------------------------------------------------------------------------
(* Properties *)

TypeOK ==
  /\ cache.entry \in [Handles -> [key : Files \cup {0}, refs : 0..Cardinality(Threads) + 1, in_cache : BOOLEAN]]
  /\ DOMAIN cache.list_ = 0..length_(cache) - 1
  /\ cache.usage_ \in Nat /\ cache.elems_ \in 0..Cardinality(Handles)
  /\ reader \in [Threads -> [pc : {"idle", "opening", "using"}, file : Files \cup {0}, handle : Handles \cup {0}]]

InCache == {h \in Handles : cache.entry[h].in_cache}
Users(h) == {t \in Threads : reader[t].handle = h}

\* A table that a thread uses is open and is the table of its file, whatever was inserted,
\* evicted or pruned since the thread looked it up.
UsedTablesAreOpen ==
  \A t \in Threads : reader[t].pc = "using" => cache.entry[reader[t].handle].key = reader[t].file

\* The two lists hold what the comments say: "Entries have refs==1 and in_cache==true",
\* "refs >= 2 and in_cache==true"; entries that were erased are only kept by their users.
ListsAreRight ==
  ~closed => /\ \A h \in Handles : cache.entry[h].refs = Cardinality(Users(h)) + (IF h \in InCache THEN 1 ELSE 0)
             /\ ToSet(cache.lru_) = {h \in InCache : Users(h) = {}} /\ IsInjective(cache.lru_)
             /\ cache.in_use_ = {h \in InCache : Users(h) # {}}

\* The hash table finds exactly the entries in the cache, one for each key, after any
\* number of insertions, replacements, removals and changes of its length.
TableFindsCached ==
  ~closed => /\ \A f \in Files : LET h == TableLookup(cache, f)
                                 IN  {h} \ {0} = {x \in InCache : cache.entry[x].key = f}
             /\ cache.elems_ = Cardinality(InCache)

\* The usage is the charge of the entries in the cache.
UsageIsCharge ==
  ~closed => cache.usage_ = MapThenSumSet(LAMBDA h : Charge[cache.entry[h].key], InCache)

\* The file of a removed table is not kept open.
RemovedFilesAreClosed == \A h \in Handles : cache.entry[h].key \in live \cup {0}

\* When the cache is destroyed, every table is closed.
NothingLeaks == closed => \A h \in Handles : cache.entry[h] = Free

===============================================================================

----------------------------- MODULE BlockReader ------------------------------
(***************************************************************************)
(* Whose the memory of a block is: Table::Open and Table::BlockReader      *)
(* (table/table.cc) over ReadBlock (table/format.cc), for readers that     *)
(* share a table and the block cache.  A block lies in a buffer on the     *)
(* heap, or in the mapping of its file, which goes with the table; it      *)
(* belongs to an iterator or to the cache.  The caches are modelled by     *)
(* what TableCache shows of them.                                          *)
(***************************************************************************)
EXTENDS Integers, FiniteSets, Functions

CONSTANTS
  Readers,
  Offsets,     \* the data blocks of the table file
  MaxOpens,
  MaxMemory    \* buffers, blocks, and entries of the cache at the same time: no step takes one more

ASSUME BlockReaderAssumption == IsFiniteSet(Readers) /\ {MaxOpens, MaxMemory} \subseteq Nat \ {0}

VARIABLES
  heap,      \* the buffers that are allocated
  blocks,    \* the Block objects: where their data are, and whether they own them
  tables,    \* the open tables, by cache_id
  cached,    \* the one in the table cache, or None
  opens,     \* cache ids given so far
  cache,     \* the entries of the block cache
  reader,
  wild       \* something was freed that was not allocated

vars == <<heap, blocks, tables, cached, opens, cache, reader, wild>>

None == 0
Memory == 1..MaxMemory
Fresh(S) == CHOOSE x \in Memory : x \notin S
Extend(f, x, y) == [z \in DOMAIN f \cup {x} |-> IF z = x THEN y ELSE f[z]]
Remove(f, S) == Restrict(f, DOMAIN f \ S)

Idle == [pc |-> "idle", table |-> None, offset |-> None, block |-> None, handle |-> None]

Init ==
  /\ heap = {} /\ blocks = <<>> /\ tables = <<>> /\ cached = None /\ opens = 0 /\ cache = <<>>
  /\ reader = [r \in Readers |-> Idle] /\ wild = FALSE

-------------------------------------------------------------------------------
Failed == [ok |-> FALSE, data |-> <<"none", 0>>, heap_allocated |-> FALSE, cachable |-> FALSE]

\* ReadBlock: an error; the data where the mapping has them; or the buffer that was read
\* into, or the one for the uncompressed data.  All other buffers have been freed.
ReadBlock(id, mapped, h) ==
  {Failed}
    \cup (IF h # Memory THEN {[ok |-> TRUE, data |-> <<"heap", Fresh(h)>>, heap_allocated |-> TRUE, cachable |-> TRUE]} ELSE {})
    \cup (IF mapped THEN {[ok |-> TRUE, data |-> <<"map", id>>, heap_allocated |-> FALSE, cachable |-> FALSE]} ELSE {})

Allocated(c) == IF c.heap_allocated THEN {c.data[2]} ELSE {}

\* Block::~Block, for the blocks S
Buffers(S) == {blocks[b].data[2] : b \in {x \in S : blocks[x].owned}}
DeleteBlocks(S, rest) ==
  /\ wild' = (wild \/ ~(S \subseteq DOMAIN blocks) \/ ~(Buffers(S \cap DOMAIN blocks) \cup rest \subseteq heap))
  /\ blocks' = Remove(blocks, S)
  /\ heap' = heap \ (Buffers(S \cap DOMAIN blocks) \cup rest)

\* rep_->filter_data
FilterData(c) == IF c.heap_allocated THEN c.data[2] ELSE None

-------------------------------------------------------------------------------
\* TableCache::FindTable

Step(r, state) == reader' = [reader EXCEPT ![r] = state]

FindTable(r) ==
  /\ reader[r].pc = "idle"
  /\ Step(r, IF cached = None THEN [Idle EXCEPT !.pc = "open"] ELSE [Idle EXCEPT !.pc = "table", !.table = cached])
  /\ UNCHANGED <<heap, blocks, tables, cached, opens, cache, wild>>

\* The footer or the index cannot be read.
OpenFails(r) ==
  /\ reader[r].pc = "open" /\ Step(r, Idle)
  /\ UNCHANGED <<heap, blocks, tables, cached, opens, cache, wild>>

UsersOf(id) == {r \in Readers : reader[r].table = id}

\* Table::Open with ReadMeta and ReadFilter, whose errors are ignored, and the insertion into
\* the table cache.  A table that another reader has inserted meanwhile is replaced, and stays
\* open as long as it is used.
Open(r) ==
  /\ reader[r].pc = "open" /\ opens < MaxOpens /\ opens' = opens + 1 /\ DOMAIN blocks # Memory
  /\ \E mapped \in BOOLEAN :
     \E index \in ReadBlock(opens', mapped, heap) \ {Failed} :
     \E filter \in ReadBlock(opens', mapped, heap \cup Allocated(index)) :
       LET b == Fresh(DOMAIN blocks)
           closed == {id \in {cached} \ {None} : UsersOf(id) = {}}
           indexes == {tables[id].index : id \in closed}
           filters == {tables[id].filter_data : id \in closed} \ {None}
       IN  /\ blocks' = Extend(Remove(blocks, indexes), b, [data |-> index.data, owned |-> index.heap_allocated])
           /\ heap' = (heap \cup Allocated(index) \cup Allocated(filter)) \ (Buffers(indexes) \cup filters)
           /\ tables' = Extend(Remove(tables, closed), opens',
                               [mapped |-> mapped, index |-> b, filter_data |-> FilterData(filter), filter |-> filter.data])
  /\ cached' = opens' /\ Step(r, [Idle EXCEPT !.pc = "table", !.table = opens'])
  /\ UNCHANGED <<cache, wild>>

\* Table::Rep::~Rep, and the file is unmapped.
CloseTable(id) ==
  /\ DeleteBlocks({tables[id].index}, {tables[id].filter_data} \ {None})
  /\ tables' = Remove(tables, {id})

\* The reader is done with the table, which is closed if the table cache has dropped it.
EndTable(r) ==
  /\ reader[r].pc = "table" /\ Step(r, Idle)
  /\ IF cached # reader[r].table /\ UsersOf(reader[r].table) = {r} THEN CloseTable(reader[r].table)
     ELSE UNCHANGED <<heap, blocks, tables, wild>>
  /\ UNCHANGED <<cached, opens, cache>>

EvictTable ==
  /\ cached # None /\ cached' = None
  /\ IF UsersOf(cached) = {} THEN CloseTable(cached) ELSE UNCHANGED <<heap, blocks, tables, wild>>
  /\ UNCHANGED <<opens, cache, reader>>

-------------------------------------------------------------------------------
\* Table::BlockReader

Find(key) == {h \in DOMAIN cache : cache[h].in /\ cache[h].key = key}

Lookup(r, offset) ==
  /\ reader[r].pc = "table"
  /\ LET found == Find(<<reader[r].table, offset>>)
     IN  IF found = {} THEN Step(r, [reader[r] EXCEPT !.pc = "miss", !.offset = offset]) /\ UNCHANGED cache
         ELSE LET h == CHOOSE x \in found : TRUE
              IN  /\ Step(r, [reader[r] EXCEPT !.pc = "block", !.offset = offset, !.block = cache[h].block, !.handle = h])
                  /\ cache' = [cache EXCEPT ![h].refs = @ + 1]
  /\ UNCHANGED <<heap, blocks, tables, cached, opens, wild>>

\* An error iterator has nothing to clean up.
ReadFails(r) ==
  /\ reader[r].pc = "miss" /\ Step(r, [reader[r] EXCEPT !.pc = "table", !.offset = None])
  /\ UNCHANGED <<heap, blocks, tables, cached, opens, cache, wild>>

\* The block is the iterator's, if it may not be cached, or fill_cache is false.
ReadOwn(r) ==
  /\ reader[r].pc = "miss" /\ DOMAIN blocks # Memory
  /\ \E c \in ReadBlock(reader[r].table, tables[reader[r].table].mapped, heap) \ {Failed} :
       LET b == Fresh(DOMAIN blocks)
       IN  /\ heap' = heap \cup Allocated(c)
           /\ blocks' = Extend(blocks, b, [data |-> c.data, owned |-> c.heap_allocated])
           /\ Step(r, [reader[r] EXCEPT !.pc = "block", !.block = b])
  /\ UNCHANGED <<tables, cached, opens, cache, wild>>

\* The block goes into the cache; one with the same key that another reader has put there
\* leaves it, and is deleted if nobody uses it.
ReadAndInsert(r) ==
  /\ reader[r].pc = "miss" /\ DOMAIN blocks # Memory /\ DOMAIN cache # Memory
  /\ \E c \in {x \in ReadBlock(reader[r].table, tables[reader[r].table].mapped, heap) : x.cachable} :
       LET b == Fresh(DOMAIN blocks)
           h == Fresh(DOMAIN cache)
           key == <<reader[r].table, reader[r].offset>>
           old == Find(key)
           unused == {x \in old : cache[x].refs = 1}
           kept == [x \in DOMAIN cache \ unused |->
                      IF x \in old THEN [cache[x] EXCEPT !.in = FALSE, !.refs = @ - 1] ELSE cache[x]]
       IN  /\ cache' = Extend(kept, h, [key |-> key, block |-> b, refs |-> 2, in |-> TRUE])
           /\ heap' = (heap \cup Allocated(c)) \ Buffers({cache[x].block : x \in unused})
           /\ blocks' = Extend(Remove(blocks, {cache[x].block : x \in unused}), b,
                               [data |-> c.data, owned |-> c.heap_allocated])
           /\ Step(r, [reader[r] EXCEPT !.pc = "block", !.block = b, !.handle = h])
  /\ UNCHANGED <<tables, cached, opens, wild>>

\* The cleanup of the iterator: DeleteBlock, or ReleaseBlock
EndBlock(r) ==
  /\ reader[r].pc = "block" /\ Step(r, [reader[r] EXCEPT !.pc = "table", !.block = None, !.handle = None, !.offset = None])
  /\ LET h == reader[r].handle
     IN  IF h = None THEN DeleteBlocks({reader[r].block}, {}) /\ UNCHANGED cache
         ELSE IF cache[h].refs = 1 THEN DeleteBlocks({cache[h].block}, {}) /\ cache' = Remove(cache, {h})
         ELSE cache' = [cache EXCEPT ![h].refs = @ - 1] /\ UNCHANGED <<heap, blocks, wild>>
  /\ UNCHANGED <<tables, cached, opens>>

\* Variant: a block in use is not spared.
EvictBlockUsed ==
  /\ \E h \in DOMAIN cache : cache[h].in /\ DeleteBlocks({cache[h].block}, {}) /\ cache' = Remove(cache, {h})
  /\ UNCHANGED <<tables, cached, opens, reader>>

\* The cache makes room: DeleteCachedBlock.
EvictBlock ==
  /\ \E h \in DOMAIN cache :
       cache[h].in /\ cache[h].refs = 1 /\ DeleteBlocks({cache[h].block}, {}) /\ cache' = Remove(cache, {h})
  /\ UNCHANGED <<tables, cached, opens, reader>>

Next ==
  \/ EvictTable \/ EvictBlock
  \/ \E r \in Readers :
       \/ FindTable(r) \/ Open(r) \/ OpenFails(r) \/ EndTable(r)
       \/ (\E offset \in Offsets : Lookup(r, offset))
       \/ ReadFails(r) \/ ReadOwn(r) \/ ReadAndInsert(r) \/ EndBlock(r)

Spec == Init /\ [][Next]_vars

-------------------------------------------------------------------------------
Alive(data) == \/ data[1] = "none"
               \/ data[1] = "heap" /\ data[2] \in heap
               \/ data[1] = "map" /\ data[2] \in DOMAIN tables

\* What a reader may look at is there: the block of its iterator, the index and the filter of
\* its table, and the memory they are in, whoever evicts, replaces or closes what meanwhile.
NoDangling ==
  /\ ~wild
  /\ \A id \in DOMAIN tables : tables[id].index \in DOMAIN blocks /\ Alive(blocks[tables[id].index].data) /\ Alive(tables[id].filter)
  /\ \A r \in Readers :
       /\ reader[r].table # None => reader[r].table \in DOMAIN tables
       /\ reader[r].block # None => reader[r].block \in DOMAIN blocks /\ Alive(blocks[reader[r].block].data)

\* Every block belongs to one table, one entry of the cache, or one iterator; every buffer to one
\* block or is the filter of one table; nothing else is allocated.
EverythingOwned ==
  LET inTables == {tables[id].index : id \in DOMAIN tables}
      inCache == {cache[h].block : h \in DOMAIN cache}
      own == {r \in Readers : reader[r].block # None /\ reader[r].handle = None}
      filters == {id \in DOMAIN tables : tables[id].filter_data # None}
      owners == {b \in DOMAIN blocks : blocks[b].owned}
  IN  /\ DOMAIN blocks = inTables \cup inCache \cup {reader[r].block : r \in own}
      /\ Cardinality(DOMAIN blocks) = Cardinality(DOMAIN tables) + Cardinality(DOMAIN cache) + Cardinality(own)
      /\ heap = Buffers(owners) \cup {tables[id].filter_data : id \in filters}
      /\ Cardinality(heap) = Cardinality(owners) + Cardinality(filters)

\* Nothing stays open or allocated that the cache has dropped and nobody uses: a table that is
\* open is in the table cache or has a reader; an entry has a reference for each iterator on
\* it and one for the cache that holds it, and is deleted with the last.
NothingKept ==
  /\ \A id \in DOMAIN tables : id = cached \/ UsersOf(id) # {}
  /\ \A h \in DOMAIN cache :
       LET on == {r \in Readers : reader[r].handle = h}
       IN  cache[h].refs = Cardinality(on) + (IF cache[h].in THEN 1 ELSE 0) /\ cache[h].refs > 0

\* While tables are opened, evicted, replaced and read, and blocks are cached or not: nobody reads
\* what is gone, and all that is there has one owner, which frees it in time.
BlocksAreKept == NoDangling /\ EverythingOwned /\ NothingKept
===============================================================================

------------------------------ MODULE MCReading -------------------------------
(*****************************************************************************)
(* What a read goes through, for TLC: memtables, blocks, tables, filters,    *)
(* the caches, and the iterator of the database.                             *)
(*                                                                           *)
(* A behaviour is one of one part.  In one part two readers share the blocks *)
(* of tables, with the constants of the configuration.  In the others these  *)
(* stay as they were, and a part keeps the variables of its module in the    *)
(* first of v1, v2, ... and leaves the rest alone.                           *)
(*****************************************************************************)
EXTENDS BlockReader

CONSTANTS t1, t2, t3

\* Keys of entries and user keys, as sequences of bytes
SomeKeys  == {<<>>, <<1>>, <<1, 1>>, <<1, 2>>, <<2>>}
SomeUsers == {<<0>>, <<0, 2>>, <<2>>, <<2, 1>>}

VARIABLES part, v1, v2, v3, v4, v5, v6, v7, v8, v9, v10, v11, v12, v13, v14

-------------------------------------------------------------------------------
Tables == INSTANCE Table WITH Users <- SomeUsers, MaxByte <- 2, Sequences_ <- {1, 2},
    MaxEntries <- 4, Sizes <- {1, 3}, FilterBase <- 2, Faults <- FALSE, phase <- v1, entries <- v2,
    data_block <- v3, last_key <- v4, pending_index_entry <- v5, offset <- v6, status <- v7,
    file <- v8, index <- v9, filters <- v10, keys_ <- v11, bad <- v12, two <- v13, at <- v14
FaultyTables == INSTANCE Table WITH Users <- SomeUsers, MaxByte <- 2, Sequences_ <- {1, 2},
    MaxEntries <- 4, Sizes <- {3}, FilterBase <- 2, Faults <- TRUE, phase <- v1, entries <- v2,
    data_block <- v3, last_key <- v4, pending_index_entry <- v5, offset <- v6, status <- v7,
    file <- v8, index <- v9, filters <- v10, keys_ <- v11, bad <- v12, two <- v13, at <- v14
Blocks == INSTANCE Block WITH Keys <- SomeKeys, Intervals <- {1, 2}, MaxBlocks <- 2, interval <- v1,
    buffer_ <- v2, restarts_ <- v3, counter_ <- v4, last_key_ <- v5, added <- v6, blocks <- v7,
    data <- v8, it <- v9, at <- v10
TablesCached == INSTANCE TableCache WITH Threads <- {t1, t2, t3}, Files <- 1..3, Handles <- 1..5,
    Capacities <- {0, 2}, Charge <- [f \in 1..3 |-> 1], MinLength <- 1, capacity_ <- v1, cache <- v2,
    reader <- v3, live <- v4, closed <- v5
BlocksCached == INSTANCE TableCache WITH Threads <- {t1, t2}, Files <- 1..4, Handles <- 1..6,
    Capacities <- {4}, Charge <- [f \in 1..4 |-> f], MinLength <- 1, capacity_ <- v1, cache <- v2,
    reader <- v3, live <- v4, closed <- v5
Filters == INSTANCE Bloom WITH HashBits <- 6, Rotate <- 4, ByteBits <- 4, MinBits <- 8,
    MaxProbes <- 5, BitsPerKey <- {0, 1, 5, 10}, MaxKeys <- 3, bits_per_key <- v1, n <- v2,
    left <- v3, keys <- v4, filter <- v5
Pieces == INSTANCE Arena WITH BlockSize <- 16, Align <- 4, MaxBytes <- 9, MaxBlocks <- 4,
    blocks <- v1, block <- v2, ptr <- v3, remaining <- v4, last <- v5, top <- v6
Iterator == INSTANCE DBIter WITH Keys <- {1, 2}, MaxSequence <- 4, sequence_ <- 3,
    Children <- {1, 2}, data <- v1, written <- v2, iter_ <- v3, direction_ <- v4, valid_ <- v5,
    saved_key_ <- v6, saved_value_ <- v7, pc <- v8, skip <- v9, at <- v10

ASSUME TableAssumption == Tables!TableAssumption /\ FaultyTables!TableAssumption /\ Blocks!BlockAssumption
ASSUME CacheAssumption ==
  TablesCached!TableCacheAssumption /\ BlocksCached!TableCacheAssumption
ASSUME MemoryAssumption == Filters!BloomAssumption /\ Pieces!ArenaAssumption /\ Iterator!DBIterAssumption

-------------------------------------------------------------------------------
\* The variables that the part does not need
after5 == <<v6, v7, v8, v9, v10, v11, v12, v13, v14>>
after6 == <<v7, v8, v9, v10, v11, v12, v13, v14>>
after0 == <<v1, v2, v3, v4, v5, after5>>
after10 == <<v11, v12, v13, v14>>
allVars == <<vars, part, after0>>

Unused5 == v6 = 0 /\ v7 = 0 /\ v8 = 0 /\ v9 = 0 /\ v10 = 0 /\ v11 = 0 /\ v12 = 0 /\ v13 = 0 /\ v14 = 0
Unused6 == v7 = 0 /\ v8 = 0 /\ v9 = 0 /\ v10 = 0 /\ v11 = 0 /\ v12 = 0 /\ v13 = 0 /\ v14 = 0
Unused0 == v1 = 0 /\ v2 = 0 /\ v3 = 0 /\ v4 = 0 /\ v5 = 0 /\ Unused5
Unused10 == v11 = 0 /\ v12 = 0 /\ v13 = 0 /\ v14 = 0

PartsInit ==
  \/ part = "table" /\ Init /\ Tables!Init
  \/ part = "table_faults" /\ Init /\ FaultyTables!Init
  \/ part = "block" /\ Init /\ Blocks!Init /\ Unused10
  \/ part = "block_reader" /\ Init /\ Unused0
  \/ part = "tables_cached" /\ Init /\ TablesCached!Init /\ Unused5
  \/ part = "blocks_cached" /\ Init /\ BlocksCached!Init /\ Unused5
  \/ part = "bloom" /\ Init /\ Filters!Init /\ Unused5
  \/ part = "arena" /\ Init /\ Pieces!Init /\ Unused6
  \/ part = "iterator" /\ Init /\ Iterator!Init /\ Unused10

PartsNext ==
  \/ part = "table" /\ Tables!Next /\ UNCHANGED <<part, vars>>
  \/ part = "table_faults" /\ FaultyTables!Next /\ UNCHANGED <<part, vars>>
  \/ part = "block" /\ Blocks!Next /\ UNCHANGED <<part, vars, after10>>
  \/ part = "block_reader" /\ Next /\ UNCHANGED <<part, after0>>
  \/ part = "tables_cached" /\ TablesCached!Next /\ UNCHANGED <<part, vars, after5>>
  \/ part = "blocks_cached" /\ BlocksCached!Next /\ UNCHANGED <<part, vars, after5>>
  \/ part = "bloom" /\ Filters!Next /\ UNCHANGED <<part, vars, after5>>
  \/ part = "arena" /\ Pieces!Next /\ UNCHANGED <<part, vars, after6>>
  \/ part = "iterator" /\ Iterator!Steps /\ UNCHANGED <<part, vars, after10>>

PartsSpec == PartsInit /\ [][PartsNext]_allVars

-------------------------------------------------------------------------------
\* A table that was finished holds every entry that was added. A get in it finds the
\* newest entry of its key, an iterator is where a walk over the entries would be, and so
\* is the iterator of a block with shortened keys, for every restart interval; a filter
\* never rules out a key that was put in.
EntriesAreFound ==
  /\ part = "table" => Tables!TypeOK /\ Tables!CompleteHasAll /\ Tables!GetIsRight /\ Tables!IteratorIsRight
  /\ part = "table_faults" => FaultyTables!TypeOK /\ FaultyTables!CompleteHasAll /\ FaultyTables!GetIsRight /\ FaultyTables!IteratorIsRight
  /\ part = "block" => Blocks!TypeOK /\ Blocks!IterIsRight
  /\ part = "bloom" => Filters!NoFalseNegatives

\* A walk that passes over entries it cannot read reports an error.
SkippedIsReported == [][part = "table_faults" => FaultyTables!ReportsSkipped]_allVars

\* Three threads look up, insert, evict and release: a table in use is open, a handle is
\* on the list that its references say, the hash table finds exactly what is cached,
\* usage_ is what the cached tables are charged, a table that was evicted is closed by
\* its last user, and a cache that is deleted keeps nothing.
CacheIsSound ==
  /\ part = "tables_cached" => TablesCached!TypeOK /\ TablesCached!UsedTablesAreOpen /\ TablesCached!ListsAreRight /\ TablesCached!TableFindsCached /\ TablesCached!UsageIsCharge /\ TablesCached!NothingLeaks
  /\ part = "blocks_cached" => BlocksCached!TypeOK /\ BlocksCached!UsedTablesAreOpen /\ BlocksCached!ListsAreRight /\ BlocksCached!TableFindsCached /\ BlocksCached!UsageIsCharge /\ BlocksCached!NothingLeaks
  /\ part = "tables_cached" => TablesCached!RemovedFilesAreClosed

\* What is handed out lies inside its block, is aligned where that was asked for, and overlaps
\* nothing that has been handed out before.
PieceIsNew == [][part = "arena" => Pieces!NewPiece]_allVars

\* An iterator of the database is at the entry, or at the end, where a walk over the keys
\* that its snapshot can see would be, after every Seek, Next and Prev and every change
\* of direction, whatever was written meanwhile; going backwards, it stands before every
\* entry of its key.
IteratorIsRight ==
  part = "iterator" => Iterator!TypeOK /\ Iterator!ReversePosition /\ Iterator!IteratorIsRight

===============================================================================

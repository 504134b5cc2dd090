---------------------------------- MODULE Table ----------------------------------
(***************************************************************************)
(* A leveldb table: TableBuilder and FilterBlockBuilder write it, Table    *)
(* and TwoLevelIterator read it (table/table_builder.cc, filter_block.cc,  *)
(* table.cc, two_level_iterator.cc).  The index holds shortened keys that  *)
(* lie between two blocks; filters belong to ranges of offsets, not to     *)
(* blocks.  Writes may fail, and so may reads of some blocks.  Sizes are   *)
(* counted in units; a block is a sequence of keys (Block shows why).      *)
(***************************************************************************)
EXTENDS Integers, Sequences, FiniteSets, FiniteSetsExt, SequencesExt

CONSTANTS
  Users,        \* user keys: sequences of bytes
  MaxByte,      \* the largest byte, 255 in the code
  Sequences_,   \* sequence numbers of entries
  MaxEntries,   \* entries in a table
  Sizes,        \* sizes that a block may have
  FilterBase,   \* units of data for each filter
  Faults        \* whether writes and reads may fail

TableAssumption ==
  /\ \A u \in Users : \A i \in DOMAIN u : u[i] \in 0..MaxByte
  /\ Sequences_ \subseteq Nat \ {0} /\ MaxEntries \in Nat
  /\ Sizes \subseteq Nat \ {0} /\ FilterBase \in Nat \ {0} /\ Faults \in BOOLEAN

VARIABLES
  phase,         \* "build", "read", or "failed"
  entries,       \* the keys that were added
  data_block, last_key, pending_index_entry, offset, status,   \* TableBuilder::Rep
  file,          \* the data blocks: [offset, keys]
  index,         \* the index block: [key, the number of the block]
  filters, keys_,\* the filters made, and the user keys for the next one
  bad,           \* blocks that cannot be read
  two,           \* the TwoLevelIterator
  at             \* the index in entries where the caller expects it, 0 if nowhere

rep == <<entries, data_block, last_key, pending_index_entry, offset, status, file, index, filters, keys_>>
vars == <<phase, rep, bad, two, at>>

Key(u, s) == [user |-> u, seq |-> s]
InternalKeys == {Key(u, s) : u \in Users, s \in Sequences_}
kMaxSequenceNumber == Max(Sequences_) + 1

-------------------------------------------------------------------------------
(* Comparators *)

Less(a, b) ==
  \/ Len(a) < Len(b) /\ IsPrefix(a, b)
  \/ \E i \in DOMAIN a \cap DOMAIN b : a[i] < b[i] /\ SubSeq(a, 1, i - 1) = SubSeq(b, 1, i - 1)
Before(a, b) == Less(a.user, b.user) \/ (a.user = b.user /\ a.seq > b.seq)

\* BytewiseComparatorImpl::FindShortestSeparator
ShortestSeparator(start, bound) ==
  LET differ == {i \in DOMAIN start \cap DOMAIN bound : start[i] # bound[i]}
      i == Min(differ)
  IN  IF differ # {} /\ start[i] < MaxByte /\ start[i] + 1 < bound[i]
      THEN Append(SubSeq(start, 1, i - 1), start[i] + 1) ELSE start

\* BytewiseComparatorImpl::FindShortSuccessor
ShortSuccessor(key) ==
  LET small == {i \in DOMAIN key : key[i] # MaxByte}
  IN  IF small = {} THEN key ELSE Append(SubSeq(key, 1, Min(small) - 1), key[Min(small)] + 1)

\* InternalKeyComparator: the shortened user key with the earliest sequence number, if it
\* is shorter and larger.
WithUser(key, user) ==
  IF Len(user) < Len(key.user) /\ Less(key.user, user) THEN Key(user, kMaxSequenceNumber) ELSE key
FindShortestSeparator(start, bound) == WithUser(start, ShortestSeparator(start.user, bound.user))
FindShortSuccessor(key) == WithUser(key, ShortSuccessor(key.user))

-------------------------------------------------------------------------------
(* TableBuilder *)

NoIterator == [index |-> 0, block |-> 0, pos |-> 0, saved |-> "ok"]

Init ==
  /\ phase = "build" /\ entries = <<>> /\ data_block = <<>> /\ last_key = <<>>
  /\ pending_index_entry = FALSE /\ offset = 0 /\ status = "ok"
  /\ file = <<>> /\ index = <<>> /\ filters = <<>> /\ keys_ = {}
  /\ bad = {} /\ two = NoIterator /\ at = 0

\* Variant: a filter for every block.
StartBlockEach(block_offset, generated, pending) ==
  IF pending = {} THEN [filters |-> generated, keys |-> {}]
  ELSE [filters |-> Append(generated, pending), keys |-> {}]

\* FilterBlockBuilder::StartBlock: filters are made up to the one of the offset; the keys
\* go into the first.
StartBlock(block_offset, generated, pending) ==
  LET missing == block_offset \div FilterBase - Len(generated)
  IN  IF missing <= 0 THEN [filters |-> generated, keys |-> pending]
      ELSE [filters |-> generated \o [i \in 1..missing |-> IF i = 1 THEN pending ELSE {}], keys |-> {}]

\* FilterBlockBuilder::Finish
FinishFilter(generated, pending) == IF pending = {} THEN generated ELSE Append(generated, pending)

\* The append of a block, with its trailer, succeeds or not.
Appends == IF Faults THEN {"ok", "error"} ELSE {"ok"}

\* Flush, of a block that is not empty: WriteBlock, and the next block starts.
Flush(block, pending) ==
  \E s \in Appends, n \in Sizes :
    /\ file' = IF s = "ok" THEN Append(file, [offset |-> offset, keys |-> block]) ELSE file
    /\ offset' = IF s = "ok" THEN offset + n ELSE offset
    /\ status' = s /\ pending_index_entry' = (s = "ok") /\ data_block' = <<>>
    /\ LET started == StartBlock(offset', filters, pending)
       IN  filters' = started.filters /\ keys_' = started.keys

\* Add; the block is flushed when it is large enough.
Add(k) ==
  LET block == Append(data_block, k)
      pending == keys_ \cup {k.user} IN
  /\ phase = "build" /\ status = "ok" /\ Len(entries) < MaxEntries
  /\ entries # <<>> => Before(Last(entries), k)
  /\ entries' = Append(entries, k) /\ last_key' = k
  /\ index' = IF pending_index_entry
              THEN Append(index, [key |-> FindShortestSeparator(last_key, k), block |-> Len(file)])
              ELSE index
  /\ \/ Flush(block, pending)
     \/ /\ data_block' = block /\ keys_' = pending /\ pending_index_entry' = FALSE
        /\ UNCHANGED <<offset, status, file, filters>>
  /\ UNCHANGED <<phase, bad, two, at>>

\* Finish, when the last block has been flushed: the filter block, the index block and the
\* footer.  Some blocks of a table that was written well may not be readable later.
FinishBlocks ==
  /\ phase = "build" /\ status = "ok" /\ data_block = <<>>
  /\ \E s \in Appends : phase' = IF s = "ok" THEN "read" ELSE "failed"
  /\ filters' = FinishFilter(filters, keys_) /\ keys_' = {}
  /\ index' = IF pending_index_entry
              THEN Append(index, [key |-> FindShortSuccessor(last_key), block |-> Len(file)]) ELSE index
  /\ pending_index_entry' = FALSE
  /\ IF Faults THEN \E b \in DOMAIN file \cup {0} : bad' = {b} \ {0} ELSE bad' = {}
  /\ UNCHANGED <<entries, data_block, last_key, offset, status, file, two, at>>

\* Finish begins with Flush.
FinishFlush ==
  /\ phase = "build" /\ status = "ok" /\ data_block # <<>>
  /\ Flush(data_block, keys_)
  /\ UNCHANGED <<phase, entries, last_key, index, bad, two, at>>

\* Add and Finish after an error do nothing, and Finish returns it.
FinishFailed ==
  /\ phase = "build" /\ status # "ok"
  /\ phase' = "failed"
  /\ UNCHANGED <<rep, bad, two, at>>

-------------------------------------------------------------------------------
(* Table *)

\* The index of the first key from k on in a sequence of keys, 0 if there is none
SeekIn(keys, k) ==
  LET from == {i \in DOMAIN keys : ~Before(keys[i], k)} IN IF from = {} THEN 0 ELSE Min(from)
IndexSeek(k) == SeekIn([i \in DOMAIN index |-> index[i].key], k)

\* FilterBlockReader::KeyMayMatch; a filter may also match a key it was not made of.
KeyMayMatch(block_offset, user, by_chance) ==
  LET i == block_offset \div FilterBase + 1
  IN  i \in DOMAIN filters => user \in filters[i] \/ (by_chance /\ filters[i] # {})

\* InternalGet: what is handed to handle_result, and the status
InternalGet(k, by_chance) ==
  LET i == IndexSeek(k)
      b == index[i].block
      pos == SeekIn(file[b].keys, k)
      nothing == [found |-> {}, status |-> "ok"]
  IN  IF i = 0 \/ ~KeyMayMatch(file[b].offset, k.user, by_chance) THEN nothing
      ELSE IF b \in bad THEN [nothing EXCEPT !.status = "error"]
      ELSE [nothing EXCEPT !.found = IF pos = 0 THEN {} ELSE {file[b].keys[pos]}]

-------------------------------------------------------------------------------
(* TwoLevelIterator, as functions of the iterator t.  block is 0 if data_iter_ is null. *)

Valid(t) == t.block # 0 /\ t.pos # 0
DataStatus(t) == IF t.block # 0 /\ t.block \in bad THEN "error" ELSE "ok"
StatusOf(t) == IF DataStatus(t) # "ok" THEN DataStatus(t) ELSE t.saved

\* Variant: the status of the old data iterator is lost.
SetDataIteratorLossy(t, b) == [t EXCEPT !.block = b, !.pos = 0]

SetDataIterator(t, b) ==
  [t EXCEPT !.saved = IF @ = "ok" THEN DataStatus(t) ELSE @, !.block = b, !.pos = 0]

\* A block is read again only if the handle changed.
InitDataBlock(t) ==
  IF t.index = 0 THEN SetDataIterator(t, 0)
  ELSE IF t.block = index[t.index].block THEN t
  ELSE SetDataIterator(t, index[t.index].block)

\* The data iterator moves to a position; in a block that cannot be read there is none.
DataKeys(t) == IF t.block = 0 \/ t.block \in bad THEN <<>> ELSE file[t.block].keys
DataTo(t, pos) == IF DataKeys(t) = <<>> THEN t ELSE [t EXCEPT !.pos = pos]
First(keys) == IF keys = <<>> THEN 0 ELSE 1
ToFirst(t) == DataTo(t, First(DataKeys(t)))
ToLast(t) == DataTo(t, Len(DataKeys(t)))

IndexNext(i) == IF i = Len(index) THEN 0 ELSE i + 1

\* SkipEmptyDataBlocksForward and SkipEmptyDataBlocksBackward
SkipForward(t) ==
  LET after[n \in 0..Len(index) + 1] ==
        LET u == after[n - 1] IN
        IF n = 0 THEN t
        ELSE IF Valid(u) THEN u
        ELSE IF u.index = 0 THEN SetDataIterator(u, 0)
        ELSE ToFirst(InitDataBlock([u EXCEPT !.index = IndexNext(u.index)]))
  IN  after[Len(index) + 1]
SkipBackward(t) ==
  LET after[n \in 0..Len(index) + 1] ==
        LET u == after[n - 1] IN
        IF n = 0 THEN t
        ELSE IF Valid(u) THEN u
        ELSE IF u.index = 0 THEN SetDataIterator(u, 0)
        ELSE ToLast(InitDataBlock([u EXCEPT !.index = u.index - 1]))
  IN  after[Len(index) + 1]

-------------------------------------------------------------------------------
(* The calls.  The caller expects a walk over the entries of the readable blocks. *)

Readable == {i \in DOMAIN entries : \E b \in DOMAIN file \ bad : entries[i] \in ToSet(file[b].keys)}
FirstAt(S) == IF S = {} THEN 0 ELSE Min(S)
LastAt(S) == IF S = {} THEN 0 ELSE Max(S)

Moved(t, expected) ==
  /\ phase = "read" /\ two' = t /\ at' = expected
  /\ UNCHANGED <<phase, rep, bad>>

Seek(k) ==
  LET t == InitDataBlock([two EXCEPT !.index = IndexSeek(k)])
  IN  Moved(SkipForward(DataTo(t, SeekIn(DataKeys(t), k))),
            FirstAt({i \in Readable : ~Before(entries[i], k)}))
SeekToFirst ==
  Moved(SkipForward(ToFirst(InitDataBlock([two EXCEPT !.index = First(index)]))), FirstAt(Readable))
SeekToLast ==
  Moved(SkipBackward(ToLast(InitDataBlock([two EXCEPT !.index = Len(index)]))), LastAt(Readable))
NextKey ==
  /\ Valid(two)
  /\ Moved(SkipForward(DataTo(two, IF two.pos = Len(DataKeys(two)) THEN 0 ELSE two.pos + 1)),
           FirstAt({i \in Readable : i > at}))
Prev ==
  /\ Valid(two)
  /\ Moved(SkipBackward(DataTo(two, two.pos - 1)), LastAt({i \in Readable : i < at}))

Next ==
  \/ (\E k \in InternalKeys : Add(k)) \/ FinishFlush \/ FinishBlocks \/ FinishFailed
  \/ (\E k \in InternalKeys : Seek(k)) \/ SeekToFirst \/ SeekToLast \/ NextKey \/ Prev

Spec == Init /\ [][Next]_vars

-------------------------------------------------------------------------------
(* Properties *)

TypeOK ==
  /\ phase \in {"build", "read", "failed"} /\ status \in {"ok", "error"}
  /\ offset \in Nat /\ Len(file) <= Len(entries)
  /\ two.index \in 0..Len(index) /\ two.block \in 0..Len(file) /\ at \in 0..Len(entries)

\* Lookups find the newest entry of a key that is not newer than asked for, whatever the
\* filters and the shortened keys of the index are, or report that a block cannot be read.
GetIsRight ==
  phase = "read" =>
    \A k \in InternalKeys, by_chance \in BOOLEAN :
      LET got == InternalGet(k, by_chance)
          mine == {e \in ToSet(entries) : e.user = k.user /\ e.seq <= k.seq}
          best == {e \in mine : \A d \in mine : d.seq <= e.seq}
      IN  got.status = "ok" => {e \in got.found : e.user = k.user} = best

\* The iterator is where a walk over the entries of the blocks that can be read would be.
IteratorIsRight ==
  phase = "read" => /\ Valid(two) <=> at # 0
                    /\ at # 0 => file[two.block].keys[two.pos] = entries[at]

ReportsSkipped ==
  \A i \in DOMAIN entries \ Readable :
    \/ NextKey /\ at < i /\ (at' > i \/ at' = 0)
    \/ Prev /\ at > i /\ at' < i
    => StatusOf(two') = "error"

\* A walk that passes over entries it cannot read reports an error.
SkippedIsReported == [][ReportsSkipped]_vars

\* A table that is complete holds every entry that was added, in its blocks and its index.
CompleteHasAll ==
  phase = "read" => /\ FlattenSeq([b \in DOMAIN file |-> file[b].keys]) = entries
                    /\ Len(index) = Len(file)

===============================================================================

---------------------------------- MODULE Block ----------------------------------
(***************************************************************************)
(* A block of a leveldb table: BlockBuilder (table/block_builder.cc) and   *)
(* Block::Iter (table/block.cc).  Keys share prefixes with the key before  *)
(* them, except at restart points, so that an iterator only knows a key if *)
(* it came from a restart point and read every entry in between.  Offsets  *)
(* are counted in entries; a block may be damaged after it was written.    *)
(***************************************************************************)
EXTENDS Integers, Sequences, FiniteSets, FiniteSetsExt, SequencesExt

CONSTANTS
  Keys,        \* keys: sequences of bytes
  Intervals,   \* the values of block_restart_interval to consider
  MaxBlocks    \* blocks made with one builder

BlockAssumption ==
  /\ IsFiniteSet(Keys) /\ \A k \in Keys : \A i \in DOMAIN k : k[i] \in 0..255
  /\ Intervals \subseteq Nat \ {0} /\ MaxBlocks \in Nat

VARIABLES
  interval,                                \* block_restart_interval
  buffer_, restarts_, counter_, last_key_, \* the builder
  added,     \* the keys added since the last Reset
  blocks,    \* the number of blocks finished
  data,      \* the block that was written last: entries, restart points, its keys
  it,        \* the iterator over it
  at         \* the index of the key where the caller expects it, 0 if nowhere

builder == <<buffer_, restarts_, counter_, last_key_, added, blocks>>
vars == <<interval, builder, data, it, at>>

\* BytewiseComparator: whether a comes before b
Less(a, b) ==
  \/ Len(a) < Len(b) /\ IsPrefix(a, b)
  \/ \E i \in DOMAIN a \cap DOMAIN b : a[i] < b[i] /\ SubSeq(a, 1, i - 1) = SubSeq(b, 1, i - 1)

-------------------------------------------------------------------------------
(* BlockBuilder *)

NoBlock == [entries |-> <<>>, restarts |-> <<1>>, keys |-> <<>>]
Fresh(d) ==
  [current_ |-> Len(d.entries) + 1, restart_index_ |-> Len(d.restarts) + 1, key_ |-> <<>>,
   end |-> 1, ok |-> TRUE]   \* end is NextEntryOffset, ok is status_

Init ==
  /\ interval \in Intervals
  /\ buffer_ = <<>> /\ restarts_ = <<1>> /\ counter_ = 0 /\ last_key_ = <<>> /\ added = <<>>
  /\ blocks = 0 /\ data = NoBlock /\ it = Fresh(NoBlock) /\ at = 0

\* A table is read when it is complete: the builder does not work under an iterator.
Building == blocks < MaxBlocks /\ it = Fresh(data)

\* The length of the prefix that two keys share
Shared(a, b) == Max({n \in 0..Min({Len(a), Len(b)}) : SubSeq(a, 1, n) = SubSeq(b, 1, n)})

Add(k) ==
  LET restart == counter_ >= interval
      shared == IF restart THEN 0 ELSE Shared(last_key_, k) IN
  /\ Building /\ (buffer_ # <<>> => Less(last_key_, k))
  /\ buffer_' = Append(buffer_, [shared |-> shared, delta |-> SubSeq(k, shared + 1, Len(k))])
  /\ restarts_' = IF restart THEN Append(restarts_, Len(buffer_) + 1) ELSE restarts_
  /\ counter_' = IF restart THEN 1 ELSE counter_ + 1
  /\ last_key_' = SubSeq(last_key_, 1, shared) \o SubSeq(k, shared + 1, Len(k))
  /\ added' = Append(added, k)
  /\ UNCHANGED <<interval, blocks, data, it, at>>

Reset == buffer_' = <<>> /\ restarts_' = <<1>> /\ counter_' = 0 /\ last_key_' = <<>>

\* Finish, and Reset as TableBuilder::WriteBlock does: the block is written, the builder
\* is ready for the next one.  A new iterator is made.
Finish ==
  LET d == [entries |-> buffer_, restarts |-> restarts_, keys |-> added] IN
  /\ Building /\ blocks' = blocks + 1
  /\ data' = d /\ it' = Fresh(d) /\ at' = 0
  /\ Reset /\ added' = <<>>
  /\ UNCHANGED interval

\* An entry that was damaged claims to share more than the key before it has.
Damage(i) ==
  /\ blocks = MaxBlocks /\ it = Fresh(data) /\ \A j \in DOMAIN data.entries : data.entries[j].shared < 9
  /\ data' = [data EXCEPT !.entries[i].shared = 9]
  /\ UNCHANGED <<interval, builder, it, at>>

-------------------------------------------------------------------------------
(* Block::Iter, as functions of the iterator x *)

limit == Len(data.entries) + 1
num_restarts_ == Len(data.restarts)
Valid(x) == x.current_ < limit
GetRestartPoint(i) == data.restarts[i]

SeekToRestartPoint(x, i) == [x EXCEPT !.key_ = <<>>, !.restart_index_ = i, !.end = GetRestartPoint(i)]

AtEnd(x) == [x EXCEPT !.current_ = limit, !.restart_index_ = num_restarts_ + 1]
CorruptionError(x) == [AtEnd(x) EXCEPT !.ok = FALSE, !.key_ = <<>>, !.end = 1]

\* ParseNextKey; it returned true if the result is valid.
ParseNextKey(x) ==
  LET e == data.entries[x.end]
      passed == {i \in 1..num_restarts_ : i > x.restart_index_ /\ GetRestartPoint(i) < x.end}
  IN  IF x.end >= limit THEN AtEnd(x)
      ELSE IF Len(x.key_) < e.shared THEN CorruptionError(x)
      ELSE [x EXCEPT !.current_ = x.end, !.end = @ + 1,
                     !.key_ = SubSeq(@, 1, e.shared) \o e.delta,
                     !.restart_index_ = IF passed = {} THEN @ ELSE Max(passed)]

\* The iterator after every number of calls of ParseNextKey.
Parsed(x) ==
  LET after[n \in 0..limit] ==
        IF n = 0 THEN ParseNextKey(x)
        ELSE IF Valid(after[n - 1]) THEN ParseNextKey(after[n - 1]) ELSE after[n - 1]
  IN  after

\* The loops of Seek, and of SeekToLast and Prev: entries are parsed until one that is not
\* before the key, or that ends at an offset, or until none is left.
ParseUntilKey(x, k) ==
  Parsed(x)[Min({n \in 0..limit : Valid(Parsed(x)[n]) => ~Less(Parsed(x)[n].key_, k)})]
ParseUntilEnd(x, offset) ==
  Parsed(x)[Min({n \in 0..limit : Valid(Parsed(x)[n]) => Parsed(x)[n].end >= offset})]

\* The binary search of Seek: the last restart point with a key before the target, 0 if
\* an entry at a restart point is damaged.
LastRestartBefore(k) ==
  LET search[left \in 1..num_restarts_, right \in 0..num_restarts_] ==
        LET mid == (left + right + 1) \div 2
            e == data.entries[GetRestartPoint(mid)]
        IN  IF left >= right THEN left
            ELSE IF e.shared # 0 THEN 0
            ELSE IF Less(e.delta, k) THEN search[mid, right] ELSE search[left, mid - 1]
  IN  search[1, num_restarts_]

IterSeek(x, k) ==
  LET r == LastRestartBefore(k)
  IN  IF r = 0 THEN CorruptionError(x)
      ELSE ParseUntilKey(SeekToRestartPoint(x, r), k)

IterSeekToFirst(x) == ParseNextKey(SeekToRestartPoint(x, 1))
IterSeekToLast(x) == ParseUntilEnd(SeekToRestartPoint(x, num_restarts_), limit)

\* Prev: back to a restart point before the entry, and forward again to the entry before it.
IterPrev(x) ==
  LET points == {i \in 1..num_restarts_ : i <= x.restart_index_ /\ GetRestartPoint(i) < x.current_}
  IN  IF points = {} THEN AtEnd(x)
      ELSE ParseUntilEnd(SeekToRestartPoint(x, Max(points)), x.current_)

-------------------------------------------------------------------------------
(* The calls *)

Moved(x, expected) ==
  /\ it' = x /\ at' = expected
  /\ UNCHANGED <<interval, builder, data>>

Seek(k) ==
  LET from == {i \in DOMAIN data.keys : ~Less(data.keys[i], k)}
  IN  Moved(IterSeek(it, k), IF from = {} THEN 0 ELSE Min(from))
SeekToFirst == Moved(IterSeekToFirst(it), IF data.keys = <<>> THEN 0 ELSE 1)
SeekToLast == Moved(IterSeekToLast(it), Len(data.keys))
NextKey == Valid(it) /\ Moved(ParseNextKey(it), IF at = Len(data.keys) THEN 0 ELSE at + 1)
Prev == Valid(it) /\ Moved(IterPrev(it), at - 1)

Next ==
  \/ (\E k \in Keys : Add(k)) \/ Finish \/ (\E i \in DOMAIN data.entries : Damage(i))
  \/ (\E k \in Keys : Seek(k)) \/ SeekToFirst \/ SeekToLast \/ NextKey \/ Prev

Spec == Init /\ [][Next]_vars

-------------------------------------------------------------------------------
(* Properties *)

TypeOK ==
  /\ counter_ \in Nat /\ blocks \in 0..MaxBlocks
  /\ it.current_ \in 1..limit /\ it.restart_index_ \in 1..num_restarts_ + 1
  /\ it.end \in 1..limit /\ it.ok \in BOOLEAN /\ at \in 0..Len(data.keys)

\* After any sequence of calls the iterator is at the key where a walk over the keys that
\* were added would be, and has put that key together from the entries rightly; if not,
\* the block was damaged and it reports an error.
IterIsRight ==
  /\ ~it.ok => \E i \in DOMAIN data.entries : data.entries[i].shared = 9
  /\ it.ok => /\ Valid(it) <=> at # 0
              /\ at # 0 => it.current_ = at /\ it.key_ = data.keys[at]

===============================================================================

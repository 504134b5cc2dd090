--------------------------------- MODULE Levels ---------------------------------
(***************************************************************************)
(* The levels of a leveldb database (db/version_set.cc, and the loop of    *)
(* DBImpl::DoCompactionWork): which entries are in which table, how        *)
(* compactions choose tables, which entries they drop, and what Get finds. *)
(*                                                                         *)
(* A table is the set of its entries; its number counts only in level 0,   *)
(* where it says which table is newer.  Sizes in bytes are left open:      *)
(* whatever depends on them (which level is full, whether inputs are       *)
(* expanded, where an output file ends) may go either way.                 *)
(***************************************************************************)
EXTENDS Integers, FiniteSets, FiniteSetsExt

CONSTANTS
  Keys,                \* user keys, 1..n
  MaxSequence,         \* writes in all
  kNumLevels, kMaxMemCompactLevel,
  Deletes,             \* whether clients delete
  MaxSnapshots,        \* snapshots that are alive at the same time
  SplitsKeys,          \* whether output files may end between two entries of a key
  ManualCompactions,   \* whether clients call CompactRange
  FlushesInCompaction  \* whether memtables fill up while a compaction works

ASSUME LevelsAssumption ==
  /\ IsFiniteSet(Keys) /\ Keys = 1..Cardinality(Keys) /\ Keys # {}
  /\ MaxSequence \in Nat /\ MaxSnapshots \in Nat
  /\ kNumLevels \in Nat /\ kNumLevels >= 2
  /\ kMaxMemCompactLevel \in 0..(kNumLevels - 1)
  /\ {Deletes, SplitsKeys, ManualCompactions, FlushesInCompaction} \subseteq BOOLEAN

VARIABLES
  mem_,        \* the memtable
  files_,      \* the current version: [level -> set of files]
  flushed,     \* how many tables have been made of memtables
  last_sequence_,
  snapshots_,
  compact,     \* the compaction that the background thread works on, or Nothing
  history      \* all entries that were ever written

levelVars == <<mem_, files_, flushed, last_sequence_, snapshots_, compact, history>>

LevelNumbers == 0..(kNumLevels - 1)
Nothing == [level |-> -1]

LevelsInit ==
  /\ mem_ = {} /\ files_ = [l \in LevelNumbers |-> {}] /\ flushed = 0
  /\ last_sequence_ = 0 /\ snapshots_ = {} /\ compact = Nothing /\ history = {}

-------------------------------------------------------------------------------
(* Keys and ranges *)

\* InternalKeyComparator: by user key, then from new to old.
Before(a, b) == a.key < b.key \/ (a.key = b.key /\ a.seq > b.seq)

Smallest(S) == CHOOSE e \in S : \A d \in S \ {e} : Before(e, d)
Largest(S) == CHOOSE e \in S : \A d \in S \ {e} : Before(d, e)
File(num, S) == [num |-> num, entries |-> S, smallest |-> Smallest(S), largest |-> Largest(S)]
EntriesOf(fs) == UNION {f.entries : f \in fs}

\* GetRange: the user keys from the smallest to the largest key of some files.
GetRange(fs) == [begin |-> Min({f.smallest.key : f \in fs}), end |-> Max({f.largest.key : f \in fs})]
Overlaps(f, r) == f.smallest.key <= r.end /\ r.begin <= f.largest.key

\* The files that overlap a range, and the range with theirs.
Hit(fs, r) == {f \in fs : Overlaps(f, r)}
Widened(fs, r) ==
  [begin |-> Min({r.begin} \cup {f.smallest.key : f \in Hit(fs, r)}),
   end   |-> Max({r.end} \cup {f.largest.key : f \in Hit(fs, r)})]

\* Version::GetOverlappingInputs: a file of level 0 that overlaps extends the range.
GetOverlappingInputs(level, r) ==
  LET fs == files_[level]
      range[n \in 0..Cardinality(fs)] == IF n = 0 THEN r ELSE Widened(fs, range[n - 1])
  IN  Hit(fs, IF level = 0 THEN range[Cardinality(fs)] ELSE r)

\* FindSmallestBoundaryFile: the files of a level that begin with an older entry of the key
\* with which the chosen ones end, and the first of these.
Boundary(level_files, chosen) ==
  LET last == Largest(EntriesOf(chosen))
  IN  {f \in level_files : Before(last, f.smallest) /\ f.smallest.key = last.key}
First(fs) == {f \in fs : \A g \in fs : ~Before(g.smallest, f.smallest)}

\* AddBoundaryInputs: with a file that ends with an entry of a key, those that hold
\* older entries of the key.
AddBoundaryInputs(level_files, chosen) ==
  LET grown[n \in 0..Cardinality(level_files)] ==
        IF n = 0 THEN chosen ELSE grown[n - 1] \cup First(Boundary(level_files, grown[n - 1]))
  IN  IF chosen = {} THEN {} ELSE grown[Cardinality(level_files)]

-------------------------------------------------------------------------------
(* Clients *)

Add(k, type) ==
  /\ last_sequence_ < MaxSequence
  /\ last_sequence_' = last_sequence_ + 1
  /\ LET e == [key |-> k, seq |-> last_sequence_ + 1, type |-> type] IN
       mem_' = mem_ \cup {e} /\ history' = history \cup {e}
  /\ UNCHANGED <<files_, flushed, snapshots_, compact>>

Put(k) == Add(k, "value")
Delete(k) == Deletes /\ Add(k, "deletion")

GetSnapshot ==
  /\ Cardinality(snapshots_) < MaxSnapshots
  /\ last_sequence_ \notin snapshots_
  /\ snapshots_' = snapshots_ \cup {last_sequence_}
  /\ UNCHANGED <<mem_, files_, flushed, last_sequence_, compact, history>>

ReleaseSnapshot(s) ==
  /\ snapshots_' = snapshots_ \ {s}
  /\ UNCHANGED <<mem_, files_, flushed, last_sequence_, compact, history>>

\* The newest entry of a key in a set that the sequence number s may see, as a set.
Visible(S, k, s) ==
  LET seen == {e \in S : e.key = k /\ e.seq <= s}
  IN  {e \in seen : \A d \in seen : d.seq <= e.seq}

\* FindFile: the file of a level below 0 where the lookup for k at s goes, if any.
FindFile(level, k, s) ==
  LET target == [key |-> k, seq |-> s]
      later == {f \in files_[level] : ~Before(f.largest, target)}
  IN  {f \in later : f.smallest.key <= k /\ \A g \in later : ~Before(g.largest, f.largest)}

\* Version::Get, level by level; in level 0 from the newest file to the oldest.
FoundIn(level, k, s) ==
  LET found == {f \in files_[level] : Visible(f.entries, k, s) # {}} IN
  IF level = 0
  THEN UNION {Visible(f.entries, k, s) : f \in {g \in found : \A h \in found : h.num <= g.num}}
  ELSE UNION {Visible(f.entries, k, s) : f \in FindFile(level, k, s)}

\* DBImpl::Get: the memtable, then the version.
Get(k, s) ==
  LET levels == {l \in LevelNumbers : FoundIn(l, k, s) # {}}
      found == IF Visible(mem_, k, s) # {} THEN Visible(mem_, k, s)
               ELSE IF levels = {} THEN {} ELSE FoundIn(Min(levels), k, s)
  IN  {e \in found : e.type = "value"}

-------------------------------------------------------------------------------
(* Flushes *)

OverlapInLevel(level, r) == \E f \in files_[level] : Overlaps(f, r)

\* Version::PickLevelForMemTableOutput: not past a level that overlaps, and possibly
\* less far because of the bytes in the level after the next.
PickLevelForMemTableOutput(r) ==
  {l \in 0..kMaxMemCompactLevel : l > 0 => \A m \in 0..l : ~OverlapInLevel(m, r)}

\* CompactMemTable
Flush ==
  /\ mem_ # {}
  /\ compact = Nothing \/ FlushesInCompaction
  /\ \E level \in PickLevelForMemTableOutput(GetRange({File(0, mem_)})) :
       files_' = [files_ EXCEPT ![level] = @ \cup {File(IF level = 0 THEN flushed + 1 ELSE 0, mem_)}]
  /\ flushed' = flushed + 1 /\ mem_' = {}
  /\ UNCHANGED <<last_sequence_, snapshots_, compact, history>>

-------------------------------------------------------------------------------
(* Compactions *)

\* SetupOtherInputs: the files of the two levels, with the expansion or without.
SetupOtherInputs(level, picked) ==
  LET in0 == AddBoundaryInputs(files_[level], picked)
      in1 == GetOverlappingInputs(level + 1, GetRange(in0))
      expanded0 == AddBoundaryInputs(files_[level], GetOverlappingInputs(level, GetRange(in0 \cup in1)))
      expanded1 == GetOverlappingInputs(level + 1, GetRange(expanded0))
  IN  {<<in0, in1>>} \cup
      (IF in1 # {} /\ Cardinality(expanded0) > Cardinality(in0)
          /\ Cardinality(expanded1) = Cardinality(in1)
       THEN {<<expanded0, expanded1>>} ELSE {})

\* The files that PickCompaction may start from: one file of the level, in level 0
\* with all that overlap it.
PickedFiles(level) ==
  {IF level = 0 THEN GetOverlappingInputs(0, GetRange({f})) ELSE {f} : f \in files_[level]}

\* VersionSet::CompactRange: the files in the range, below level 0 possibly only the
\* first of them.
ManualFiles(level) ==
  LET ranges == {r \in [begin : Keys, end : Keys] : r.begin <= r.end}
      FirstOf(S) == {{f \in S : ~Before(g.smallest, f.smallest)} : g \in S}
  IN  UNION {LET in == GetOverlappingInputs(level, r)
             IN  IF level = 0 THEN {in} \ {{}} ELSE FirstOf(in) : r \in ranges}

\* BackgroundCompaction starts a compaction of the picked files.
Start(level, picked) ==
  /\ compact = Nothing
  /\ \E in \in SetupOtherInputs(level, picked) :
       compact' = [level |-> level, in0 |-> in[1], in1 |-> in[2],
                      base |-> [l \in (level + 2)..(kNumLevels - 1) |-> files_[l]],
                      smallest_snapshot |-> IF snapshots_ = {} THEN last_sequence_ ELSE Min(snapshots_)]
  /\ UNCHANGED <<mem_, files_, flushed, last_sequence_, snapshots_, history>>

PickCompaction ==
  \E level \in 0..(kNumLevels - 2) : \E picked \in PickedFiles(level) : Start(level, picked)
CompactRange ==
  /\ ManualCompactions
  /\ \E level \in 0..(kNumLevels - 2) : \E picked \in ManualFiles(level) : Start(level, picked)

\* A file with nothing to merge with may be moved to the next level.
TrivialMove ==
  /\ compact = Nothing
  /\ \E level \in 0..(kNumLevels - 2) : \E picked \in PickedFiles(level) :
       LET in0 == AddBoundaryInputs(files_[level], picked) IN
       /\ Cardinality(in0) = 1 /\ GetOverlappingInputs(level + 1, GetRange(in0)) = {}
       /\ files_' = [files_ EXCEPT ![level] = @ \ in0,
                                   ![level + 1] = @ \cup {File(0, EntriesOf(in0))}]
  /\ UNCHANGED <<mem_, flushed, last_sequence_, snapshots_, compact, history>>

\* IsBaseLevelForKey looks at the levels below the output in the version that the
\* compaction started with.
IsBaseLevelForKey(c, k) ==
  \A l \in (c.level + 2)..(kNumLevels - 1) :
    \A f \in c.base[l] : k \notin f.smallest.key..f.largest.key

\* Variant: the deletion markers of every level are dropped.
DroppedAnywhere(c, S, e) ==
  \/ \E d \in S : d.key = e.key /\ d.seq > e.seq /\ d.seq <= c.smallest_snapshot
  \/ e.type = "deletion" /\ e.seq <= c.smallest_snapshot

\* DoCompactionWork drops an entry that no snapshot can see behind a newer one, and a
\* deletion marker that hides nothing.
Dropped(c, S, e) ==
  \/ \E d \in S : d.key = e.key /\ d.seq > e.seq /\ d.seq <= c.smallest_snapshot
  \/ e.type = "deletion" /\ e.seq <= c.smallest_snapshot /\ IsBaseLevelForKey(c, e.key)

\* The entries, in order, may be cut after any of them, or after the last one of any key.
Cuts(kept) ==
  SUBSET {e \in kept : e # Largest(kept) /\ (SplitsKeys \/ \A d \in kept : d.key = e.key => ~Before(e, d))}
OutputFiles(kept, cuts) ==
  {File(0, {e \in kept : ~Before(last, e) /\ \A m \in cuts : Before(m, last) => Before(m, e)}) :
     last \in cuts \cup {Largest(kept)}}

\* The rest of DoCompactionWork, and InstallCompactionResults.
FinishCompaction ==
  LET c == compact
      in == EntriesOf(c.in0 \cup c.in1)
      kept == {e \in in : ~Dropped(c, in, e)} IN
  /\ c # Nothing
  /\ \E cuts \in Cuts(kept) :
       files_' = [files_ EXCEPT ![c.level] = @ \ c.in0,
                                ![c.level + 1] = (@ \ c.in1) \cup
                                   (IF kept = {} THEN {} ELSE OutputFiles(kept, cuts))]
  /\ compact' = Nothing
  /\ UNCHANGED <<mem_, flushed, last_sequence_, snapshots_, history>>

-------------------------------------------------------------------------------
LevelsNext ==
  \/ \E k \in Keys : Put(k) \/ Delete(k)
  \/ GetSnapshot \/ \E s \in snapshots_ : ReleaseSnapshot(s)
  \/ Flush \/ PickCompaction \/ CompactRange \/ TrivialMove \/ FinishCompaction

LevelsSpec == LevelsInit /\ [][LevelsNext]_levelVars

-------------------------------------------------------------------------------
(* Properties *)

Entry == [key : Keys, seq : 1..MaxSequence, type : {"value", "deletion"}]

TypeOK ==
  /\ mem_ \subseteq Entry /\ history \subseteq Entry
  /\ DOMAIN files_ = LevelNumbers
  /\ \A l \in LevelNumbers : \A f \in files_[l] : f.entries # {} /\ f.entries \subseteq Entry
  /\ flushed \in 0..MaxSequence /\ last_sequence_ \in 0..MaxSequence
  /\ snapshots_ \subseteq 0..last_sequence_

\* "Must not overlap": below level 0 the files of a level are disjoint.
LevelsDisjoint ==
  \A l \in 1..(kNumLevels - 1) : \A f, g \in files_[l] :
    f # g => Before(f.largest, g.smallest) \/ Before(g.largest, f.smallest)

\* "data in lower levels will have larger sequence numbers": of a key, the entries in a
\* level are newer than those in the levels below, so that Get may stop at the first.
NewerAbove ==
  \A l \in LevelNumbers : \A m \in (l + 1)..(kNumLevels - 1) :
    \A d \in EntriesOf(files_[l]), e \in EntriesOf(files_[m]) : d.key = e.key => d.seq > e.seq

\* A read, at a snapshot that is alive or without one, finds what the last write before it
\* left, wherever flushes, moves and compactions have put the entries of the key.
GetIsRight ==
  \A k \in Keys, s \in snapshots_ \cup {last_sequence_} :
    Get(k, s) = {e \in Visible(history, k, s) : e.type = "value"}

\* A read of the newest state or of any snapshot finds in the levels the newest write to
\* its key that it may see, and after a deletion nothing, through flushes, compactions
\* and the dropping of entries: no file of a level above 0 overlaps another, and a newer
\* entry of a key is never in a deeper level than an older one.
ReadsAreRight == TypeOK /\ LevelsDisjoint /\ NewerAbove /\ GetIsRight

===============================================================================

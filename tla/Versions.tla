-------------------------------- MODULE Versions --------------------------------
(***************************************************************************)
(* Who keeps a version of the database alive (db/version_set.cc,           *)
(* db/db_impl.cc): the reference counts of Version, FileMetaData and       *)
(* MemTable while threads read, iterators stay open, and the background    *)
(* thread flushes, compacts, installs new versions and deletes the files   *)
(* that no version needs; and the file that many seeks make the candidate  *)
(* for a compaction.                                                       *)
(*                                                                         *)
(* A step is what a thread does while it holds mutex_.  Keys are left out: *)
(* a compaction takes any files that its level allows.  An object that is  *)
(* deleted is not in its function any more, and its address is used again. *)
(***************************************************************************)
EXTENDS Integers, Sequences, FiniteSets, FiniteSetsExt

CONSTANTS
  Readers,       \* threads that call Get or hold an iterator
  LastLevel,     \* kNumLevels - 1
  MaxNumber,     \* table numbers that are ever used
  AllowedSeeks   \* of a new file; at least 100 in the code

VersionsAssumption == LastLevel \in Nat \ {0} /\ MaxNumber \in Nat /\ AllowedSeeks \in Nat \ {0}

Nil == 0
Levels == 0..LastLevel
NoFile == [level |-> 0, file |-> Nil]

VARIABLES
  heap,       \* v: the Version objects, f: the FileMetaData objects, m: references to memtables
  current,    \* VersionSet::current_
  mem, imm,   \* mem_ and imm_
  disk,       \* the tables in the directory
  pending,    \* pending_outputs_
  number,     \* the last table number that was given out
  reader,     \* what a reader holds
  flush,      \* the background thread in CompactMemTable
  compaction, \* the background thread in BackgroundCompaction; a flush may come in between
  bg_error

vars == <<heap, current, mem, imm, disk, pending, number, reader, flush, compaction, bg_error>>

-------------------------------------------------------------------------------
(* Objects *)

Alloc(objects) == CHOOSE i \in 1..(Cardinality(DOMAIN objects) + 1) : i \notin DOMAIN objects
Without(objects, i) == [j \in DOMAIN objects \ {i} |-> objects[j]]
FilesOf(v) == UNION {v.files[l] : l \in Levels}

\* Version::Ref, and Version::Unref with ~Version
Ref(h, i) == [h EXCEPT !.v[i].refs = @ + 1]
DropFiles(fs, dropped) ==
  [o \in {o \in DOMAIN fs : ~(o \in dropped /\ fs[o].refs = 1)} |->
     IF o \in dropped THEN [fs[o] EXCEPT !.refs = @ - 1] ELSE fs[o]]
DeleteVersion(h, i) == [h EXCEPT !.v = Without(@, i), !.f = DropFiles(@, FilesOf(h.v[i]))]
Unref(h, i) ==
  IF h.v[i].refs > 1 THEN [h EXCEPT !.v[i].refs = @ - 1] ELSE DeleteVersion(h, i)

\* MemTable::Ref and MemTable::Unref
RefMem(h, i) == IF i = Nil THEN h ELSE [h EXCEPT !.m[i] = @ + 1]
UnrefMem(h, i) ==
  IF i = Nil THEN h
  ELSE IF h.m[i] > 1 THEN [h EXCEPT !.m[i] = @ - 1] ELSE [h EXCEPT !.m = Without(@, i)]

\* Builder::Apply and MaybeAddFile: a new file, even one that only moves to the next level, is
\* a new object; those that stay have one more reference.
FileObjects(h, kept, o, added) ==
  [p \in DOMAIN h.f \cup (IF added = {} THEN {} ELSE {o}) |->
     IF p = o THEN [number |-> (CHOOSE a \in added : TRUE)[2], refs |-> 1, seeks |-> AllowedSeeks]
     ELSE IF p \in kept THEN [h.f[p] EXCEPT !.refs = @ + 1] ELSE h.f[p]]

\* LogAndApply makes a version that nobody refers to yet.  added is at most one file.
BuildVersion(h, base, deleted, added) ==
  LET o == Alloc(h.f)
      i == Alloc(h.v)
      kept == [l \in Levels |-> {p \in h.v[base].files[l] : <<l, h.f[p].number>> \notin deleted}]
      files == [l \in Levels |-> kept[l] \cup (IF \E a \in added : a[1] = l THEN {o} ELSE {})]
      version == [files |-> files, refs |-> 0, to_compact |-> NoFile]
  IN  [v |-> [k \in DOMAIN h.v \cup {i} |-> IF k = i THEN version ELSE h.v[k]],
       f |-> FileObjects(h, UNION {kept[l] : l \in Levels}, o, added), m |-> h.m]

\* VersionSet::AddLiveFiles; no version is under construction when the code calls it.
LiveNumbers(h) == UNION {{h.f[o].number : o \in FilesOf(h.v[i])} : i \in DOMAIN h.v}

\* DeleteObsoleteFiles
DeleteObsoleteFiles(h, pend) ==
  disk' = IF bg_error' THEN disk ELSE disk \cap (pend \cup LiveNumbers(h))

-------------------------------------------------------------------------------
Idle == [op |-> "", v |-> Nil, mem |-> Nil, imm |-> Nil]
FlushIdle == [pc |-> "idle", v |-> Nil, new |-> Nil, built |-> Nil]
CompactionIdle == [pc |-> "idle", v |-> Nil, level |-> 0, inputs |-> {}, new |-> Nil, built |-> Nil]

Init ==
  /\ heap = [v |-> <<[files |-> [l \in Levels |-> {}], refs |-> 1, to_compact |-> NoFile]>>,
             f |-> <<>>, m |-> <<1>>]
  /\ current = 1 /\ mem = 1 /\ imm = Nil /\ disk = {} /\ pending = {} /\ number = 0
  /\ reader = [r \in Readers |-> Idle] /\ flush = FlushIdle /\ compaction = CompactionIdle
  /\ bg_error = FALSE

-------------------------------------------------------------------------------
(* Readers *)

\* The first part of Get, and NewInternalIterator: what the reader needs is kept alive.
Acquire(r, op) ==
  /\ reader[r] = Idle
  /\ heap' = RefMem(RefMem(Ref(heap, current), mem), imm)
  /\ reader' = [reader EXCEPT ![r] = [op |-> op, v |-> current, mem |-> mem, imm |-> imm]]
  /\ UNCHANGED <<current, mem, imm, disk, pending, number, flush, compaction, bg_error>>

Released(h, r) == Unref(UnrefMem(UnrefMem(h, reader[r].mem), reader[r].imm), reader[r].v)

\* The files that a read of several files may charge: the first one, which another follows
Charged(v) ==
  {c \in [level : Levels, file : FilesOf(v)] :
     /\ c.file \in v.files[c.level]
     /\ \/ \E l \in (c.level + 1)..LastLevel : v.files[l] # {}
        \/ c.level = 0 /\ v.files[0] # {c.file}}

\* Version::UpdateStats; only the sign of allowed_seeks matters once it is zero.
UpdateStats(h, i, c) ==
  LET seeks == Max({h.f[c.file].seeks - 1, 0})
      charged == [h EXCEPT !.f[c.file].seeks = seeks]
  IN  IF seeks = 0 /\ h.v[i].to_compact.file = Nil
      THEN [charged EXCEPT !.v[i].to_compact = c] ELSE charged

\* The last part of Get
GetEnds(r) ==
  /\ reader[r].op = "Get"
  /\ \/ heap' = Released(heap, r)
     \/ \E c \in Charged(heap.v[reader[r].v]) : heap' = Released(UpdateStats(heap, reader[r].v, c), r)
  /\ reader' = [reader EXCEPT ![r] = Idle]
  /\ UNCHANGED <<current, mem, imm, disk, pending, number, flush, compaction, bg_error>>

\* RecordReadSample, from an iterator, to the current version
RecordReadSample(r) ==
  /\ reader[r].op = "Iterator"
  /\ \E c \in Charged(heap.v[current]) : heap' = UpdateStats(heap, current, c)
  /\ UNCHANGED <<current, mem, imm, disk, pending, number, reader, flush, compaction, bg_error>>

\* CleanupIteratorState
CloseIterator(r) ==
  /\ reader[r].op = "Iterator"
  /\ heap' = Released(heap, r) /\ reader' = [reader EXCEPT ![r] = Idle]
  /\ UNCHANGED <<current, mem, imm, disk, pending, number, flush, compaction, bg_error>>

-------------------------------------------------------------------------------
(* The background thread *)

\* MakeRoomForWrite: the memtable is full.
SwitchMemTable ==
  /\ imm = Nil /\ imm' = mem /\ mem' = Alloc(heap.m)
  /\ heap' = [heap EXCEPT !.m = [i \in DOMAIN @ \cup {mem'} |-> IF i = mem' THEN 1 ELSE @[i]]]
  /\ UNCHANGED <<current, disk, pending, number, reader, flush, compaction, bg_error>>

\* CompactMemTable and WriteLevel0Table, up to the unlocked BuildTable: before a compaction,
\* or in the middle of one, where an earlier error does not matter
BeginFlush ==
  /\ flush = FlushIdle /\ imm # Nil /\ number < MaxNumber
  /\ (compaction.pc = "idle" /\ ~bg_error) \/ compaction.pc = "merge"
  /\ number' = number + 1 /\ pending' = pending \cup {number'}
  /\ heap' = Ref(heap, current) /\ flush' = [pc |-> "build", v |-> current, new |-> number', built |-> Nil]
  /\ UNCHANGED <<current, mem, imm, disk, reader, compaction, bg_error>>

\* The table is built, or empty; it is not pending any more.  LogAndApply makes the new version
\* and unlocks to write the manifest.  The level is 0 or, without overlap, further down.
EndFlush ==
  LET h == Unref(heap, flush.v) IN
  /\ flush.pc = "build" /\ pending' = pending \ {flush.new}
  /\ \E added \in {{<<l, flush.new>>} : l \in Levels \ {LastLevel}} \cup {{}} :
       /\ disk' = disk \cup {a[2] : a \in added}
       /\ heap' = BuildVersion(h, current, {}, added)
  /\ flush' = [flush EXCEPT !.pc = "apply", !.v = Nil, !.built = Alloc(h.v)]
  /\ UNCHANGED <<current, mem, imm, number, reader, compaction, bg_error>>

\* BuildTable fails, and removes what it has written; or the database is being closed, and the
\* table stays.
FlushFails ==
  /\ flush.pc = "build" /\ disk' \in {disk, disk \cup {flush.new}} /\ pending' = pending \ {flush.new}
  /\ heap' = Unref(heap, flush.v) /\ flush' = FlushIdle /\ bg_error' = TRUE
  /\ UNCHANGED <<current, mem, imm, number, reader, compaction>>

\* VersionSet::AppendVersion, at the end of LogAndApply
AppendVersion(h, built) == Ref(Unref(h, current), built)

FlushApplied ==
  /\ flush.pc = "apply" /\ current' = flush.built /\ imm' = Nil /\ UNCHANGED bg_error
  /\ heap' = UnrefMem(AppendVersion(heap, flush.built), imm)
  /\ DeleteObsoleteFiles(heap', pending)
  /\ flush' = FlushIdle /\ UNCHANGED <<mem, pending, number, reader, compaction>>

\* AddInputDeletions, or the one deletion of a move
Deletions(i, l, ins) == UNION {{<<k, heap.f[o].number>> : o \in ins \cap heap.v[i].files[k]} : k \in {l, l + 1}}

\* A compaction of files of the levels l and l + 1: one file is just moved, unless it overlaps
\* too much of the level below, or the compaction is a manual one.
BeginCompaction(l, ins) ==
  LET c == [CompactionIdle EXCEPT !.v = current, !.level = l, !.inputs = ins]
      h == Ref(heap, current)
  IN /\ \/ /\ Cardinality(ins) = 1
           /\ heap' = BuildVersion(h, current, Deletions(current, l, ins),
                                   {<<l + 1, heap.f[o].number>> : o \in ins})
           /\ compaction' = [c EXCEPT !.pc = "applyMove", !.built = Alloc(h.v)]
        \/ heap' = h /\ compaction' = [c EXCEPT !.pc = "merge"]
     /\ UNCHANGED <<current, mem, imm, disk, pending, number, reader, flush, bg_error>>

\* The inputs that go with a file: in level 0 others that overlap, and those of the next level
InputSets(l, o) ==
  {{o} \cup others : others \in SUBSET ((IF l = 0 THEN heap.v[current].files[0] ELSE {})
                                          \cup heap.v[current].files[l + 1])}

CanCompact == compaction = CompactionIdle /\ flush = FlushIdle /\ ~bg_error /\ imm = Nil

\* PickCompaction for a level that is too large, or VersionSet::CompactRange: any file
SizeCompaction ==
  /\ CanCompact
  /\ \E l \in 0..(LastLevel - 1) : \E o \in heap.v[current].files[l] :
       \E ins \in InputSets(l, o) : BeginCompaction(l, ins)

\* PickCompaction for a file with too many seeks
SeekCompaction ==
  LET c == heap.v[current].to_compact IN
  /\ CanCompact /\ c.file # Nil
  /\ \E ins \in InputSets(c.level, c.file) : BeginCompaction(c.level, ins)

Merging == compaction.pc = "merge" /\ flush = FlushIdle

\* Variant: the new table is not noted.
OpenCompactionOutputFileUnnoted ==
  /\ Merging /\ compaction.new = Nil /\ number < MaxNumber
  /\ number' = number + 1 /\ disk' = disk \cup {number'}
  /\ compaction' = [compaction EXCEPT !.new = number']
  /\ UNCHANGED <<heap, current, mem, imm, pending, reader, flush, bg_error>>

\* OpenCompactionOutputFile, for the first entry that is not dropped
OpenCompactionOutputFile ==
  /\ Merging /\ compaction.new = Nil /\ number < MaxNumber
  /\ number' = number + 1 /\ pending' = pending \cup {number'} /\ disk' = disk \cup {number'}
  /\ compaction' = [compaction EXCEPT !.new = number']
  /\ UNCHANGED <<heap, current, mem, imm, reader, flush, bg_error>>

\* The table, if there is one, is written, and InstallCompactionResults calls LogAndApply.
InstallCompactionResults ==
  /\ Merging
  /\ heap' = BuildVersion(heap, current, Deletions(compaction.v, compaction.level, compaction.inputs),
                          {<<compaction.level + 1, n>> : n \in {compaction.new} \ {Nil}})
  /\ compaction' = [compaction EXCEPT !.pc = "apply", !.built = Alloc(heap.v)]
  /\ UNCHANGED <<current, mem, imm, disk, pending, number, reader, flush, bg_error>>

\* An error, or the database is being closed; the table that was begun stays.
CompactionFails ==
  /\ Merging /\ pending' = pending \ {compaction.new}
  /\ heap' = Unref(heap, compaction.v) /\ compaction' = CompactionIdle /\ bg_error' = TRUE
  /\ UNCHANGED <<current, mem, imm, disk, number, reader, flush>>

\* The rest of BackgroundCompaction: CleanupCompaction, ReleaseInputs, DeleteObsoleteFiles
CompactionApplied ==
  /\ compaction.pc \in {"applyMove", "apply"} /\ current' = compaction.built /\ UNCHANGED bg_error
  /\ pending' = pending \ {compaction.new}
  /\ heap' = Unref(AppendVersion(heap, compaction.built), compaction.v)
  /\ IF compaction.pc = "applyMove" THEN UNCHANGED disk ELSE DeleteObsoleteFiles(heap', pending')
  /\ compaction' = CompactionIdle /\ UNCHANGED <<mem, imm, number, reader, flush>>

\* The manifest cannot be written: the new version is deleted, and no file is any more.
FlushNotApplied ==
  /\ flush.pc = "apply" /\ heap' = DeleteVersion(heap, flush.built)
  /\ flush' = FlushIdle /\ bg_error' = TRUE
  /\ UNCHANGED <<current, mem, imm, disk, pending, number, reader, compaction>>
CompactionNotApplied ==
  /\ compaction.pc \in {"applyMove", "apply"} /\ pending' = pending \ {compaction.new}
  /\ heap' = Unref(DeleteVersion(heap, compaction.built), compaction.v)
  /\ compaction' = CompactionIdle /\ bg_error' = TRUE
  /\ UNCHANGED <<current, mem, imm, disk, number, reader, flush>>

Background ==
  \/ BeginFlush \/ EndFlush \/ FlushFails \/ FlushApplied \/ FlushNotApplied
  \/ SizeCompaction \/ SeekCompaction \/ OpenCompactionOutputFile \/ InstallCompactionResults
  \/ CompactionFails \/ CompactionApplied \/ CompactionNotApplied

Next ==
  \/ \E r \in Readers : \/ Acquire(r, "Get") \/ GetEnds(r)
                       \/ Acquire(r, "Iterator") \/ RecordReadSample(r) \/ CloseIterator(r)
  \/ SwitchMemTable \/ Background

Spec == Init /\ [][Next]_vars

-------------------------------------------------------------------------------
(* Properties *)

\* The references to a version: the current one, the readers, and the background thread
Holders(i) ==
  (IF i = current THEN {<<"current", 0>>} ELSE {})
    \cup {<<"reader", r>> : r \in {q \in Readers : reader[q].v = i}}
    \cup (IF flush.v = i THEN {<<"flush", 0>>} ELSE {})
    \cup (IF compaction.v = i THEN {<<"compaction", 0>>} ELSE {})

\* Counts are what they count: no version, file or memtable is deleted while something refers
\* to it, and nothing else is kept.
CountsAreExact ==
  /\ \A i \in DOMAIN heap.v :
       /\ heap.v[i].refs = Cardinality(Holders(i)) /\ (heap.v[i].refs > 0 \/ i \in {flush.built, compaction.built})
       /\ FilesOf(heap.v[i]) \subseteq DOMAIN heap.f
  /\ {current} \cup {reader[r].v : r \in Readers} \cup {flush.v, flush.built, compaction.v, compaction.built}
       \subseteq DOMAIN heap.v \cup {Nil}
  /\ \A o \in DOMAIN heap.f :
       heap.f[o].refs = Cardinality({i \in DOMAIN heap.v : o \in FilesOf(heap.v[i])})
  /\ \A i \in DOMAIN heap.m :
       heap.m[i] = Cardinality({r \in Readers : i \in {reader[r].mem, reader[r].imm}})
                     + (IF i \in {mem, imm} THEN 1 ELSE 0)
  /\ {mem} \cup {reader[r].mem : r \in Readers} \cup {reader[r].imm : r \in Readers}
       \subseteq DOMAIN heap.m \cup {Nil}

\* The tables of every version that is alive are in the directory: a reader, an iterator or a
\* compaction never finds that a table has been deleted.
FilesStay == LiveNumbers(heap) \subseteq disk

\* The candidate for a compaction by seeks is a file of the version that names it, at that
\* level, and there is a level to compact it into.
CandidateIsThere ==
  \A i \in DOMAIN heap.v :
    LET c == heap.v[i].to_compact IN
    c.file # Nil => c.level < LastLevel /\ c.file \in heap.v[i].files[c.level]

\* Once the background thread has installed a flush or a compaction, and no reader has an older
\* version, the directory has the tables of the current version and no other: every input of
\* this and of earlier compactions is gone, also those that a reader had kept in between.
LeavesNoGarbage ==
  /\ "apply" \in {flush.pc, compaction.pc}
  /\ flush' = FlushIdle /\ compaction' = CompactionIdle /\ ~bg_error'
  /\ \A r \in Readers : reader[r].v \in {Nil, current'}
  => disk' = {heap'.f[o].number : o \in FilesOf(heap'.v[current'])}

\* A table leaves the current version only as an input of the compaction that is installed: one
\* that was flushed while the compaction ran stays.
KeepsOthers ==
  \A o \in FilesOf(heap.v[current]) :
    \/ \E p \in FilesOf(heap'.v[current']) : heap'.f[p].number = heap.f[o].number
    \/ compaction.pc = "apply" /\ compaction' = CompactionIdle /\ o \in compaction.inputs

\* Whoever uses a version has its tables, and whatever nobody uses goes away.
VersionsAreKept ==
  /\ [](FilesStay /\ CountsAreExact /\ CandidateIsThere)
  /\ [][LeavesNoGarbage /\ KeepsOthers]_vars

===============================================================================

------------------------------- MODULE DBProofs -------------------------------
(***************************************************************************)
(* Proofs about DBImpl, for every number of threads, batches, faults and   *)
(* crashes: no acknowledged write is lost, no sequence number is given     *)
(* twice, the tables that the MANIFEST names exist, and no file in use is  *)
(* deleted.                                                                *)
(***************************************************************************)
EXTENDS DBImpl, FiniteSetTheorems, SequenceTheorems, TLAPS

-------------------------------------------------------------------------------
(* The queue of writers *)

AtFront == {"room", "room_wait", "log", "sync", "insert", "finish"}
Leading == {"log", "sync", "insert", "finish"}
Batches == 1..MaxBatches

ThreadPCs == AtFront \cup {"idle", "cv_wait", "woken", "flush", "flush_wait", "manual", "manual_wait"}
ThreadType ==
  [pc : ThreadPCs, sync : BOOLEAN, batch : Batches \cup {Nil}, force : BOOLEAN,
   allow_delay : BOOLEAN, done : BOOLEAN, status : {"ok", "error", "sync_error"},
   last : Threads \cup {Nil}]

QueueTypes ==
  /\ writers_ \in Seq(Threads)
  /\ thread \in [Threads -> ThreadType]
  /\ manual_compaction_ \in Threads \cup {Nil}
  /\ bg_error_ \in BOOLEAN
  /\ phase \in {"open", "closing", "closed", "recovering", "installing"}
  /\ count \in [batches : 0..MaxBatches, faults : Nat, crashes : Nat, ranges : Nat]

\* No thread is twice in the queue, and those in it wait or lead.
QueueIsSet == \A i, j \in DOMAIN writers_ : writers_[i] = writers_[j] => i = j
QueuedWait ==
  \A i \in DOMAIN writers_ :
    ~thread[writers_[i]].done /\ thread[writers_[i]].pc \in AtFront \cup {"cv_wait", "woken"}
WaitersAreQueued ==
  \A t \in Threads : thread[t].pc \in {"cv_wait", "woken"} /\ ~thread[t].done
    => \E i \in DOMAIN writers_ : writers_[i] = t
\* Only the front of the queue goes on, and the group of a leader is in the queue.
FrontLeads ==
  \A t \in Threads : thread[t].pc \in AtFront => writers_ # << >> /\ writers_[1] = t
GroupIsQueued ==
  \A t \in Threads : thread[t].pc \in Leading =>
    \E n \in DOMAIN writers_ :
      writers_[n] = thread[t].last /\ \A i \in 1..n : thread[writers_[i]].sync => thread[t].sync
\* No two threads have the same batch.
BatchesDiffer ==
  /\ \A t \in Threads : thread[t].batch # Nil => thread[t].batch <= count.batches
  /\ \A t, u \in Threads : thread[t].batch # Nil /\ thread[t].batch = thread[u].batch => t = u
ManualWaits ==
  manual_compaction_ # Nil => thread[manual_compaction_].pc \in {"manual", "manual_wait"}

QueueInv ==
  /\ QueueTypes /\ QueueIsSet /\ QueuedWait /\ WaitersAreQueued /\ FrontLeads /\ GroupIsQueued
  /\ BatchesDiffer /\ ManualWaits

-------------------------------------------------------------------------------
(* Files and their numbers *)

VersionType == [l0 : SUBSET Nat, deep : SUBSET Nat]
EditType == [l0 : SUBSET Nat, deep : SUBSET Nat, deleted : SUBSET Nat, log : Nat, next : Nat, seq : Nat]
BgPCs == {"off", "scheduled", "build", "built", "manifest", "install", "compact", "writing", "finish", "trap"}
BgType ==
  [pc : BgPCs, out : Nat \cup {Nil}, output : Nat \cup {Nil}, inputs : SUBSET Nat,
   inputVersion : VersionType, is_manual : BOOLEAN, edit : EditType, status : {"ok", "error"},
   caller : {Nil, "compact", "writing"}, logs : SUBSET Nat]
LogType == [recs : Seq(SUBSET Entries), synced : Nat, torn : BOOLEAN, unread : SUBSET Entries]

FileTypes ==
  /\ logs \in [DOMAIN logs -> LogType] /\ DOMAIN logs \subseteq Nat
  /\ \A n \in DOMAIN logs : logs[n].synced <= Len(logs[n].recs)
  /\ tables \in [DOMAIN tables -> SUBSET Entries] /\ DOMAIN tables \subseteq Nat
  /\ manifest \in Seq(EditType) /\ msynced \in 1..Len(manifest)
  /\ mem \in SUBSET Entries /\ imm \in SUBSET SUBSET Entries
  /\ logfile_number_ \in Nat
  /\ versions \in [current : VersionType, log_number_ : Nat, next_file_number_ : Nat, last_sequence_ : Nat]
  /\ pending_outputs_ \in SUBSET Nat
  /\ bg \in BgType
  /\ pinned \in SUBSET SUBSET Nat
  /\ owed \in SUBSET Entries /\ durable \in SUBSET Entries

HeldIn(tbl, S) == UNION {tbl[f] : f \in S}
Added(edit) == edit.l0 \cup edit.deep
Named(n) == Files(VersionOf(manifest, n))
Left == msynced..Len(manifest)

\* In every part of the MANIFEST that may be left, the numbers of files are below the next
\* number that it has.
ManifestNumbers ==
  \A n \in Left :
    /\ \A f \in Named(n) : f < manifest[n].next
    /\ manifest[n].log < manifest[n].next
    /\ manifest[n].next <= manifest[Len(manifest)].next

\* While the database is open.
LogNumbers ==
  /\ logfile_number_ \in DOMAIN logs /\ versions.log_number_ \in DOMAIN logs
  /\ \A n \in DOMAIN logs : n <= logfile_number_
  /\ logfile_number_ < versions.next_file_number_
  /\ imm = {} => versions.log_number_ = logfile_number_

NumbersAreOld ==
  /\ \A f \in DOMAIN tables : f < versions.next_file_number_
  /\ manifest[Len(manifest)].next <= versions.next_file_number_

InUse == (UNION pinned) \cup Files(bg.inputVersion) \cup Files(versions.current) \subseteq DOMAIN tables

BgIdle == {"off", "scheduled", "trap"}
InManifest == bg.pc \in {"manifest", "install"}
Flushing == bg.pc \in {"build", "built"} \/ (InManifest /\ bg.out # Nil)
Writing == bg.pc = "writing" \/ bg.caller = "writing"

FlushIsRight ==
  /\ bg.pc \in BgIdle => bg = [BackgroundOff EXCEPT !.pc = bg.pc]
  /\ bg.out # Nil <=> Flushing
  /\ bg.caller # Nil => Flushing
  /\ Flushing => imm # {} /\ bg.out < versions.next_file_number_
  /\ bg.pc \in {"build", "built"} => bg.out \in pending_outputs_
  /\ bg.pc = "build" => bg.out \notin DOMAIN tables
  /\ /\ (bg.pc = "built" /\ bg.status = "ok") \/ (InManifest /\ bg.out # Nil)
     /\ UNION imm # {}
     => bg.out \in DOMAIN tables /\ tables[bg.out] = UNION imm
  /\ InManifest /\ bg.out # Nil =>
       /\ bg.edit.deleted = {} /\ bg.edit.log = logfile_number_
       /\ Added(bg.edit) = IF UNION imm = {} THEN {} ELSE {bg.out}

CompactionIsRight ==
  /\ bg.inputs \subseteq Files(bg.inputVersion)
  /\ Writing => /\ bg.output \in DOMAIN tables /\ bg.output \in pending_outputs_
                /\ bg.output \notin Files(bg.inputVersion) \cup Files(versions.current)
                /\ \A n \in Left : bg.output \notin Named(n)
                /\ bg.output # bg.out
  /\ bg.pc = "finish" /\ bg.status = "ok" =>
       bg.output \in DOMAIN tables /\ tables[bg.output] = Held(bg.inputs)
  /\ InManifest /\ bg.out = Nil => bg.edit.log = versions.log_number_

EditIsRight ==
  InManifest =>
    /\ Added(bg.edit) \subseteq DOMAIN tables
    /\ Held(bg.edit.deleted) \subseteq Held(Added(bg.edit))
    /\ \A f \in Added(bg.edit) : f < bg.edit.next
    /\ bg.edit.log < bg.edit.next /\ bg.edit.next <= versions.next_file_number_
    /\ manifest[Len(manifest)].next <= bg.edit.next

OpenFiles == LogNumbers /\ NumbersAreOld /\ InUse /\ FlushIsRight /\ CompactionIsRight /\ EditIsRight

\* Nothing is in memory while the database is closed or opened.
NothingInMemory ==
  /\ mem = {} /\ imm = {} /\ pending_outputs_ = {} /\ ~bg_error_ /\ writers_ = << >>
  /\ thread = [t \in Threads |-> Idle] /\ manual_compaction_ = Nil /\ pinned = {}
  /\ bg = [BackgroundOff EXCEPT !.edit = bg.edit, !.logs = bg.logs]

\* While it is opened: the version of the MANIFEST, the tables made of logs, and the logs left.
RecoveredFiles ==
  /\ Files(versions.current) = Named(Len(manifest))
  /\ versions.log_number_ = manifest[Len(manifest)].log
  /\ Files(versions.current) \cup bg.edit.l0 \subseteq DOMAIN tables
  /\ bg.edit.deep = {} /\ bg.edit.deleted = {}
  /\ manifest[Len(manifest)].next < versions.next_file_number_
  /\ \A f \in bg.edit.l0 : manifest[Len(manifest)].next <= f /\ f < versions.next_file_number_
RecoveringFiles ==
  /\ bg.logs \subseteq DOMAIN logs
  /\ \A n \in bg.logs : n >= manifest[Len(manifest)].log
  /\ \A n \in DOMAIN logs : n \in bg.logs \/ n < versions.next_file_number_
InstallingFiles ==
  /\ bg.logs = {}
  /\ bg.edit.log = logfile_number_ /\ bg.edit.next = versions.next_file_number_
  /\ bg.edit.seq = versions.last_sequence_
  /\ logfile_number_ \in DOMAIN logs /\ logs[logfile_number_].recs = << >>
  /\ \A n \in DOMAIN logs : n <= logfile_number_
  /\ logfile_number_ < versions.next_file_number_

FileInv ==
  /\ FileTypes /\ ManifestNumbers
  /\ Running => OpenFiles
  /\ ~Running => NothingInMemory
  /\ phase = "closed" => bg = BackgroundOff
  /\ phase \in {"recovering", "installing"} => RecoveredFiles
  /\ phase = "recovering" => RecoveringFiles
  /\ phase = "installing" => InstallingFiles

-------------------------------------------------------------------------------
(* The MANIFEST and the tables *)

\* The MANIFEST is known to have the current version, but after an error of a background step
\* and between the write of an edit and its installation.
ManifestIsCurrent ==
  /\ ~bg_error_ /\ bg.pc # "install" =>
       msynced = Len(manifest) /\ Named(Len(manifest)) = Files(versions.current)
  /\ bg.pc = "install" /\ bg.status = "ok" =>
       /\ msynced = Len(manifest) /\ Added(bg.edit) \subseteq Named(Len(manifest))
       /\ ~bg_error_ => Named(Len(manifest)) = Files(Apply(versions.current, bg.edit))

\* Whatever part is left, it has what the current version has.
ManifestHolds ==
  \A n \in Left : Held(Files(versions.current)) \subseteq Held(Named(n))

ManifestInv ==
  /\ ManifestNamesFiles
  /\ \A n \in Left : Held(Named(msynced)) \subseteq Held(Named(n))
  /\ Running => ManifestIsCurrent /\ ManifestHolds

-------------------------------------------------------------------------------
(* Writes *)

\* What a log holds, and what of it is synced; what there is in all logs, and in all tables.
Records(log) == UNION {log.recs[i] : i \in DOMAIN log.recs}
SyncedRecords(log) == UNION {log.recs[i] : i \in 1..log.synced}
AllRecords(lg) == UNION {Records(lg[n]) : n \in DOMAIN lg}
InTables(tbl) == HeldIn(tbl, DOMAIN tbl)
Unique(S) == \A e, f \in S : e.seq = f.seq => e = f
UpTo(S, seq) == \A e \in S : e.seq <= seq

\* A thread leads a group that may be in the log.
Logging == {"sync", "insert", "finish"}

\* A log is replayed by a recovery that finds the first n edits.
LogsAreReplayed ==
  \A n \in Left :
    \/ manifest[n].log <= versions.log_number_
    \/ imm # {} /\ manifest[n].log <= logfile_number_ /\ UNION imm \subseteq HeldIn(tables, Named(n))

MemoryIsLogged ==
  /\ mem \subseteq Records(logs[logfile_number_])
  /\ UNION imm \subseteq Records(logs[versions.log_number_])

GroupIsLogged ==
  \A t \in Threads :
    /\ thread[t].pc \in {"sync", "insert"} => GroupEntries(t) \subseteq Records(logs[logfile_number_])
    /\ thread[t].pc = "insert" /\ thread[t].sync => GroupEntries(t) \subseteq SyncedRecords(logs[logfile_number_])
    /\ thread[t].pc = "finish" /\ thread[t].status = "ok" =>
         /\ GroupEntries(t) \subseteq mem
         /\ thread[t].sync => GroupEntries(t) \subseteq SyncedRecords(logs[logfile_number_])

DurableIsSynced ==
  durable \subseteq (mem \cap SyncedRecords(logs[logfile_number_]))
                    \cup ((UNION imm) \cap SyncedRecords(logs[versions.log_number_]))
                    \cup HeldIn(tables, Files(versions.current))

\* Sequence numbers up to the last one are used, and those of the group that is logged.
SequencesAreUsed ==
  /\ Unique(AllRecords(logs) \cup InTables(tables))
  /\ UpTo(UNION imm, versions.last_sequence_) /\ UpTo(InTables(tables), versions.last_sequence_)
  /\ \A e \in AllRecords(logs) :
       e.seq <= versions.last_sequence_ \/ \E t \in Threads : thread[t].pc \in Logging /\ e \in GroupEntries(t)
  /\ \A n \in Left : manifest[n].seq <= versions.last_sequence_

EditSequences ==
  InManifest =>
    /\ UpTo(HeldIn(tables, Added(bg.edit)), bg.edit.seq) /\ bg.edit.seq <= versions.last_sequence_
    /\ bg.pc = "manifest" => manifest[Len(manifest)].seq <= bg.edit.seq

ManifestSequences == \A n \in Left : UpTo(HeldIn(tables, Named(n)), manifest[n].seq)

OpenWrites ==
  /\ LogsAreReplayed /\ MemoryIsLogged /\ GroupIsLogged /\ DurableIsSynced /\ SequencesAreUsed /\ EditSequences
  /\ owed \subseteq mem \cup (UNION imm) \cup HeldIn(tables, Files(versions.current))

\* What a reader finds in a log, and in what of it is synced.
Readable(log) == Records(log) \ log.unread
ReadableSynced(log) == SyncedRecords(log) \ log.unread

\* What a recovery finds that has the first n edits, and all of the logs or what is synced.
RecordsFrom(lg, log) == UNION {Readable(lg[m]) : m \in {k \in DOMAIN lg : k >= log}}
SyncedFrom(lg, log) == UNION {ReadableSynced(lg[m]) : m \in {k \in DOMAIN lg : k >= log}}
Found(n) == HeldIn(tables, Named(n)) \cup RecordsFrom(logs, manifest[n].log)
FoundSynced(n) == HeldIn(tables, Named(n)) \cup SyncedFrom(logs, manifest[n].log)

\* The writes S are on disk, and of them T whatever a crash of the machine takes away.
OnDisk(S, T) ==
  /\ \A n \in Left : n = Len(manifest) => S \subseteq Found(n)
  /\ \A n \in Left : T \subseteq FoundSynced(n) /\ Unique(Found(n))
DiskWrites == OnDisk(owed, durable)

RecoveredWrites ==
  LET read == HeldIn(tables, Files(versions.current)) \cup HeldIn(tables, bg.edit.l0) IN
  /\ \A n \in Left : n = Len(manifest) => Found(n) = (read \cup dropped) \cup UNION {Readable(logs[m]) : m \in bg.logs}
  /\ UpTo(read, versions.last_sequence_)

WriteInv ==
  /\ durable \subseteq owed
  /\ ManifestSequences
  /\ Running => OpenWrites
  /\ ~Running => DiskWrites
  /\ phase \in {"recovering", "installing"} => RecoveredWrites

\* Nothing that was read is counted as dropped but by a recovery, and nothing is lost without a fault.
LossInv ==
  /\ phase \notin {"recovering", "installing"} => dropped = {}
  /\ OnlyFaultsLose

\* A thread w is v, or was woken and is v now.
Wakes(w, v) ==
  \/ v = w
  \/ w.pc = "room_wait" /\ v = [w EXCEPT !.pc = "room"]
  \/ w.pc = "flush_wait" /\ v = [w EXCEPT !.pc = "flush"]
  \/ w.pc = "manual_wait" /\ v = [w EXCEPT !.pc = "manual"]

\* SignalAll changes nothing but where threads wait.
LEMMA SignalAllWakes ==
  ASSUME NEW th \in [Threads -> ThreadType]
  PROVE  /\ SignalAll(th) \in [Threads -> ThreadType]
         /\ \A t \in Threads : Wakes(th[t], SignalAll(th)[t])
<1>1. DOMAIN Resumed = {"room_wait", "flush_wait", "manual_wait"}
  BY DEF Resumed
<1>2. Resumed["room_wait"] = "room" /\ Resumed["flush_wait"] = "flush" /\ Resumed["manual_wait"] = "manual"
  BY DEF Resumed
<1>3. ASSUME NEW t \in Threads
      PROVE  SignalAll(th)[t] \in ThreadType /\ Wakes(th[t], SignalAll(th)[t])
  <2>1. th[t] \in ThreadType
    OBVIOUS
  <2>2. SignalAll(th)[t] = IF th[t].pc \in DOMAIN Resumed
                           THEN [th[t] EXCEPT !.pc = Resumed[th[t].pc]] ELSE th[t]
    BY DEF SignalAll
  <2>3. CASE th[t].pc \in DOMAIN Resumed
    BY <1>1, <1>2, <2>1, <2>2, <2>3 DEF Wakes, ThreadType, ThreadPCs, AtFront
  <2>4. CASE th[t].pc \notin DOMAIN Resumed
    BY <2>1, <2>2, <2>4 DEF Wakes
  <2> QED BY <2>3, <2>4
<1>4. SignalAll(th) = [t \in Threads |-> SignalAll(th)[t]]
  BY DEF SignalAll
<1> QED BY <1>3, <1>4

\* RecordBackgroundError wakes those who wait and changes nothing else.
LEMMA RecordErrorWakes ==
  ASSUME NEW th \in [Threads -> ThreadType]
  PROVE  /\ RecordError(th) \in [Threads -> ThreadType]
         /\ \A t \in Threads : Wakes(th[t], RecordError(th)[t])
BY SignalAllWakes DEF RecordError, Wakes

\* A thread that is woken keeps all but its place.
LEMMA WakesFields ==
  ASSUME NEW w \in ThreadType, NEW v, Wakes(w, v)
  PROVE  /\ v \in ThreadType
         /\ v.batch = w.batch /\ v.sync = w.sync /\ v.done = w.done /\ v.status = w.status /\ v.last = w.last
         /\ v.force = w.force /\ v.allow_delay = w.allow_delay
         /\ v.pc = w.pc \/ (w.pc = "room_wait" /\ v.pc = "room") \/ (w.pc = "flush_wait" /\ v.pc = "flush")
              \/ (w.pc = "manual_wait" /\ v.pc = "manual")
BY DEF Wakes, ThreadType, ThreadPCs, AtFront

\* In the queue are threads.
LEMMA QueuePlaces ==
  ASSUME NEW q \in Seq(Threads), NEW n \in DOMAIN q
  PROVE  /\ n \in Nat \ {0} /\ n <= Len(q)
         /\ \A i \in 1..n : i \in DOMAIN q /\ q[i] \in Threads
OBVIOUS

\* The queue without its first n threads.
LEMMA QueueRest ==
  ASSUME NEW q \in Seq(Threads), NEW n \in DOMAIN q
  PROVE  /\ SubSeq(q, n + 1, Len(q)) \in Seq(Threads)
         /\ Len(SubSeq(q, n + 1, Len(q))) = Len(q) - n
         /\ \A j \in DOMAIN SubSeq(q, n + 1, Len(q)) : n + j \in DOMAIN q /\ SubSeq(q, n + 1, Len(q))[j] = q[n + j]
<1> DEFINE s == SubSeq(q, n + 1, Len(q))
<1>1. n \in Nat \ {0} /\ n <= Len(q) /\ Len(q) \in Nat
  BY QueuePlaces
<1>2. \A i \in n + 1..Len(q) : q[i] \in Threads
  BY <1>1
<1>3. /\ s \in Seq(Threads)
      /\ Len(s) = IF n + 1 <= Len(q) THEN Len(q) - (n + 1) + 1 ELSE 0
      /\ \A j \in 1..Len(q) - (n + 1) + 1 : s[j] = q[(n + 1) + j - 1]
  BY <1>1, <1>2, SubSeqProperties
<1> HIDE DEF s
<1>4. Len(s) = Len(q) - n
  BY <1>1, <1>3
<1>5. \A j \in DOMAIN s : n + j \in DOMAIN q /\ s[j] = q[n + j]
  BY <1>1, <1>3, <1>4
<1> QED BY <1>3, <1>4, <1>5 DEF s

\* Steps that only wake threads, or tell the one with the manual compaction that it is done.
LEMMA QueueWoken ==
  ASSUME QueueInv, UNCHANGED writers_, bg_error_' \in BOOLEAN,
         count' \in [batches : {count.batches}, faults : Nat, crashes : Nat, ranges : Nat],
         phase' \in {"open", "closing", "closed", "recovering", "installing"},
         NEW th, 
         th = thread \/ (manual_compaction_ # Nil /\ th = [thread EXCEPT ![manual_compaction_].done = TRUE]),
         thread' \in [Threads -> ThreadType],
         \A t \in Threads : Wakes(th[t], thread'[t]),
         manual_compaction_' \in {manual_compaction_, Nil}
  PROVE  QueueInv'
<1> USE DEF QueueInv, QueueTypes
<1>1. th \in [Threads -> ThreadType]
  <2>1. CASE manual_compaction_ # Nil /\ th = [thread EXCEPT ![manual_compaction_].done = TRUE]
    <3>1. manual_compaction_ \in Threads /\ thread[manual_compaction_] \in ThreadType
      BY <2>1
    <3>2. [thread[manual_compaction_] EXCEPT !.done = TRUE] \in ThreadType
      BY <3>1 DEF ThreadType
    <3> QED BY <2>1, <3>1, <3>2
  <2> QED BY <2>1
<1>2. \A t \in Threads :
        /\ thread'[t].batch = thread[t].batch /\ thread'[t].sync = thread[t].sync /\ thread'[t].last = thread[t].last
        /\ thread'[t].done # thread[t].done => t = manual_compaction_ /\ thread[t].pc \in {"manual", "manual_wait"}
        /\ thread'[t].pc = thread[t].pc
             \/ (thread[t].pc = "room_wait" /\ thread'[t].pc = "room")
             \/ (thread[t].pc = "flush_wait" /\ thread'[t].pc = "flush")
             \/ (thread[t].pc = "manual_wait" /\ thread'[t].pc = "manual")
  <2> TAKE t \in Threads
  <2>1. th[t] \in ThreadType /\ Wakes(th[t], thread'[t])
    BY <1>1
  <2>2. /\ th[t].batch = thread[t].batch /\ th[t].sync = thread[t].sync /\ th[t].last = thread[t].last
        /\ th[t].pc = thread[t].pc
        /\ th[t].done # thread[t].done => t = manual_compaction_ /\ thread[t].pc \in {"manual", "manual_wait"}
    BY DEF ThreadType, ManualWaits
  <2> QED BY <2>1, <2>2, WakesFields
<1>3. QueueTypes'
  OBVIOUS
<1>4. QueueIsSet'
  BY DEF QueueIsSet
<1>5. QueuedWait'
  <2> SUFFICES ASSUME NEW i \in DOMAIN writers_
               PROVE  ~thread'[writers_[i]].done /\ thread'[writers_[i]].pc \in AtFront \cup {"cv_wait", "woken"}
    BY DEF QueuedWait
  <2>1. writers_[i] \in Threads
    OBVIOUS
  <2>2. ~thread[writers_[i]].done /\ thread[writers_[i]].pc \in AtFront \cup {"cv_wait", "woken"}
    BY DEF QueuedWait
  <2>3. thread[writers_[i]].done \in BOOLEAN /\ thread'[writers_[i]].done \in BOOLEAN
    BY <2>1 DEF ThreadType
  <2> QED BY <1>2, <2>1, <2>2, <2>3 DEF AtFront
<1>6. WaitersAreQueued'
  BY <1>2 DEF WaitersAreQueued, ThreadType
<1>7. FrontLeads'
  BY <1>2 DEF FrontLeads, AtFront
<1>8. GroupIsQueued'
  <2>1. \A t \in Threads : thread'[t].pc \in Leading => thread[t].pc \in Leading
    BY <1>2 DEF Leading
  <2> SUFFICES ASSUME NEW t \in Threads, thread'[t].pc \in Leading
               PROVE  \E n \in DOMAIN writers_ :
                        /\ writers_[n] = thread'[t].last
                        /\ \A i \in 1..n : thread'[writers_[i]].sync => thread'[t].sync
    BY DEF GroupIsQueued
  <2>2. PICK n \in DOMAIN writers_ :
          writers_[n] = thread[t].last /\ \A i \in 1..n : thread[writers_[i]].sync => thread[t].sync
    BY <2>1 DEF GroupIsQueued
  <2>3. \A i \in 1..n : writers_[i] \in Threads
    BY QueuePlaces
  <2> QED BY <1>2, <2>2, <2>3
<1>9. BatchesDiffer'
  <2>1. count'.batches = count.batches
    OBVIOUS
  <2> QED BY <1>2, <2>1 DEF BatchesDiffer
<1>10. ManualWaits'
  BY <1>2 DEF ManualWaits
<1> QED BY <1>3, <1>4, <1>5, <1>6, <1>7, <1>8, <1>9, <1>10

\* A thread of the queue goes on and stays in it.
LEMMA QueueStays ==
  ASSUME QueueInv, UNCHANGED <<writers_, manual_compaction_, bg_error_, phase>>,
         count' \in [batches : {count.batches}, faults : Nat, crashes : Nat, ranges : Nat],
         NEW t \in Threads, NEW w \in ThreadType, thread' = [thread EXCEPT ![t] = w],
         NEW p \in DOMAIN writers_, writers_[p] = t,
         w.batch = thread[t].batch, w.sync = thread[t].sync, ~w.done,
         w.pc \in AtFront \cup {"cv_wait", "woken"}, w.pc \in AtFront => writers_[1] = t,
         w.pc \in Leading => \E n \in DOMAIN writers_ :
           writers_[n] = w.last /\ \A i \in 1..n : thread[writers_[i]].sync => w.sync
  PROVE  QueueInv'
<1> USE DEF QueueInv, QueueTypes
<1>1. \A u \in Threads : thread'[u] = IF u = t THEN w ELSE thread[u]
  OBVIOUS
<1>2. QueueTypes'
  OBVIOUS
<1>3. QueueIsSet'
  BY DEF QueueIsSet
<1>4. \A i \in DOMAIN writers_ : writers_[i] \in Threads
  OBVIOUS
<1>5. QueuedWait'
  BY <1>1, <1>4 DEF QueuedWait
<1>6. WaitersAreQueued'
  BY <1>1 DEF WaitersAreQueued
<1>7. FrontLeads'
  <2>1. writers_ # << >>
    OBVIOUS
  <2> QED BY <1>1, <2>1 DEF FrontLeads
<1>8. GroupIsQueued'
  <2> SUFFICES ASSUME NEW u \in Threads, thread'[u].pc \in Leading
               PROVE  \E n \in DOMAIN writers_ :
                        /\ writers_[n] = thread'[u].last
                        /\ \A i \in 1..n : thread'[writers_[i]].sync => thread'[u].sync
    BY DEF GroupIsQueued
  <2>1. PICK n \in DOMAIN writers_ :
          writers_[n] = thread'[u].last /\ \A i \in 1..n : thread[writers_[i]].sync => thread'[u].sync
    BY <1>1 DEF GroupIsQueued
  <2>2. \A i \in 1..n : writers_[i] \in Threads
    BY QueuePlaces
  <2> QED BY <1>1, <2>1, <2>2
<1>9. BatchesDiffer'
  BY <1>1 DEF BatchesDiffer
<1>10. ManualWaits'
  <2>1. thread[t].pc \in AtFront \cup {"cv_wait", "woken"}
    BY DEF QueuedWait
  <2> QED BY <1>1, <2>1 DEF ManualWaits, AtFront
<1> QED BY <1>2, <1>3, <1>5, <1>6, <1>7, <1>8, <1>9, <1>10

\* A thread that is not in the queue goes on, or returns.
LEMMA QueueLeft ==
  ASSUME QueueInv, UNCHANGED <<writers_, count, bg_error_, phase>>,
         NEW t \in Threads, NEW w \in ThreadType, thread' = [thread EXCEPT ![t] = w],
         \A i \in DOMAIN writers_ : writers_[i] # t,
         w.batch \in {thread[t].batch, Nil}, w.pc \in {"idle", "flush", "flush_wait", "manual", "manual_wait"},
         manual_compaction_' \in {manual_compaction_, Nil, t},
         manual_compaction_' = t => w.pc \in {"manual", "manual_wait"}
  PROVE  QueueInv'
<1> USE DEF QueueInv, QueueTypes
<1>1. \A u \in Threads : thread'[u] = IF u = t THEN w ELSE thread[u]
  OBVIOUS
<1>2. QueueTypes'
  OBVIOUS
<1>3. QueueIsSet'
  BY DEF QueueIsSet
<1>4. \A i \in DOMAIN writers_ : writers_[i] \in Threads /\ writers_[i] # t
  OBVIOUS
<1>5. QueuedWait'
  BY <1>1, <1>4 DEF QueuedWait
<1>6. WaitersAreQueued'
  BY <1>1 DEF WaitersAreQueued
<1>7. FrontLeads'
  BY <1>1 DEF FrontLeads, AtFront
<1>8. GroupIsQueued'
  <2> SUFFICES ASSUME NEW u \in Threads, thread'[u].pc \in Leading
               PROVE  \E n \in DOMAIN writers_ :
                        /\ writers_[n] = thread'[u].last
                        /\ \A i \in 1..n : thread'[writers_[i]].sync => thread'[u].sync
    BY DEF GroupIsQueued
  <2>1. PICK n \in DOMAIN writers_ :
          writers_[n] = thread'[u].last /\ \A i \in 1..n : thread[writers_[i]].sync => thread'[u].sync
    BY <1>1 DEF GroupIsQueued, Leading
  <2>2. \A i \in 1..n : writers_[i] \in Threads /\ writers_[i] # t
    BY <1>4, QueuePlaces
  <2> QED BY <1>1, <2>1, <2>2
<1>9. BatchesDiffer'
  BY <1>1 DEF BatchesDiffer
<1>10. ManualWaits'
  BY <1>1 DEF ManualWaits
<1> QED BY <1>2, <1>3, <1>5, <1>6, <1>7, <1>8, <1>9, <1>10

\* Who has done, or does not wait or lead, is not in the queue.
LEMMA NotQueued ==
  ASSUME QueueInv, NEW t \in Threads,
         thread[t].done \/ thread[t].pc \in {"idle", "flush", "flush_wait", "manual", "manual_wait"}
  PROVE  \A i \in DOMAIN writers_ : writers_[i] # t
BY DEF QueueInv, QueuedWait, AtFront
\* Signal changes the place of a writer that waits, and nothing else.
LEMMA SignalFields ==
  ASSUME NEW w \in ThreadType
  PROVE  /\ Signal(w) \in ThreadType
         /\ Signal(w).batch = w.batch /\ Signal(w).sync = w.sync /\ Signal(w).done = w.done
         /\ Signal(w).last = w.last /\ Signal(w).status = w.status
         /\ Signal(w).pc = IF w.pc = "cv_wait" THEN "woken" ELSE w.pc
BY DEF Signal, ThreadType, ThreadPCs

\* A thread that is not in Write has no batch.
LEMMA IdleFields ==
  ASSUME NEW pc \in {"idle", "flush", "manual"}
  PROVE  /\ [Idle EXCEPT !.pc = pc] \in ThreadType
         /\ [Idle EXCEPT !.pc = pc].batch = Nil /\ [Idle EXCEPT !.pc = pc].pc = pc
         /\ ~[Idle EXCEPT !.pc = pc].done
BY DEF Idle, ThreadType, ThreadPCs

\* Where a thread is when its Write is over.
LEMMA ReturnsFields ==
  ASSUME NEW w, NEW status
  PROVE  /\ Returns(w, status) \in ThreadType
         /\ Returns(w, status).batch = Nil /\ Returns(w, status).pc \in {"idle", "flush", "manual"}
<1>1. Idle = [Idle EXCEPT !.pc = "idle"]
  <2>1. DOMAIN Idle = DOMAIN [Idle EXCEPT !.pc = "idle"] /\ Idle.pc = "idle"
    BY DEF Idle
  <2> QED BY <2>1 DEF Idle
<1>2. \E pc \in {"idle", "flush", "manual"} : Returns(w, status) = [Idle EXCEPT !.pc = pc]
  BY <1>1 DEF Returns
<1> QED BY <1>2, IdleFields

\* What the end of a Write of t does that takes n threads: they leave the queue and are done,
\* and the others are as they were, but the next one is woken.
Popped(n, t) ==
  /\ writers_' \in Seq(Threads) /\ Len(writers_') = Len(writers_) - n
  /\ \A j \in DOMAIN writers_' : n + j \in DOMAIN writers_ /\ writers_'[j] = writers_[n + j]
  /\ thread' \in [Threads -> ThreadType]
  /\ thread'[t].batch = Nil /\ thread'[t].pc \in {"idle", "flush", "manual"}
  /\ \A i \in 1..n : writers_[i] # t =>
       /\ thread'[writers_[i]].done /\ thread'[writers_[i]].pc \in {"cv_wait", "woken"}
       /\ thread'[writers_[i]].batch = thread[writers_[i]].batch
  /\ \A u \in Threads : (\A i \in 1..n : writers_[i] # u) =>
       /\ thread'[u].batch = thread[u].batch /\ thread'[u].sync = thread[u].sync
       /\ thread'[u].done = thread[u].done /\ thread'[u].last = thread[u].last
       /\ thread'[u].status = thread[u].status
       /\ thread'[u].pc = thread[u].pc
            \/ (thread[u].pc = "cv_wait" /\ thread'[u].pc = "woken" /\ \E i \in DOMAIN writers_ : writers_[i] = u)
            \/ (thread[u].pc = "room_wait" /\ thread'[u].pc = "room")
            \/ (thread[u].pc = "flush_wait" /\ thread'[u].pc = "flush")
            \/ (thread[u].pc = "manual_wait" /\ thread'[u].pc = "manual")

\* The tail of Write: who leaves the queue is done, its new front is woken.
LEMMA PopThreads ==
  ASSUME QueueInv, NEW t \in Threads, thread[t].pc \in AtFront,
         NEW last, NEW status \in {"ok", "error"}, NEW th \in [Threads -> ThreadType],
         \A u \in Threads : Wakes(thread[u], th[u]), Pop(t, last, status, th)
  PROVE  \E n \in DOMAIN writers_ :
         /\ writers_[n] = last
         /\ Popped(n, t)
<1> USE DEF QueueInv, QueueTypes
<1> DEFINE group(n) == {writers_[i] : i \in 1..n}
           rest(n) == SubSeq(writers_, n + 1, Len(writers_))
           now(n, u) ==
             CASE u = t -> Returns(th[u], status)
               [] u # t /\ u \in group(n) -> Signal([th[u] EXCEPT !.done = TRUE, !.status = status])
               [] u \notin group(n) /\ rest(n) # << >> /\ u = Head(rest(n)) -> Signal(th[u])
               [] OTHER -> th[u]
<1>1. PICK n \in DOMAIN writers_ :
        writers_[n] = last /\ writers_' = rest(n) /\ thread' = [u \in Threads |-> now(n, u)]
  BY DEF Pop
<1> HIDE DEF now
<1>2. \A u \in Threads : thread'[u] = now(n, u)
  BY <1>1
<1>3. /\ rest(n) \in Seq(Threads) /\ Len(rest(n)) = Len(writers_) - n
      /\ \A j \in DOMAIN rest(n) : n + j \in DOMAIN writers_ /\ rest(n)[j] = writers_[n + j]
  BY QueueRest
<1>4. t = writers_[1] /\ t \in group(n) /\ \A i \in 1..n : writers_[i] \in Threads
  BY QueuePlaces DEF FrontLeads
<1>5. \A u \in Threads : /\ th[u] \in ThreadType /\ th[u].batch = thread[u].batch
                         /\ th[u].sync = thread[u].sync /\ th[u].done = thread[u].done /\ th[u].last = thread[u].last
                         /\ th[u].status = thread[u].status
                         /\ th[u].pc = thread[u].pc \/ (thread[u].pc = "room_wait" /\ th[u].pc = "room")
                              \/ (thread[u].pc = "flush_wait" /\ th[u].pc = "flush")
                              \/ (thread[u].pc = "manual_wait" /\ th[u].pc = "manual")
  BY WakesFields
<1>6. thread'[t] = Returns(th[t], status)
  BY <1>2, <1>4 DEF now
<1>7. ASSUME NEW u \in Threads, u # t, u \in group(n)
      PROVE  /\ thread'[u] \in ThreadType /\ thread'[u].done /\ thread'[u].pc \in {"cv_wait", "woken"}
             /\ thread'[u].batch = thread[u].batch
  <2>1. thread'[u] = Signal([th[u] EXCEPT !.done = TRUE, !.status = status])
    BY <1>2, <1>7 DEF now
  <2> DEFINE w == [th[u] EXCEPT !.done = TRUE, !.status = status]
  <2>2. w \in ThreadType /\ w.done /\ w.batch = thread[u].batch /\ w.pc = th[u].pc
    <3>1. th[u] \in ThreadType /\ th[u].batch = thread[u].batch
      BY <1>5
    <3> QED BY <3>1 DEF ThreadType
  <2>3. thread[u].pc \in {"cv_wait", "woken"}
    BY <1>4, <1>7 DEF QueuedWait, FrontLeads
  <2>4. w.pc = thread[u].pc
    BY <1>5, <2>2, <2>3
  <2> HIDE DEF w
  <2>5. thread'[u] = Signal(w)
    BY <2>1 DEF w
  <2> QED BY <2>2, <2>3, <2>4, <2>5, SignalFields
<1>8. ASSUME NEW u \in Threads, u \notin group(n)
      PROVE  /\ thread'[u] \in ThreadType
             /\ thread'[u].batch = thread[u].batch /\ thread'[u].sync = thread[u].sync
             /\ thread'[u].done = thread[u].done /\ thread'[u].last = thread[u].last
             /\ thread'[u].status = thread[u].status
             /\ thread'[u].pc = thread[u].pc
                   \/ (thread[u].pc = "cv_wait" /\ thread'[u].pc = "woken" /\ \E i \in DOMAIN writers_ : writers_[i] = u)
                   \/ (thread[u].pc = "room_wait" /\ thread'[u].pc = "room")
                   \/ (thread[u].pc = "flush_wait" /\ thread'[u].pc = "flush")
                   \/ (thread[u].pc = "manual_wait" /\ thread'[u].pc = "manual")
  <2>1. CASE rest(n) # << >> /\ u = Head(rest(n))
    <3>1. thread'[u] = Signal(th[u])
      BY <1>2, <1>4, <1>8, <2>1 DEF now
    <3>2. \E i \in DOMAIN writers_ : writers_[i] = u
      BY <1>3, <2>1
    <3> QED BY <1>5, <3>1, <3>2, SignalFields
  <2>2. CASE ~(rest(n) # << >> /\ u = Head(rest(n)))
    <3>1. thread'[u] = th[u]
      BY <1>2, <1>4, <1>8, <2>2 DEF now
    <3> QED BY <1>5, <3>1
  <2> QED BY <2>1, <2>2
<1>9. thread' \in [Threads -> ThreadType]
  <2>1. \A u \in Threads : thread'[u] \in ThreadType
    BY <1>6, <1>7, <1>8, ReturnsFields
  <2>2. thread' = [u \in Threads |-> thread'[u]]
    BY <1>1
  <2> QED BY <2>1, <2>2
<1> HIDE DEF rest
<1>10. \A i \in 1..n : writers_[i] \in group(n)
  OBVIOUS
<1>11. \A u \in Threads : (\A i \in 1..n : writers_[i] # u) => u \notin group(n)
  OBVIOUS
<1> HIDE DEF group
<1>12. thread'[t].batch = Nil /\ thread'[t].pc \in {"idle", "flush", "manual"}
  BY <1>6, ReturnsFields
<1>13. \A i \in 1..n : writers_[i] # t =>
              /\ thread'[writers_[i]].done /\ thread'[writers_[i]].pc \in {"cv_wait", "woken"}
              /\ thread'[writers_[i]].batch = thread[writers_[i]].batch
  BY <1>4, <1>7, <1>10
<1> QED BY <1>1, <1>3, <1>8, <1>9, <1>11, <1>12, <1>13 DEF Popped

\* It keeps the queue right.
LEMMA QueuePopped ==
  ASSUME QueueInv, NEW t \in Threads, thread[t].pc \in AtFront,
         NEW last, NEW status \in {"ok", "error"}, NEW th \in [Threads -> ThreadType],
         \A u \in Threads : Wakes(thread[u], th[u]), Pop(t, last, status, th),
         UNCHANGED <<manual_compaction_, phase>>, bg_error_' \in BOOLEAN,
         count' \in [batches : {count.batches}, faults : Nat, crashes : Nat, ranges : Nat]
  PROVE  QueueInv'
<1>1. PICK n \in DOMAIN writers_ : Popped(n, t)
  BY PopThreads
<1> DEFINE gone(u) == \E i \in 1..n : writers_[i] = u
<1>2. thread'[t].batch = Nil /\ thread'[t].pc \in {"idle", "flush", "manual"}
  BY <1>1 DEF Popped
<1>3. \A u \in Threads : gone(u) /\ u # t =>
         /\ thread'[u].done /\ thread'[u].pc \in {"cv_wait", "woken"} /\ thread'[u].batch = thread[u].batch
  BY <1>1 DEF Popped
<1>4. \A u \in Threads : ~gone(u) =>
              /\ thread'[u].batch = thread[u].batch /\ thread'[u].sync = thread[u].sync
              /\ thread'[u].done = thread[u].done /\ thread'[u].last = thread[u].last
              /\ thread'[u].pc = thread[u].pc
                   \/ (thread[u].pc = "cv_wait" /\ thread'[u].pc = "woken" /\ \E i \in DOMAIN writers_ : writers_[i] = u)
                   \/ (thread[u].pc = "room_wait" /\ thread'[u].pc = "room")
                   \/ (thread[u].pc = "flush_wait" /\ thread'[u].pc = "flush")
                   \/ (thread[u].pc = "manual_wait" /\ thread'[u].pc = "manual")
  BY <1>1 DEF Popped
<1> USE DEF QueueInv, QueueTypes
<1>5. t = writers_[1] /\ gone(t)
  BY QueuePlaces DEF FrontLeads
<1>6. \A j \in DOMAIN writers_' : ~gone(writers_'[j]) /\ writers_'[j] \in Threads
  BY <1>1, QueuePlaces DEF QueueIsSet, Popped
<1>7. \A u \in Threads : (\E i \in DOMAIN writers_ : writers_[i] = u) /\ ~gone(u)
         => \E j \in DOMAIN writers_' : writers_'[j] = u
  <2> SUFFICES ASSUME NEW i \in DOMAIN writers_, ~gone(writers_[i])
               PROVE  \E j \in DOMAIN writers_' : writers_'[j] = writers_[i]
    OBVIOUS
  <2>1. i > n
    OBVIOUS
  <2>2. i - n \in DOMAIN writers_' /\ writers_'[i - n] = writers_[n + (i - n)]
    BY <1>1, <2>1 DEF Popped
  <2> QED BY <2>2
<1> HIDE DEF gone
<1>8. QueueTypes'
  BY <1>1 DEF Popped
<1>9. QueueIsSet'
  BY <1>1 DEF QueueIsSet, Popped
<1>10. QueuedWait'
  <2> SUFFICES ASSUME NEW j \in DOMAIN writers_'
               PROVE  ~thread'[writers_'[j]].done /\ thread'[writers_'[j]].pc \in AtFront \cup {"cv_wait", "woken"}
    BY DEF QueuedWait
  <2> DEFINE u == writers_'[j]
  <2>1. u \in Threads /\ ~gone(u) /\ ~thread[u].done /\ thread[u].pc \in AtFront \cup {"cv_wait", "woken"}
    BY <1>1, <1>6 DEF QueuedWait, Popped
  <2> HIDE DEF u
  <2> QED BY <1>4, <2>1 DEF u, AtFront
<1>11. WaitersAreQueued'
  <2> SUFFICES ASSUME NEW u \in Threads, thread'[u].pc \in {"cv_wait", "woken"}, ~thread'[u].done
               PROVE  \E j \in DOMAIN writers_' : writers_'[j] = u
    BY DEF WaitersAreQueued
  <2>1. ~gone(u)
    BY <1>2, <1>3
  <2>2. \E i \in DOMAIN writers_ : writers_[i] = u
    BY <1>4, <2>1 DEF WaitersAreQueued
  <2> QED BY <1>7, <2>1, <2>2
<1>12. \A u \in Threads : thread'[u].pc \notin AtFront
  <2> SUFFICES ASSUME NEW u \in Threads, thread'[u].pc \in AtFront
               PROVE  FALSE
    OBVIOUS
  <2>1. ~gone(u)
    BY <1>2, <1>3 DEF AtFront
  <2>2. thread[u].pc \in AtFront
    BY <1>4, <2>1 DEF AtFront
  <2> QED BY <1>5, <2>1, <2>2 DEF FrontLeads
<1>13. FrontLeads' /\ GroupIsQueued'
  BY <1>12 DEF FrontLeads, GroupIsQueued, Leading, AtFront
<1>14. BatchesDiffer'
  <2>1. \A u \in Threads : thread'[u].batch \in {thread[u].batch, Nil}
    BY <1>2, <1>3, <1>4
  <2>2. count'.batches = count.batches
    OBVIOUS
  <2> QED BY <2>1, <2>2 DEF BatchesDiffer
<1>15. ManualWaits'
  <2> SUFFICES ASSUME manual_compaction_ # Nil
               PROVE  thread'[manual_compaction_].pc \in {"manual", "manual_wait"}
    BY DEF ManualWaits
  <2>1. thread[manual_compaction_].pc \in {"manual", "manual_wait"} /\ manual_compaction_ \in Threads
    BY DEF ManualWaits
  <2>2. ~gone(manual_compaction_)
    BY <2>1, NotQueued, QueuePlaces DEF gone
  <2> QED BY <1>4, <2>1, <2>2
<1> QED BY <1>8, <1>9, <1>10, <1>11, <1>13, <1>14, <1>15
\* A thread joins the queue with a batch that nobody else has, or with none.
LEMMA QueueJoined ==
  ASSUME QueueInv, DBAssumption, NEW t \in Threads, NEW sync \in BOOLEAN, NEW batch \in Batches \cup {Nil},
         Enqueue(t, sync, batch),
         count' \in [batches : 0..MaxBatches, faults : Nat, crashes : Nat, ranges : Nat],
         count.batches <= count'.batches,
         batch # Nil => count.batches < batch /\ batch <= count'.batches
  PROVE  QueueInv'
<1> USE DEF QueueInv, QueueTypes
<1> DEFINE w == [Idle EXCEPT !.pc = IF writers_ = << >> THEN "room" ELSE "cv_wait",
                    !.sync = sync, !.batch = batch,
                    !.force = batch = Nil, !.allow_delay = batch # Nil]
<1>1. /\ w \in ThreadType /\ w.batch = batch /\ ~w.done
      /\ w.pc = IF writers_ = << >> THEN "room" ELSE "cv_wait"
  BY DEF Idle, ThreadType, ThreadPCs, AtFront
<1>2. /\ writers_' = Append(writers_, t) /\ thread' = [thread EXCEPT ![t] = w]
      /\ thread[t].pc = "idle" /\ phase' = phase /\ bg_error_' = bg_error_
      /\ manual_compaction_' = manual_compaction_
  BY DEF Enqueue, memory
<1> HIDE DEF w
<1>3. /\ \A u \in Threads : thread'[u] = IF u = t THEN w ELSE thread[u]
      /\ \A i \in DOMAIN writers_ : writers_[i] # t /\ writers_[i] \in Threads
  BY <1>2, NotQueued
<1>4. /\ writers_' \in Seq(Threads) /\ Len(writers_') = Len(writers_) + 1
      /\ \A i \in DOMAIN writers_ : i \in DOMAIN writers_' /\ writers_'[i] = writers_[i]
      /\ writers_'[Len(writers_) + 1] = t
      /\ \A i \in DOMAIN writers_' : i = Len(writers_) + 1 \/ i \in DOMAIN writers_
  BY <1>2
<1>5. QueueTypes'
  BY <1>1, <1>2, <1>4
<1>6. QueueIsSet'
  BY <1>3, <1>4 DEF QueueIsSet
<1>7. QueuedWait'
  <2> SUFFICES ASSUME NEW i \in DOMAIN writers_'
               PROVE  ~thread'[writers_'[i]].done /\ thread'[writers_'[i]].pc \in AtFront \cup {"cv_wait", "woken"}
    BY DEF QueuedWait
  <2>1. CASE i = Len(writers_) + 1
    BY <1>1, <1>3, <1>4, <2>1 DEF AtFront
  <2>2. CASE i \in DOMAIN writers_
    BY <1>3, <1>4, <2>2 DEF QueuedWait
  <2> QED BY <1>4, <2>1, <2>2
<1>8. WaitersAreQueued'
  <2> SUFFICES ASSUME NEW u \in Threads, thread'[u].pc \in {"cv_wait", "woken"}, ~thread'[u].done
               PROVE  \E i \in DOMAIN writers_' : writers_'[i] = u
    BY DEF WaitersAreQueued
  <2>1. CASE u = t
    BY <1>4, <2>1
  <2>2. CASE u # t
    BY <1>3, <1>4, <2>2 DEF WaitersAreQueued
  <2> QED BY <2>1, <2>2
<1>9. FrontLeads'
  <2> SUFFICES ASSUME NEW u \in Threads, thread'[u].pc \in AtFront
               PROVE  writers_' # << >> /\ writers_'[1] = u
    BY DEF FrontLeads
  <2>1. CASE u = t
    <3>1. writers_ = << >>
      BY <1>1, <1>3, <2>1 DEF AtFront
    <3>2. Len(writers_) = 0
      BY <3>1
    <3>3. writers_' # << >>
      BY <1>4
    <3> QED BY <1>4, <2>1, <3>2, <3>3
  <2>2. CASE u # t
    <3>1. writers_ # << >> /\ writers_[1] = u
      BY <1>3, <2>2 DEF FrontLeads
    <3>2. 1 \in DOMAIN writers_
      BY <3>1
    <3> QED BY <1>4, <3>1, <3>2
  <2> QED BY <2>1, <2>2
<1>10. GroupIsQueued'
  <2> SUFFICES ASSUME NEW u \in Threads, thread'[u].pc \in Leading
               PROVE  \E n \in DOMAIN writers_' :
                        /\ writers_'[n] = thread'[u].last
                        /\ \A i \in 1..n : thread'[writers_'[i]].sync => thread'[u].sync
    BY DEF GroupIsQueued
  <2>1. u # t /\ thread'[u] = thread[u]
    BY <1>1, <1>3 DEF Leading
  <2>2. PICK n \in DOMAIN writers_ :
          writers_[n] = thread[u].last /\ \A i \in 1..n : thread[writers_[i]].sync => thread[u].sync
    BY <2>1 DEF GroupIsQueued
  <2>3. \A i \in 1..n : i \in DOMAIN writers_
    BY QueuePlaces
  <2> QED BY <1>3, <1>4, <2>1, <2>2, <2>3
<1>11. BatchesDiffer'
  <2>1. \A u \in Threads : thread[u].batch # Nil => thread[u].batch <= count'.batches /\ thread[u].batch <= count.batches
    <3> SUFFICES ASSUME NEW u \in Threads, thread[u].batch # Nil
                 PROVE  thread[u].batch <= count'.batches /\ thread[u].batch <= count.batches
      OBVIOUS
    <3>1. thread[u].batch <= count.batches
      BY DEF BatchesDiffer
    <3>2. thread[u].batch \in Nat /\ count.batches \in Nat /\ count'.batches \in Nat /\ MaxBatches \in Nat
      BY DEF DBAssumption, ThreadType, Batches
    <3> QED BY <3>1, <3>2
  <2>2. batch # Nil => \A u \in Threads : thread[u].batch # batch
    <3> SUFFICES ASSUME batch # Nil, NEW u \in Threads, thread[u].batch = batch
                 PROVE  FALSE
      OBVIOUS
    <3>1. thread[u].batch <= count.batches /\ batch \in Nat /\ count.batches \in Nat
      BY DEF BatchesDiffer, Batches, DBAssumption
    <3> QED BY <3>1
  <2> QED BY <1>1, <1>3, <2>1, <2>2 DEF BatchesDiffer
<1>12. ManualWaits'
  BY <1>2, <1>3 DEF ManualWaits
<1> QED BY <1>5, <1>6, <1>7, <1>8, <1>9, <1>10, <1>11, <1>12

\* A thread that is past the queue is its front, and not done.
LEMMA QueueFront ==
  ASSUME QueueInv, NEW t \in Threads, thread[t].pc \in AtFront
  PROVE  1 \in DOMAIN writers_ /\ writers_[1] = t /\ ~thread[t].done
BY DEF QueueInv, QueueTypes, FrontLeads, QueuedWait

\* The queue stays right in every step of a client.
LEMMA QueueClientStep ==
  ASSUME QueueInv, DBAssumption, NEW t \in Threads,
         ThreadStep(t) \/ CompactRange(t) \/ \E sync \in Syncs : Write(t, sync)
  PROVE  QueueInv'
<1>1. /\ thread \in [Threads -> ThreadType] /\ thread[t] \in ThreadType
      /\ writers_ \in Seq(Threads) /\ bg_error_ \in BOOLEAN
      /\ count \in [batches : 0..MaxBatches, faults : Nat, crashes : Nat, ranges : Nat]
      /\ phase \in {"open", "closing", "closed", "recovering", "installing"}
      /\ manual_compaction_ \in Threads \cup {Nil}
      /\ count \in [batches : {count.batches}, faults : Nat, crashes : Nat, ranges : Nat]
  BY DEF QueueInv, QueueTypes
<1>2. /\ Nil \notin Threads /\ MaxBatches \in Nat /\ Syncs \subseteq BOOLEAN
  BY DEF DBAssumption
<1> USE DEF memory, files, ghosts
<1>3. ASSUME CompactRange(t) PROVE QueueInv'
  <2>1. Enqueue(t, FALSE, Nil) /\ count' = [count EXCEPT !.ranges = @ + 1]
    BY <1>3 DEF CompactRange
  <2>2. count' \in [batches : 0..MaxBatches, faults : Nat, crashes : Nat, ranges : Nat] /\ count'.batches = count.batches
    BY <1>1, <2>1
  <2>3. count.batches <= count'.batches
    BY <1>1, <1>2, <2>2
  <2> QED BY <2>1, <2>2, <2>3, QueueJoined DEF Batches
<1>4. ASSUME NEW sync \in Syncs, Write(t, sync) PROVE QueueInv'
  <2>1. /\ Enqueue(t, sync, count.batches + 1) /\ count' = [count EXCEPT !.batches = @ + 1]
        /\ count.batches < MaxBatches
    BY <1>4 DEF Write
  <2>2. count' \in [batches : 0..MaxBatches, faults : Nat, crashes : Nat, ranges : Nat] /\ count'.batches = count.batches + 1
    BY <1>1, <1>2, <2>1
  <2>3. /\ count.batches <= count'.batches /\ count.batches < count.batches + 1 /\ count.batches + 1 <= count'.batches
        /\ count.batches + 1 \in Batches /\ sync \in BOOLEAN
    BY <1>1, <1>2, <2>1, <2>2 DEF Batches
  <2> QED BY <2>1, <2>2, <2>3, QueueJoined
<1>5. ASSUME Woken(t) PROVE QueueInv'
  <2>1. CASE thread[t].done
    <3>1. thread' = [thread EXCEPT ![t] = Returns(thread[t], thread[t].status)]
      BY <1>5, <2>1 DEF Woken
    <3>2. UNCHANGED <<writers_, count, bg_error_, phase, manual_compaction_>>
      BY <1>5 DEF Woken
    <3>3. /\ Returns(thread[t], thread[t].status) \in ThreadType
          /\ Returns(thread[t], thread[t].status).batch = Nil
          /\ Returns(thread[t], thread[t].status).pc \in {"idle", "flush", "manual"}
      BY ReturnsFields
    <3>4. manual_compaction_ # t
      BY <1>2, <1>5 DEF Woken, QueueInv, ManualWaits
    <3>5. \A i \in DOMAIN writers_ : writers_[i] # t
      BY <2>1, NotQueued
    <3> HIDE DEF memory, files, ghosts
    <3> QED BY <3>1, <3>2, <3>3, <3>4, <3>5, QueueLeft
  <2>2. CASE ~thread[t].done
    <3> DEFINE w == [thread[t] EXCEPT !.pc = IF Head(writers_) = t THEN "room" ELSE "cv_wait"]
    <3>1. thread' = [thread EXCEPT ![t] = w] /\ UNCHANGED <<writers_, count, bg_error_, phase, manual_compaction_>>
      BY <1>5, <2>2 DEF Woken
    <3>2. /\ w \in ThreadType /\ w.batch = thread[t].batch /\ w.sync = thread[t].sync /\ ~w.done
          /\ w.pc = IF Head(writers_) = t THEN "room" ELSE "cv_wait"
      BY <1>1, <2>2 DEF ThreadType, ThreadPCs, AtFront
    <3>3. PICK p \in DOMAIN writers_ : writers_[p] = t
      BY <1>5, <2>2 DEF Woken, QueueInv, WaitersAreQueued
    <3>4. Head(writers_) = writers_[1]
      BY <1>1, <3>3
    <3>5. w.pc \in AtFront \cup {"cv_wait", "woken"} /\ w.pc \notin Leading /\ (w.pc \in AtFront => writers_[1] = t)
      BY <3>2, <3>4 DEF AtFront, Leading
    <3> HIDE DEF w, memory, files, ghosts
    <3> QED BY <1>1, <3>1, <3>2, <3>3, <3>5, QueueStays
  <2> QED BY <2>1, <2>2
<1>6. ASSUME RoomFails(t) PROVE QueueInv'
  <2>1. Pop(t, t, "error", thread) /\ thread[t].pc = "room" /\ UNCHANGED <<bg_error_, manual_compaction_, phase>>
    BY <1>6 DEF RoomFails, AtRoom
  <2>2. count' \in [batches : {count.batches}, faults : Nat, crashes : Nat, ranges : Nat]
    BY <1>1, <1>6 DEF RoomFails, Fault
  <2>3. thread[t].pc \in AtFront /\ \A u \in Threads : Wakes(thread[u], thread[u])
    BY <2>1 DEF AtFront, Wakes
  <2> HIDE DEF memory, files, ghosts
  <2> QED BY <1>1, <2>1, <2>2, <2>3, QueuePopped
<1>7. ASSUME NEW w \in ThreadType, thread' = [thread EXCEPT ![t] = w], 
             thread[t].pc \in AtFront, w.pc \in AtFront, w.batch = thread[t].batch, w.sync = thread[t].sync,
             w.done = thread[t].done,
             UNCHANGED <<writers_, manual_compaction_, bg_error_, phase>>,
             count' \in [batches : {count.batches}, faults : Nat, crashes : Nat, ranges : Nat],
             w.pc \in Leading => \E n \in DOMAIN writers_ :
               writers_[n] = w.last /\ \A i \in 1..n : thread[writers_[i]].sync => w.sync
      PROVE QueueInv'
  <2> HIDE DEF memory, files, ghosts
  <2> QED BY <1>7, QueueFront, QueueStays
<1>8. ASSUME Delay(t) \/ WaitForRoom(t) \/ SwitchMemTable(t) PROVE QueueInv'
  <2>1. \E w \in {[thread[t] EXCEPT !.allow_delay = FALSE], [thread[t] EXCEPT !.pc = "room_wait"],
                   [thread[t] EXCEPT !.force = FALSE]} : thread' = [thread EXCEPT ![t] = w]
    BY <1>1, <1>8 DEF Delay, WaitForRoom, SwitchMemTable
  <2>2. thread[t].pc = "room" /\ UNCHANGED <<writers_, manual_compaction_, bg_error_, phase, count>>
    BY <1>8 DEF Delay, WaitForRoom, SwitchMemTable, AtRoom
  <2>3. \A w \in {[thread[t] EXCEPT !.allow_delay = FALSE], [thread[t] EXCEPT !.pc = "room_wait"],
                   [thread[t] EXCEPT !.force = FALSE]} :
          /\ w \in ThreadType /\ w.pc \in {"room", "room_wait"} /\ w.batch = thread[t].batch
          /\ w.sync = thread[t].sync /\ w.done = thread[t].done
    BY <1>1, <2>2 DEF ThreadType, ThreadPCs, AtFront
  <2>4. "room" \in AtFront \ Leading /\ "room_wait" \in AtFront \ Leading
    BY DEF AtFront, Leading
  <2>5. PICK w \in {[thread[t] EXCEPT !.allow_delay = FALSE], [thread[t] EXCEPT !.pc = "room_wait"],
                   [thread[t] EXCEPT !.force = FALSE]} : thread' = [thread EXCEPT ![t] = w]
    BY <2>1
  <2>6. /\ w \in ThreadType /\ w.pc \in AtFront \ Leading /\ w.batch = thread[t].batch
        /\ w.sync = thread[t].sync /\ w.done = thread[t].done /\ thread[t].pc \in AtFront
    BY <2>2, <2>3, <2>4
  <2>7. count' \in [batches : {count.batches}, faults : Nat, crashes : Nat, ranges : Nat]
    BY <1>1, <2>2
  <2> HIDE DEF memory, files, ghosts
  <2> QED BY <1>7, <2>2, <2>5, <2>6, <2>7
<1>9. ASSUME BeginLogging(t) PROVE QueueInv'
  <2>1. /\ thread[t].pc = "room" /\ UNCHANGED <<manual_compaction_, bg_error_, phase, count>>
        /\ thread[t].pc \in AtFront
    BY <1>9 DEF BeginLogging, AtRoom, AtFront
  <2>2. CASE thread[t].batch = Nil
    <3>1. Pop(t, t, "ok", thread)
      BY <1>9, <2>2 DEF BeginLogging
    <3>2. count' \in [batches : {count.batches}, faults : Nat, crashes : Nat, ranges : Nat]
      BY <1>1, <2>1
    <3>3. \A u \in Threads : Wakes(thread[u], thread[u])
      BY DEF Wakes
    <3> HIDE DEF memory, files, ghosts
    <3> QED BY <1>1, <2>1, <3>1, <3>2, <3>3, QueuePopped
  <2>3. CASE thread[t].batch # Nil
    <3>1. PICK n \in BuildBatchGroup : thread' = [thread EXCEPT ![t].pc = "log", ![t].last = writers_[n]]
      BY <1>9, <2>3 DEF BeginLogging
    <3> DEFINE w == [thread[t] EXCEPT !.pc = "log", !.last = writers_[n]]
    <3>2. n \in DOMAIN writers_ /\ \A i \in 1..n : thread[writers_[i]].sync => thread[writers_[1]].sync
      BY DEF BuildBatchGroup
    <3>3. thread' = [thread EXCEPT ![t] = w] /\ writers_' = writers_
      BY <1>1, <1>9, <2>3, <3>1 DEF BeginLogging
    <3>4. /\ w \in ThreadType /\ w.pc = "log" /\ w.last = writers_[n] /\ w.batch = thread[t].batch
          /\ w.sync = thread[t].sync /\ w.done = thread[t].done
      <4>1. writers_[n] \in Threads
        BY <1>1, <3>2
      <4> QED BY <1>1, <4>1 DEF ThreadType, ThreadPCs, AtFront
    <3>5. writers_[1] = t
      BY <2>1, QueueFront
    <3>6. w.pc \in AtFront
      BY <3>4 DEF AtFront
    <3> HIDE DEF w, memory, files, ghosts
    <3> QED BY <1>1, <1>7, <2>1, <3>2, <3>3, <3>4, <3>5, <3>6
  <2> QED BY <2>2, <2>3
<1>10. ASSUME AddRecord(t) \/ SyncLog(t) \/ InsertInto(t) PROVE QueueInv'
  <2>1. /\ thread[t].pc \in Leading /\ UNCHANGED <<writers_, manual_compaction_, bg_error_, phase>>
        /\ thread[t].pc \in AtFront
    BY <1>10 DEF AddRecord, SyncLog, InsertInto, Leading, AtFront
  <2>2. \E pc \in Leading, status \in {thread[t].status, "error", "sync_error"} :
          thread' = [thread EXCEPT ![t] = [thread[t] EXCEPT !.pc = pc, !.status = status]]
    <3>1. \A pc \in Leading : [thread[t] EXCEPT !.pc = pc, !.status = thread[t].status] = [thread[t] EXCEPT !.pc = pc]
      BY <1>1 DEF ThreadType
    <3>2. CASE AddRecord(t)
      <4>1. \/ thread' = [thread EXCEPT ![t] = [thread[t] EXCEPT !.pc = IF thread[t].sync THEN "sync" ELSE "insert"]]
            \/ thread' = [thread EXCEPT ![t] = [thread[t] EXCEPT !.pc = "finish", !.status = "error"]]
        BY <1>1, <3>2 DEF AddRecord
      <4> QED BY <3>1, <4>1 DEF Leading
    <3>3. CASE SyncLog(t)
      <4>1. \/ thread' = [thread EXCEPT ![t] = [thread[t] EXCEPT !.pc = "insert"]]
            \/ thread' = [thread EXCEPT ![t] = [thread[t] EXCEPT !.pc = "finish", !.status = "sync_error"]]
        BY <1>1, <3>3 DEF SyncLog
      <4> QED BY <3>1, <4>1 DEF Leading
    <3>4. CASE InsertInto(t)
      <4>1. thread' = [thread EXCEPT ![t] = [thread[t] EXCEPT !.pc = "finish"]]
        BY <1>1, <3>4 DEF InsertInto
      <4> QED BY <3>1, <4>1 DEF Leading
    <3> QED BY <1>10, <3>2, <3>3, <3>4
  <2>3. PICK pc \in Leading, status \in {thread[t].status, "error", "sync_error"} :
          thread' = [thread EXCEPT ![t] = [thread[t] EXCEPT !.pc = pc, !.status = status]]
    BY <2>2
  <2> DEFINE w == [thread[t] EXCEPT !.pc = pc, !.status = status]
  <2>4. /\ w \in ThreadType /\ w.pc \in Leading /\ w.last = thread[t].last /\ w.batch = thread[t].batch
        /\ w.sync = thread[t].sync /\ w.done = thread[t].done
    BY <1>1 DEF ThreadType, ThreadPCs, AtFront, Leading
  <2>5. \E n \in DOMAIN writers_ :
          writers_[n] = w.last /\ \A i \in 1..n : thread[writers_[i]].sync => w.sync
    BY <2>1, <2>4 DEF QueueInv, GroupIsQueued
  <2>6. w.pc \in AtFront
    BY <2>4 DEF AtFront, Leading
  <2>7. count' \in [batches : {count.batches}, faults : Nat, crashes : Nat, ranges : Nat]
    <3>1. UNCHANGED count \/ Fault
      BY <1>10 DEF AddRecord, SyncLog, InsertInto
    <3> QED BY <1>1, <3>1 DEF Fault
  <2> QED BY <1>7, <2>1, <2>3, <2>4, <2>5, <2>6, <2>7
<1>11. ASSUME FinishWrite(t) PROVE QueueInv'
  <2>1. PICK th \in {thread, RecordError(thread)}, status \in {"ok", "error"} : Pop(t, thread[t].last, status, th)
    BY <1>11 DEF FinishWrite
  <2>2. /\ thread[t].pc \in AtFront /\ UNCHANGED <<manual_compaction_, phase, count>>
        /\ bg_error_' \in BOOLEAN
    BY <1>1, <1>11 DEF FinishWrite, AtFront
  <2>3. th \in [Threads -> ThreadType] /\ \A u \in Threads : Wakes(thread[u], th[u])
    BY <1>1, RecordErrorWakes DEF Wakes
  <2>4. count' \in [batches : {count.batches}, faults : Nat, crashes : Nat, ranges : Nat]
    BY <1>1, <2>2
  <2> HIDE DEF memory, files, ghosts
  <2> QED BY <2>1, <2>2, <2>3, <2>4, QueuePopped
<1>12. ASSUME NEW w \in ThreadType, thread' = [thread EXCEPT ![t] = w],
              thread[t].pc \in {"flush", "manual"},
              w.batch \in {thread[t].batch, Nil}, w.pc \in {"idle", "flush", "flush_wait", "manual", "manual_wait"},
              UNCHANGED <<writers_, count, bg_error_, phase>>,
              manual_compaction_' \in {manual_compaction_, Nil, t},
              manual_compaction_' = t => w.pc \in {"manual", "manual_wait"}
       PROVE  QueueInv'
  <2>1. \A i \in DOMAIN writers_ : writers_[i] # t
    BY <1>12, NotQueued
  <2> HIDE DEF memory, files, ghosts
  <2> QED BY <1>12, <2>1, QueueLeft
<1>13. ASSUME WaitForFlush(t) PROVE QueueInv'
  <2>1. /\ thread[t].pc = "flush" /\ UNCHANGED <<writers_, count, bg_error_, phase, manual_compaction_>>
        /\ manual_compaction_ # t
    BY <1>2, <1>13 DEF WaitForFlush, QueueInv, ManualWaits
  <2>2. \E pc \in {"flush_wait", "manual"} : thread' = [thread EXCEPT ![t] = [thread[t] EXCEPT !.pc = pc]]
    BY <1>1, <1>13 DEF WaitForFlush
  <2>3. \A pc \in {"flush_wait", "manual"} :
          /\ [thread[t] EXCEPT !.pc = pc] \in ThreadType /\ [thread[t] EXCEPT !.pc = pc].batch = thread[t].batch
          /\ [thread[t] EXCEPT !.pc = pc].pc = pc
    BY <1>1 DEF ThreadType, ThreadPCs
  <2> HIDE DEF memory, files, ghosts
  <2> QED BY <1>12, <2>1, <2>2, <2>3
<1>14. ASSUME ManualCompaction(t) PROVE QueueInv'
  <2>1. /\ thread[t].pc = "manual" /\ UNCHANGED <<writers_, count, bg_error_, phase>>
    BY <1>14 DEF ManualCompaction
  <2>2. Idle \in ThreadType /\ Idle.batch = Nil /\ Idle.pc = "idle"
    BY DEF Idle, ThreadType, ThreadPCs
  <2>3. CASE thread[t].done \/ shutting_down_ \/ bg_error_
    <3>1. /\ thread' = [thread EXCEPT ![t] = Idle] /\ manual_compaction_' \in {manual_compaction_, Nil}
          /\ manual_compaction_' # t
      BY <1>2, <1>14, <2>3 DEF ManualCompaction
    <3> HIDE DEF memory, files, ghosts
    <3> QED BY <1>12, <2>1, <2>2, <3>1
  <2>4. CASE ~(thread[t].done \/ shutting_down_ \/ bg_error_) /\ manual_compaction_ = Nil
    <3>1. thread' = [thread EXCEPT ![t] = thread[t]] /\ manual_compaction_' = t
      BY <1>1, <1>14, <2>4 DEF ManualCompaction
    <3> HIDE DEF memory, files, ghosts
    <3> QED BY <1>1, <1>12, <2>1, <3>1
  <2>5. CASE ~(thread[t].done \/ shutting_down_ \/ bg_error_) /\ manual_compaction_ # Nil
    <3>1. /\ thread' = [thread EXCEPT ![t] = [thread[t] EXCEPT !.pc = "manual_wait"]]
          /\ manual_compaction_' = manual_compaction_
      BY <1>1, <1>14, <2>5 DEF ManualCompaction
    <3>2. /\ [thread[t] EXCEPT !.pc = "manual_wait"] \in ThreadType
          /\ [thread[t] EXCEPT !.pc = "manual_wait"].batch = thread[t].batch
          /\ [thread[t] EXCEPT !.pc = "manual_wait"].pc = "manual_wait"
      BY <1>1 DEF ThreadType, ThreadPCs
    <3> HIDE DEF memory, files, ghosts
    <3> QED BY <1>12, <2>1, <3>1, <3>2
  <2> QED BY <2>3, <2>4, <2>5
<1> QED BY <1>3, <1>4, <1>5, <1>6, <1>8, <1>9, <1>10, <1>11, <1>13, <1>14 DEF ThreadStep
\* What the background thread does to the others: it wakes those that wait for it, and may
\* tell the one with the manual compaction that it is done.
BackgroundWakes ==
  /\ UNCHANGED <<writers_, phase>> /\ bg_error_' \in BOOLEAN
  /\ manual_compaction_' \in {manual_compaction_, Nil}
  /\ \E th \in {thread, [thread EXCEPT ![manual_compaction_].done = TRUE]} :
       /\ th # thread => manual_compaction_ # Nil
       /\ thread' \in {th, SignalAll(th)}

\* The background thread only wakes threads, and marks a manual compaction as done.
LEMMA BackgroundWakesThreads ==
  ASSUME QueueInv, DBAssumption, BackgroundStep
  PROVE  /\ BackgroundWakes
         /\ count' = count \/ count' = [count EXCEPT !.faults = @ + 1]
<1> USE DEF memory, files, ghosts
<1>0. bg_error_ \in BOOLEAN
  BY DEF QueueInv, QueueTypes
<1>1. CASE NoBackgroundWork
  BY <1>0, <1>1 DEF NoBackgroundWork, EndCall, BackgroundWakes
<1>2. CASE Flush \/ FlushInCompaction
  BY <1>0, <1>2 DEF Flush, FlushInCompaction, BeginFlush, BackgroundWakes
<1>3. CASE BuildTable
  BY <1>0, <1>3 DEF BuildTable, Fault, BackgroundWakes
<1>4. CASE FlushBuilt
  BY <1>0, <1>4 DEF FlushBuilt, FlushReturns, EndCall, BackgroundWakes
<1>5. CASE WriteManifest
  BY <1>0, <1>5 DEF WriteManifest, Fault, BackgroundWakes
<1>6. CASE InstallFlush
  <2>1. UNCHANGED <<writers_, manual_compaction_, phase, count>> /\ bg_error_' = (bg_error_ \/ bg.status = "error")
    BY <1>0, <1>6 DEF InstallFlush
  <2>2. thread' = SignalAll(thread)
    BY <1>0, <1>6 DEF InstallFlush, FlushReturns, EndCall
  <2>3. bg_error_' \in BOOLEAN
    BY <2>1
  <2> QED BY <2>1, <2>2, <2>3 DEF BackgroundWakes
<1>7. CASE NothingToCompact
  <2>1. UNCHANGED <<bg_error_, writers_, phase, count>> /\ manual_compaction_' = Nil
    BY <1>0, <1>7 DEF NothingToCompact
  <2>2. thread' = SignalAll(IF is_manual THEN [thread EXCEPT ![manual_compaction_].done = TRUE] ELSE thread)
    BY <1>0, <1>7 DEF NothingToCompact, EndCall
  <2> QED BY <1>0, <2>1, <2>2 DEF BackgroundWakes, is_manual
<1>8. CASE TrivialMove \/ PickCompaction
  BY <1>0, <1>8 DEF TrivialMove, PickCompaction, BackgroundWakes
<1>9. CASE OpenCompactionOutputFile \/ FinishCompactionOutputFile \/ AbandonCompaction
  BY <1>0, <1>9 DEF OpenCompactionOutputFile, FinishCompactionOutputFile, AbandonCompaction, Fault, BackgroundWakes
<1>10. ASSUME CompactionEnds PROVE BackgroundWakes /\ count' = count
  <2>1. UNCHANGED <<writers_, phase, count>> /\ bg_error_' = (bg_error_ \/ bg.status = "error")
    BY <1>0, <1>10 DEF CompactionEnds
  <2>2. bg_error_' \in BOOLEAN
    BY <2>1
  <2>3. CASE bg.is_manual /\ manual_compaction_ = Nil
    BY <1>0, <1>10, <2>1, <2>2, <2>3 DEF CompactionEnds, BackgroundWakes
  <2>4. CASE ~(bg.is_manual /\ manual_compaction_ = Nil)
    <3>1. thread' = SignalAll(IF bg.is_manual /\ bg.status = "error"
                              THEN [thread EXCEPT ![manual_compaction_].done = TRUE] ELSE thread)
      BY <1>0, <1>10, <2>4 DEF CompactionEnds, EndCall
    <3>2. manual_compaction_' \in {manual_compaction_, Nil}
      BY <1>0, <1>10, <2>4 DEF CompactionEnds
    <3> QED BY <2>1, <2>2, <2>4, <3>1, <3>2 DEF BackgroundWakes
  <2> QED BY <2>3, <2>4
<1>11. CASE FinishCompaction
  BY <1>0, <1>10, <1>11 DEF FinishCompaction, BackgroundWakes
<1>12. CASE InstallCompaction
  BY <1>0, <1>10, <1>12 DEF InstallCompaction
<1> QED BY <1>1, <1>2, <1>3, <1>4, <1>5, <1>6, <1>7, <1>8, <1>9, <1>11, <1>12 DEF BackgroundStep

\* The queue stays right in every step of the background thread.
LEMMA QueueBackgroundStep ==
  ASSUME QueueInv, DBAssumption, BackgroundStep
  PROVE  QueueInv'
<1>1. /\ thread \in [Threads -> ThreadType] /\ manual_compaction_ \in Threads \cup {Nil}
      /\ count \in [batches : 0..MaxBatches, faults : Nat, crashes : Nat, ranges : Nat]
      /\ bg_error_ \in BOOLEAN /\ phase \in {"open", "closing", "closed", "recovering", "installing"}
  BY DEF QueueInv, QueueTypes
<1>2. BackgroundWakes /\ (count' = count \/ count' = [count EXCEPT !.faults = @ + 1])
  BY BackgroundWakesThreads
<1>3. PICK th \in {thread, [thread EXCEPT ![manual_compaction_].done = TRUE]} :
        (th # thread => manual_compaction_ # Nil) /\ thread' \in {th, SignalAll(th)}
  BY <1>2 DEF BackgroundWakes
<1>4. th \in [Threads -> ThreadType]
  <2>1. CASE manual_compaction_ # Nil
    <3>0. manual_compaction_ \in Threads /\ thread[manual_compaction_] \in ThreadType
      BY <1>1, <2>1
    <3>1. [thread[manual_compaction_] EXCEPT !.done = TRUE] \in ThreadType
      BY <3>0 DEF ThreadType
    <3>2. [thread EXCEPT ![manual_compaction_].done = TRUE] \in [Threads -> ThreadType]
      BY <1>1, <2>1, <3>1
    <3> QED BY <1>1, <1>3, <3>2
  <2>2. CASE manual_compaction_ = Nil
    BY <1>1, <1>3, <2>2
  <2> QED BY <2>1, <2>2
<1>5. thread' \in [Threads -> ThreadType] /\ \A t \in Threads : Wakes(th[t], thread'[t])
  BY <1>3, <1>4, SignalAllWakes DEF Wakes
<1>6. /\ count' \in [batches : {count.batches}, faults : Nat, crashes : Nat, ranges : Nat]
      /\ writers_' = writers_ /\ phase' = phase /\ bg_error_' \in BOOLEAN
      /\ manual_compaction_' \in {manual_compaction_, Nil}
  BY <1>1, <1>2 DEF BackgroundWakes
<1> QED BY <1>1, <1>3, <1>5, <1>6, QueueWoken

\* Nothing is left of the queue when the process ends.
LEMMA QueueGone ==
  ASSUME QueueInv, DBAssumption, thread' = [t \in Threads |-> Idle], writers_' = << >>, manual_compaction_' = Nil,
         bg_error_' \in BOOLEAN, phase' \in {"open", "closing", "closed", "recovering", "installing"},
         count' \in [batches : 0..MaxBatches, faults : Nat, crashes : Nat, ranges : Nat]
  PROVE  QueueInv'
<1>1. Idle \in ThreadType /\ Idle.pc = "idle" /\ Idle.batch = Nil
  BY DEF Idle, ThreadType, ThreadPCs
<1>2. QueueTypes'
  BY <1>1 DEF QueueTypes
<1>3. QueueIsSet' /\ QueuedWait' /\ ManualWaits'
  BY DEF QueueIsSet, QueuedWait, ManualWaits
<1>4. WaitersAreQueued' /\ FrontLeads' /\ GroupIsQueued' /\ BatchesDiffer'
  BY <1>1 DEF WaitersAreQueued, FrontLeads, AtFront, GroupIsQueued, Leading, BatchesDiffer
<1> QED BY <1>2, <1>3, <1>4 DEF QueueInv

\* And in every other step.
LEMMA QueueNext ==
  ASSUME QueueInv, DBAssumption, [Next]_vars
  PROVE  QueueInv'
<1>1. /\ thread \in [Threads -> ThreadType]
      /\ count \in [batches : 0..MaxBatches, faults : Nat, crashes : Nat, ranges : Nat]
      /\ bg_error_ \in BOOLEAN /\ phase \in {"open", "closing", "closed", "recovering", "installing"}
  BY DEF QueueInv, QueueTypes
<1> USE DEF memory, files, ghosts
<1>2. ASSUME UNCHANGED <<writers_, thread, manual_compaction_>>, bg_error_' = bg_error_,
             phase' \in {"open", "closing", "closed", "recovering", "installing"},
             count' \in [batches : {count.batches}, faults : Nat, crashes : Nat, ranges : Nat]
      PROVE  QueueInv'
  <2>1. \A t \in Threads : Wakes(thread[t], thread'[t])
    BY <1>2 DEF Wakes
  <2> HIDE DEF memory, files, ghosts
  <2> QED BY <1>1, <1>2, <2>1, QueueWoken
<1>3. CASE \E t \in Threads : ThreadStep(t) \/ CompactRange(t) \/ \E sync \in Syncs : Write(t, sync)
  BY <1>3, QueueClientStep
<1>4. CASE BackgroundStep
  BY <1>4, QueueBackgroundStep
<1>5. CASE RefVersion \/ UnrefVersion
  BY <1>1, <1>2, <1>5 DEF RefVersion, UnrefVersion
<1>6. CASE Close
  BY <1>1, <1>2, <1>6 DEF Close
<1>7. CASE Recover \/ RecoverLogFile \/ OpenNewLog \/ Install
  <2>1. CASE RecoverLogFile
    <3>1. /\ UNCHANGED <<writers_, thread, manual_compaction_>> /\ bg_error_' = bg_error_ /\ phase' = phase
          /\ UNCHANGED count \/ Fault
      BY <2>1 DEF RecoverLogFile
    <3> QED BY <1>1, <1>2, <3>1 DEF Fault
  <2>2. CASE Recover \/ OpenNewLog \/ Install
    BY <1>1, <1>2, <2>2 DEF Recover, OpenNewLog, Install
  <2> QED BY <1>7, <2>1, <2>2
<1>8. CASE Closed \/ ProcessStops \/ MachineCrashes \/ OpenFails
  <2>1. Gone /\ count' \in [batches : 0..MaxBatches, faults : Nat, crashes : Nat, ranges : Nat]
    <3> HIDE DEF memory, files, ghosts
    <3>1. CASE Closed \/ OpenFails
      BY <1>1, <3>1 DEF Closed, OpenFails, Stops, Fault
    <3>2. CASE ProcessStops \/ MachineCrashes
      <4>1. Gone /\ count' = [count EXCEPT !.crashes = @ + 1]
        BY <3>2 DEF ProcessStops, MachineCrashes, Stops
      <4> QED BY <1>1, <4>1
    <3> QED BY <1>8, <3>1, <3>2
  <2>2. /\ thread' = [t \in Threads |-> Idle] /\ writers_' = << >> /\ manual_compaction_' = Nil
        /\ bg_error_' \in BOOLEAN /\ phase' \in {"open", "closing", "closed", "recovering", "installing"}
    BY <2>1 DEF Gone
  <2> HIDE DEF memory, files, ghosts
  <2> QED BY <2>1, <2>2, QueueGone
<1>9. CASE UNCHANGED vars
  BY <1>1, <1>2, <1>9 DEF vars
<1> QED BY <1>3, <1>4, <1>5, <1>6, <1>7, <1>8, <1>9 DEF Next

\* The queue of writers is right in every state: a thread is in it once, only its front goes
\* on, the group of a leader is in it, and a leader of a group with a sync write syncs.
THEOREM QueueIsRight == DBAssumption => (Spec => []QueueInv)
<1> SUFFICES ASSUME DBAssumption PROVE Spec => []QueueInv
  OBVIOUS
<1>1. Init => QueueInv
  <2> SUFFICES ASSUME Init PROVE QueueInv
    OBVIOUS
  <2>1. Idle \in ThreadType /\ Idle.pc = "idle" /\ Idle.batch = Nil
    BY DEF Idle, ThreadType, ThreadPCs
  <2>2. QueueTypes
    <3>1. count \in [batches : 0..MaxBatches, faults : Nat, crashes : Nat, ranges : Nat]
      BY DEF Init, DBAssumption
    <3>2. thread \in [Threads -> ThreadType] /\ writers_ \in Seq(Threads)
      BY <2>1 DEF Init
    <3> QED BY <3>1, <3>2 DEF QueueTypes, Init
  <2>3. QueueIsSet /\ QueuedWait /\ ManualWaits
    BY DEF QueueIsSet, QueuedWait, ManualWaits, Init
  <2>4. WaitersAreQueued /\ FrontLeads /\ GroupIsQueued /\ BatchesDiffer
    BY <2>1 DEF WaitersAreQueued, FrontLeads, AtFront, GroupIsQueued, Leading, BatchesDiffer, Init
  <2> QED BY <2>2, <2>3, <2>4 DEF QueueInv
<1>2. QueueInv /\ [Next]_vars => QueueInv'
  BY QueueNext
<1> QED BY <1>1, <1>2, PTL DEF Spec

-------------------------------------------------------------------------------
(* The operators of the model *)

\* The files that are left by a deletion.
LEMMA RestrictedFacts ==
  ASSUME NEW f, NEW S
  PROVE  /\ DOMAIN Restricted(f, S) = DOMAIN f \cap S
         /\ \A x \in DOMAIN f \cap S : Restricted(f, S)[x] = f[x]
         /\ Restricted(f, S) \in [DOMAIN Restricted(f, S) -> {f[x] : x \in DOMAIN f}]
BY DEF Restricted

\* The files after one is written.
LEMMA WithFacts ==
  ASSUME NEW f, NEW x, NEW v
  PROVE  /\ DOMAIN With(f, x, v) = DOMAIN f \cup {x}
         /\ With(f, x, v)[x] = v
         /\ \A y \in DOMAIN f : y # x => With(f, x, v)[y] = f[y]
         /\ With(f, x, v) \in [DOMAIN f \cup {x} -> {f[y] : y \in DOMAIN f} \cup {v}]
BY DEF With

\* A deletion keeps the types.
LEMMA RestrictedType ==
  ASSUME NEW f, NEW S, NEW T, f \in [DOMAIN f -> T]
  PROVE  Restricted(f, S) \in [DOMAIN Restricted(f, S) -> T]
BY DEF Restricted

\* So does a new file.
LEMMA WithType ==
  ASSUME NEW f, NEW x, NEW v, NEW T, f \in [DOMAIN f -> T], v \in T
  PROVE  With(f, x, v) \in [DOMAIN With(f, x, v) -> T]
BY DEF With

\* The version after an edit, and after one edit more.
LEMMA ApplyFiles ==
  ASSUME NEW v, NEW edit
  PROVE  Files(Apply(v, edit)) = (Files(v) \ edit.deleted) \cup Added(edit)
BY DEF Files, Apply, Added

\* An edit of a version makes a version.
LEMMA ApplyType ==
  ASSUME NEW v \in VersionType, NEW edit \in EditType
  PROVE  Apply(v, edit) \in VersionType
BY DEF Apply, VersionType, EditType

\* The version after n edits depends on these alone.
LEMMA VersionOfSame ==
  ASSUME NEW edits, NEW edits2, NEW n \in Nat, \A i \in 1..n : edits2[i] = edits[i]
  PROVE  VersionOf(edits2, n) = VersionOf(edits, n)
<1>1. \A i \in 1..n : Deleted(edits2, i + 1, n) = Deleted(edits, i + 1, n)
  <2> SUFFICES ASSUME NEW i \in 1..n
               PROVE  Deleted(edits2, i + 1, n) = Deleted(edits, i + 1, n)
    OBVIOUS
  <2>1. \A j \in i + 1..n : edits2[j] = edits[j]
    OBVIOUS
  <2> QED BY <2>1 DEF Deleted
<1>2. UNION {edits2[i].l0 \ Deleted(edits2, i + 1, n) : i \in 1..n} = UNION {edits[i].l0 \ Deleted(edits, i + 1, n) : i \in 1..n}
  BY <1>1
<1>3. UNION {edits2[i].deep \ Deleted(edits2, i + 1, n) : i \in 1..n} = UNION {edits[i].deep \ Deleted(edits, i + 1, n) : i \in 1..n}
  BY <1>1
<1> QED BY <1>2, <1>3 DEF VersionOf

\* One more edit is applied to the version before it.
LEMMA VersionOfStep ==
  ASSUME NEW edits, NEW n \in Nat
  PROVE  VersionOf(edits, n + 1) = Apply(VersionOf(edits, n), edits[n + 1])
<1> DEFINE e == edits[n + 1]
<1>1. \A i \in 1..n : Deleted(edits, i + 1, n + 1) = Deleted(edits, i + 1, n) \cup e.deleted
  <2> SUFFICES ASSUME NEW i \in 1..n
               PROVE  Deleted(edits, i + 1, n + 1) = Deleted(edits, i + 1, n) \cup e.deleted
    OBVIOUS
  <2>1. i + 1..n + 1 = (i + 1..n) \cup {n + 1}
    OBVIOUS
  <2> QED BY <2>1 DEF Deleted
<1>2. Deleted(edits, (n + 1) + 1, n + 1) = {}
  <2>1. (n + 1) + 1..n + 1 = {}
    OBVIOUS
  <2> QED BY <2>1 DEF Deleted
<1>3. 1..n + 1 = 1..n \cup {n + 1} /\ n + 1 \in 1..n + 1
  OBVIOUS
<1> DEFINE old == VersionOf(edits, n)
           new == VersionOf(edits, n + 1)
<1>4. \A x : x \in new.l0 <=> (x \in old.l0 /\ x \notin e.deleted) \/ x \in e.l0
  <2> TAKE x
  <2>1. x \in new.l0 <=> \E i \in 1..n + 1 : x \in edits[i].l0 /\ x \notin Deleted(edits, i + 1, n + 1)
    BY DEF VersionOf
  <2>2. x \in old.l0 <=> \E i \in 1..n : x \in edits[i].l0 /\ x \notin Deleted(edits, i + 1, n)
    BY DEF VersionOf
  <2>3. \A i \in 1..n : x \notin Deleted(edits, i + 1, n + 1) <=> x \notin Deleted(edits, i + 1, n) /\ x \notin e.deleted
    BY <1>1
  <2>4. x \in edits[n + 1].l0 /\ x \notin Deleted(edits, (n + 1) + 1, n + 1) <=> x \in e.l0
    BY <1>2
  <2> HIDE DEF old, new, e
  <2> QED BY <1>3, <2>1, <2>2, <2>3, <2>4
<1>5. \A x : x \in new.deep <=> (x \in old.deep /\ x \notin e.deleted) \/ x \in e.deep
  <2> TAKE x
  <2>1. x \in new.deep <=> \E i \in 1..n + 1 : x \in edits[i].deep /\ x \notin Deleted(edits, i + 1, n + 1)
    BY DEF VersionOf
  <2>2. x \in old.deep <=> \E i \in 1..n : x \in edits[i].deep /\ x \notin Deleted(edits, i + 1, n)
    BY DEF VersionOf
  <2>3. \A i \in 1..n : x \notin Deleted(edits, i + 1, n + 1) <=> x \notin Deleted(edits, i + 1, n) /\ x \notin e.deleted
    BY <1>1
  <2>4. x \in edits[n + 1].deep /\ x \notin Deleted(edits, (n + 1) + 1, n + 1) <=> x \in e.deep
    BY <1>2
  <2> HIDE DEF old, new, e
  <2> QED BY <1>3, <2>1, <2>2, <2>3, <2>4
<1>6. new = [l0 |-> new.l0, deep |-> new.deep]
  BY DEF VersionOf
<1> HIDE DEF old, new, e
<1>7. new.l0 = (old.l0 \ e.deleted) \cup e.l0
  BY <1>4
<1>8. new.deep = (old.deep \ e.deleted) \cup e.deep
  BY <1>5
<1>9. new = Apply(old, e)
  BY <1>6, <1>7, <1>8 DEF Apply
<1> QED BY <1>9 DEF old, new, e

\* Edits make versions.
LEMMA VersionOfType ==
  ASSUME NEW edits \in Seq(EditType), NEW n \in 0..Len(edits)
  PROVE  VersionOf(edits, n) \in VersionType
<1>1. \A i \in 1..n : edits[i].l0 \subseteq Nat /\ edits[i].deep \subseteq Nat
  <2> SUFFICES ASSUME NEW i \in 1..n PROVE edits[i].l0 \subseteq Nat /\ edits[i].deep \subseteq Nat
    OBVIOUS
  <2>1. edits[i] \in EditType
    OBVIOUS
  <2> QED BY <2>1 DEF EditType
<1> QED BY <1>1 DEF VersionOf, VersionType

\* The MANIFEST with one more edit.
LEMMA VersionOfAppend ==
  ASSUME NEW edits \in Seq(EditType), NEW edit \in EditType
  PROVE  /\ Append(edits, edit) \in Seq(EditType) /\ Len(Append(edits, edit)) = Len(edits) + 1
         /\ Append(edits, edit)[Len(edits) + 1] = edit
         /\ \A n \in 1..Len(edits) : Append(edits, edit)[n] = edits[n]
         /\ \A n \in 1..Len(edits) : VersionOf(Append(edits, edit), n) = VersionOf(edits, n)
         /\ VersionOf(Append(edits, edit), Len(edits) + 1) = Apply(VersionOf(edits, Len(edits)), edit)
<1> DEFINE more == Append(edits, edit)
<1>1. /\ more \in Seq(EditType) /\ Len(more) = Len(edits) + 1 /\ more[Len(edits) + 1] = edit
      /\ \A n \in 1..Len(edits) : more[n] = edits[n]
  OBVIOUS
<1> HIDE DEF more
<1>2. \A n \in 0..Len(edits) : VersionOf(more, n) = VersionOf(edits, n)
  <2> TAKE n \in 0..Len(edits)
  <2>1. n \in Nat /\ \A i \in 1..n : more[i] = edits[i]
    BY <1>1
  <2> QED BY <2>1, VersionOfSame
<1>3. Len(edits) \in Nat /\ Len(edits) \in 0..Len(edits)
  OBVIOUS
<1>4. VersionOf(more, Len(edits) + 1) = Apply(VersionOf(edits, Len(edits)), edit)
  BY <1>1, <1>2, <1>3, VersionOfStep
<1> QED BY <1>1, <1>2, <1>4 DEF more

\* The first n edits of the MANIFEST.
LEMMA VersionOfCut ==
  ASSUME NEW edits \in Seq(EditType), NEW n \in 1..Len(edits)
  PROVE  /\ SubSeq(edits, 1, n) \in Seq(EditType) /\ Len(SubSeq(edits, 1, n)) = n
         /\ SubSeq(edits, 1, n)[n] = edits[n]
         /\ VersionOf(SubSeq(edits, 1, n), n) = VersionOf(edits, n)
<1> DEFINE cut == SubSeq(edits, 1, n)
<1>1. cut \in Seq(EditType) /\ Len(cut) = n /\ \A i \in 1..n : cut[i] = edits[i]
  OBVIOUS
<1> HIDE DEF cut
<1>2. n \in Nat /\ n \in 1..n
  OBVIOUS
<1>3. VersionOf(cut, n) = VersionOf(edits, n)
  BY <1>1, <1>2, VersionOfSame
<1> QED BY <1>1, <1>2, <1>3 DEF cut

\* A MANIFEST that is a snapshot of a version.
LEMMA VersionOfSnapshot ==
  ASSUME NEW edit \in EditType
  PROVE  VersionOf(<<edit>>, 1) = [l0 |-> edit.l0, deep |-> edit.deep]
<1>1. Deleted(<<edit>>, 2, 1) = {} /\ 1..1 = {1} /\ <<edit>>[1] = edit /\ 1 + 1 = 2
  BY DEF Deleted
<1>2. UNION {<<edit>>[i].l0 \ Deleted(<<edit>>, i + 1, 1) : i \in 1..1} = edit.l0
  BY <1>1
<1>3. UNION {<<edit>>[i].deep \ Deleted(<<edit>>, i + 1, 1) : i \in 1..1} = edit.deep
  BY <1>1
<1> QED BY <1>2, <1>3 DEF VersionOf

\* The group of a leader: its places in the queue, and its entries.
LEMMA GroupPlaces ==
  ASSUME QueueInv, NEW t \in Threads, thread[t].pc \in Leading
  PROVE  \E n \in DOMAIN writers_ :
           /\ writers_[n] = thread[t].last
           /\ \A i \in DOMAIN writers_ : writers_[i] = thread[t].last => i = n
           /\ GroupWriters(t) = {i \in 1..n : thread[writers_[i]].batch # Nil}
           /\ \A i \in 1..n : thread[writers_[i]].sync => thread[t].sync
<1>1. PICK n \in DOMAIN writers_ :
        writers_[n] = thread[t].last /\ \A i \in 1..n : thread[writers_[i]].sync => thread[t].sync
  BY DEF QueueInv, GroupIsQueued
<1>2. \A i \in DOMAIN writers_ : writers_[i] = thread[t].last => i = n
  BY <1>1 DEF QueueInv, QueueIsSet
<1>3. (CHOOSE i \in DOMAIN writers_ : writers_[i] = thread[t].last) = n
  BY <1>1, <1>2
<1>4. GroupWriters(t) = {i \in 1..n : thread[writers_[i]].batch # Nil}
  BY <1>3 DEF GroupWriters
<1> QED BY <1>1, <1>2, <1>4

\* A group is finite: it is a part of the queue.
LEMMA GroupSize ==
  ASSUME QueueInv, NEW t \in Threads, thread[t].pc \in Leading
  PROVE  /\ GroupWriters(t) \subseteq DOMAIN writers_ /\ GroupWriters(t) \subseteq Nat \ {0}
         /\ IsFiniteSet(GroupWriters(t)) /\ Cardinality(GroupWriters(t)) \in Nat
         /\ \A i \in Nat : /\ IsFiniteSet(GroupWriters(t) \cap 1..i)
                           /\ Cardinality(GroupWriters(t) \cap 1..i) \in Nat
                           /\ Cardinality(GroupWriters(t) \cap 1..i) <= Cardinality(GroupWriters(t))
<1>1. PICK n \in DOMAIN writers_ : GroupWriters(t) = {i \in 1..n : thread[writers_[i]].batch # Nil}
  BY GroupPlaces
<1>2. writers_ \in Seq(Threads) /\ n \in Nat /\ 1..n \subseteq DOMAIN writers_
  BY DEF QueueInv, QueueTypes
<1>3. GroupWriters(t) \subseteq 1..n
  BY <1>1
<1>4. IsFiniteSet(1..n)
  BY <1>2, FS_Interval
<1>5. IsFiniteSet(GroupWriters(t))
  BY <1>3, <1>4, FS_Subset
<1>6. ASSUME NEW i \in Nat
      PROVE  /\ IsFiniteSet(GroupWriters(t) \cap 1..i)
             /\ Cardinality(GroupWriters(t) \cap 1..i) \in Nat
             /\ Cardinality(GroupWriters(t) \cap 1..i) <= Cardinality(GroupWriters(t))
  <2>1. GroupWriters(t) \cap 1..i \subseteq GroupWriters(t)
    OBVIOUS
  <2>2. /\ IsFiniteSet(GroupWriters(t) \cap 1..i)
        /\ Cardinality(GroupWriters(t) \cap 1..i) <= Cardinality(GroupWriters(t))
    BY <1>5, <2>1, FS_Subset
  <2> QED BY <2>2, FS_CardinalityType
<1> QED BY <1>2, <1>3, <1>5, <1>6, FS_CardinalityType

\* The entries of a group are entries.
LEMMA GroupType ==
  ASSUME QueueInv, DBAssumption, NEW t \in Threads, thread[t].pc \in Leading, versions.last_sequence_ \in Nat
  PROVE  GroupEntries(t) \in SUBSET Entries
<1> SUFFICES ASSUME NEW i \in GroupWriters(t)
             PROVE  Entry(versions.last_sequence_ + Cardinality(GroupWriters(t) \cap 1..i), thread[writers_[i]].batch) \in Entries
  BY DEF GroupEntries
<1>0. i \in Nat /\ i \in DOMAIN writers_
  BY GroupSize
<1>1. Cardinality(GroupWriters(t) \cap 1..i) \in Nat /\ writers_[i] \in Threads
  <2>1. writers_ \in Seq(Threads)
    BY DEF QueueInv, QueueTypes
  <2>2. writers_[i] \in Threads
    BY <1>0, <2>1
  <2>3. Cardinality(GroupWriters(t) \cap 1..i) \in Nat
    BY <1>0, GroupSize
  <2> QED BY <2>2, <2>3
<1>2. thread[writers_[i]].batch # Nil
  BY GroupPlaces
<1>3. thread[writers_[i]].batch \in Batches
  BY <1>1, <1>2 DEF QueueInv, QueueTypes, ThreadType
<1> QED BY <1>1, <1>3 DEF Entry, Entries, Batches

-------------------------------------------------------------------------------
(* The files: what threads of clients do *)

\* What the background thread has while it does nothing.
LEMMA IdleBackground ==
  ASSUME NEW p \in BgPCs, DBAssumption
  PROVE  LET b == [BackgroundOff EXCEPT !.pc = p] IN
         /\ b \in BgType /\ b = [BackgroundOff EXCEPT !.pc = b.pc] /\ b.pc = p
         /\ b.out = Nil /\ b.output = Nil /\ b.inputs = {} /\ b.inputVersion = NoFiles /\ b.is_manual = FALSE
         /\ b.edit = NoEdit /\ b.status = "ok" /\ b.caller = Nil /\ b.logs = {}
BY DEF BackgroundOff, BgType, NoFiles, VersionType, NoEdit, Edit, EditType

\* A background thread that is off does nothing.
LEMMA OffIsIdle == BackgroundOff = [BackgroundOff EXCEPT !.pc = "off"] /\ BackgroundOff.pc = "off"
<1>1. BackgroundOff.pc = "off" /\ DOMAIN BackgroundOff = DOMAIN [BackgroundOff EXCEPT !.pc = "off"]
  BY DEF BackgroundOff
<1>2. \A f \in DOMAIN BackgroundOff : [BackgroundOff EXCEPT !.pc = "off"][f] = BackgroundOff[f]
  BY <1>1
<1> QED BY <1>1, <1>2 DEF BackgroundOff

\* The empty version and the empty edit.
LEMMA NoFilesFacts == NoFiles \in VersionType /\ Files(NoFiles) = {} /\ NoEdit \in EditType
BY DEF NoFiles, VersionType, Files, NoEdit, Edit, EditType

\* A thread that did nothing is off or scheduled.
LEMMA MaybeScheduleIdle ==
  ASSUME NEW memtable, NEW manual, NEW v, NEW error
  PROVE  \E p \in {"off", "scheduled"} :
           MaybeSchedule(BackgroundOff, memtable, manual, v, error) = [BackgroundOff EXCEPT !.pc = p]
BY OffIsIdle DEF MaybeSchedule

\* MaybeScheduleCompaction schedules, or changes nothing.
LEMMA MaybeScheduleSame ==
  ASSUME FlushIsRight, bg \in BgType, NEW memtable, NEW manual, NEW v, NEW error
  PROVE  \/ MaybeSchedule(bg, memtable, manual, v, error) = bg
         \/ bg.pc = "off" /\ MaybeSchedule(bg, memtable, manual, v, error) = [BackgroundOff EXCEPT !.pc = "scheduled"]
<1>1. CASE bg.pc = "off"
  <2>1. bg = BackgroundOff
    BY <1>1, OffIsIdle DEF FlushIsRight, BgIdle
  <2> QED BY <1>1, <2>1 DEF MaybeSchedule
<1>2. CASE bg.pc # "off"
  BY <1>2 DEF MaybeSchedule
<1> QED BY <1>1, <1>2

\* After a step that leaves the background thread idle.
LEMMA IdleFiles ==
  ASSUME DBAssumption, NEW p \in BgIdle, bg' = [BackgroundOff EXCEPT !.pc = p],
         LogNumbers', NumbersAreOld',
         (UNION pinned') \cup Files(versions'.current) \subseteq DOMAIN tables'
  PROVE  OpenFiles'
<1>1. p \in BgPCs
  BY DEF BgPCs, BgIdle
<1>2. /\ bg' = [BackgroundOff EXCEPT !.pc = bg'.pc] /\ bg'.pc \in BgIdle
      /\ bg'.out = Nil /\ bg'.inputs = {} /\ bg'.inputVersion = NoFiles /\ bg'.caller = Nil
  BY <1>1, IdleBackground
<1>3. ~Flushing' /\ ~InManifest' /\ ~Writing' /\ bg'.pc \notin {"build", "built", "finish"}
  <2>1. Nil # "writing"
    BY DEF DBAssumption
  <2> QED BY <1>2, <2>1 DEF Flushing, InManifest, Writing, BgIdle
<1>4. FlushIsRight'
  BY <1>2, <1>3 DEF FlushIsRight
<1>5. CompactionIsRight'
  BY <1>2, <1>3 DEF CompactionIsRight
<1>6. EditIsRight'
  BY <1>3 DEF EditIsRight
<1>7. InUse'
  BY <1>2, NoFilesFacts DEF InUse
<1> QED BY <1>4, <1>5, <1>6, <1>7 DEF OpenFiles

\* Steps of clients: the tables, the MANIFEST and the current version stay.
LEMMA ClientKeepsFiles ==
  ASSUME DBAssumption, FileInv, Running, Running',
         UNCHANGED <<tables, manifest, msynced, pending_outputs_>>,
         \/ bg' = bg
         \/ bg.pc = "off" /\ bg' = [BackgroundOff EXCEPT !.pc = "scheduled"],
         versions'.current = versions.current, versions'.log_number_ = versions.log_number_,
         versions.next_file_number_ <= versions'.next_file_number_,
         imm # {} => imm' = imm /\ logfile_number_' = logfile_number_,
         UNION pinned' \subseteq (UNION pinned) \cup Files(versions.current),
         FileTypes', LogNumbers'
  PROVE  FileInv'
<1>1. FileTypes /\ ManifestNumbers /\ OpenFiles
  BY DEF FileInv
<1>2. ManifestNumbers' /\ (\A n : Named(n)' = Named(n)) /\ Left' = Left
  BY <1>1 DEF ManifestNumbers, Left, Named, VersionOf, Deleted, Files
<1>3. /\ \A f \in DOMAIN tables : f \in Nat
      /\ manifest[Len(manifest)] \in EditType
      /\ versions.next_file_number_ \in Nat /\ versions'.next_file_number_ \in Nat
      /\ manifest[Len(manifest)].next \in Nat
      /\ bg \in BgType
  <2>1. manifest[Len(manifest)] \in EditType
    BY <1>1 DEF FileTypes
  <2> QED BY <1>1, <2>1 DEF FileTypes, EditType
<1>4. NumbersAreOld'
  <2>1. (\A f \in DOMAIN tables : f < versions.next_file_number_) /\ manifest[Len(manifest)].next <= versions.next_file_number_
    BY <1>1 DEF OpenFiles, NumbersAreOld
  <2>2. ASSUME NEW f \in DOMAIN tables PROVE f < versions'.next_file_number_
    BY <1>3, <2>1
  <2>3. manifest[Len(manifest)].next <= versions'.next_file_number_
    BY <1>3, <2>1
  <2> QED BY <2>2, <2>3 DEF NumbersAreOld
<1>5. ((UNION pinned) \cup Files(versions.current) \subseteq DOMAIN tables)'
  BY <1>1 DEF OpenFiles, InUse
<1>6. OpenFiles'
  <2>1. CASE bg' # bg
    <3>1. "scheduled" \in BgIdle /\ bg' = [BackgroundOff EXCEPT !.pc = "scheduled"]
      BY <2>1 DEF BgIdle
    <3> QED BY <1>4, <1>5, <3>1, IdleFiles
  <2>2. CASE bg' = bg
    <3>1. InUse'
      BY <1>1, <1>5, <2>2 DEF OpenFiles, InUse
    <3>2. FlushIsRight'
      <4>1. FlushIsRight
        BY <1>1 DEF OpenFiles
      <4>2. Flushing => bg.out < versions'.next_file_number_ /\ imm' = imm /\ logfile_number_' = logfile_number_
        <5>1. Flushing => bg.out \in Nat /\ bg.out < versions.next_file_number_ /\ imm # {}
          BY <1>3, <4>1 DEF FlushIsRight, BgType
        <5> QED BY <1>3, <5>1
      <4>3. Flushing' = Flushing /\ InManifest' = InManifest /\ Added(bg.edit)' = Added(bg.edit)
        BY <2>2 DEF Flushing, InManifest
      <4>4. (bg.pc \in {"build", "built"} \/ (InManifest /\ bg.out # Nil)) => Flushing
        BY DEF Flushing
      <4> QED BY <2>2, <4>1, <4>2, <4>3, <4>4 DEF FlushIsRight
    <3>3. CompactionIsRight'
      BY <1>1, <1>2, <2>2 DEF OpenFiles, CompactionIsRight, Writing, InManifest, Held
    <3>4. EditIsRight'
      <4>1. EditIsRight
        BY <1>1 DEF OpenFiles
      <4>2. InManifest => bg.edit.next <= versions'.next_file_number_
        <5>1. bg.edit.next \in Nat
          BY <1>3 DEF BgType, EditType
        <5> QED BY <1>3, <4>1, <5>1 DEF EditIsRight
      <4> QED BY <2>2, <4>1, <4>2 DEF EditIsRight, InManifest, Held, Added
    <3> QED BY <1>4, <3>1, <3>2, <3>3, <3>4 DEF OpenFiles
  <2> QED BY <2>1, <2>2
<1>7. phase' \notin {"closed", "recovering", "installing"}
  BY DEF Running
<1> QED BY <1>2, <1>6, <1>7 DEF FileInv

\* Steps that change no file and nothing in memory but who waits for what.
LEMMA FilesStay ==
  ASSUME DBAssumption, FileInv, Running, phase' \in {"open", "closing"},
         UNCHANGED <<files, memory, ghosts>>,
         \/ bg' = bg
         \/ bg.pc = "off" /\ bg' = [BackgroundOff EXCEPT !.pc = "scheduled"],
         pinned' \in {pinned, {Files(versions.current)}, {}}
  PROVE  FileInv'
<1>1. /\ UNCHANGED <<logs, tables, manifest, msynced, mem, imm, logfile_number_, versions, pending_outputs_>>
      /\ UNCHANGED <<owed, durable>>
  BY DEF files, memory, ghosts
<1>2. FileTypes /\ LogNumbers /\ Running'
  BY DEF FileInv, OpenFiles, Running
<1>3. bg' \in BgType
  <2>1. "scheduled" \in BgPCs /\ bg \in BgType
    BY <1>2 DEF BgPCs, FileTypes
  <2> QED BY <2>1, IdleBackground
<1>4. pinned' \in SUBSET SUBSET Nat
  <2>1. Files(versions.current) \subseteq Nat
    BY <1>2 DEF FileTypes, VersionType, Files
  <2> QED BY <1>2, <2>1 DEF FileTypes
<1>5. FileTypes'
  BY <1>1, <1>2, <1>3, <1>4 DEF FileTypes
<1>6. LogNumbers'
  BY <1>1, <1>2 DEF LogNumbers
<1>7. versions'.next_file_number_ \in Nat /\ versions' = versions
  BY <1>1, <1>5 DEF FileTypes
<1>8. UNION pinned' \subseteq (UNION pinned) \cup Files(versions.current)
  <2>1. \A S \in pinned' : S \in pinned \/ S = Files(versions.current)
    OBVIOUS
  <2>2. ASSUME NEW S \in pinned', NEW f \in S PROVE f \in (UNION pinned) \cup Files(versions.current)
    BY <2>1
  <2> QED BY <2>2
<1>9. versions.next_file_number_ <= versions'.next_file_number_
  BY <1>7
<1> HIDE DEF files, memory, ghosts
<1> QED BY <1>1, <1>2, <1>5, <1>6, <1>7, <1>8, <1>9, ClientKeepsFiles

\* A group is logged, the log is synced, or the group is put into mem_.
LEMMA FilesLogged ==
  ASSUME DBAssumption, QueueInv, FileInv, NEW t \in Threads, AddRecord(t) \/ SyncLog(t) \/ InsertInto(t)
  PROVE  FileInv'
<1>1. /\ UNCHANGED <<tables, manifest, msynced, imm, logfile_number_, versions, pending_outputs_>>
      /\ UNCHANGED <<owed, durable, bg, pinned, phase>> /\ Running /\ thread[t].pc \in Leading
  BY DEF files, memory, ghosts, AddRecord, SyncLog, InsertInto, Leading
<1>2. FileTypes /\ LogNumbers /\ Running'
  BY <1>1 DEF FileInv, OpenFiles, Running
<1>3. GroupEntries(t) \in SUBSET Entries
  <2>1. versions.last_sequence_ \in Nat
    BY <1>2 DEF FileTypes
  <2> QED BY <1>1, <2>1, GroupType
<1>4. /\ logs' \in [DOMAIN logs -> LogType] /\ mem' \in SUBSET Entries
      /\ \A n \in DOMAIN logs : logs'[n].synced <= Len(logs'[n].recs)
  <2> DEFINE log == logs[logfile_number_]
             more(lost) == [log EXCEPT !.recs = Append(log.recs, GroupEntries(t)), !.unread = log.unread \cup lost]
             torn == [log EXCEPT !.torn = TRUE]
             safe == [log EXCEPT !.synced = Len(log.recs)]
  <2>1. logs \in [DOMAIN logs -> LogType] /\ mem \in SUBSET Entries /\ logfile_number_ \in DOMAIN logs
    BY <1>2 DEF FileTypes, LogNumbers
  <2>2. log \in LogType /\ log.synced <= Len(log.recs)
    BY <1>2, <2>1 DEF FileTypes
  <2>3. log.recs \in Seq(SUBSET Entries) /\ log.synced \in Nat /\ Len(log.recs) \in Nat /\ log.unread \in SUBSET Entries
    BY <2>2 DEF LogType
  <2>4. /\ Append(log.recs, GroupEntries(t)) \in Seq(SUBSET Entries)
        /\ Len(Append(log.recs, GroupEntries(t))) = Len(log.recs) + 1
    BY <1>3, <2>3
  <2>5. \A lost \in {{}, GroupEntries(t)} : more(lost) \in LogType /\ more(lost).synced <= Len(more(lost).recs)
    <3> SUFFICES ASSUME NEW lost \in {{}, GroupEntries(t)}
                 PROVE  more(lost) \in LogType /\ more(lost).synced <= Len(more(lost).recs)
      OBVIOUS
    <3> DEFINE recs == Append(log.recs, GroupEntries(t))
    <3>1. log.unread \cup lost \in SUBSET Entries
      BY <1>3, <2>3
    <3>2. recs \in Seq(SUBSET Entries) /\ log.synced <= Len(recs)
      BY <2>2, <2>3, <2>4
    <3> HIDE DEF recs
    <3>3. more(lost) = [log EXCEPT !.recs = recs, !.unread = log.unread \cup lost]
      BY DEF recs
    <3> HIDE DEF more, log
    <3> QED BY <2>2, <3>1, <3>2, <3>3 DEF LogType
  <2>6. safe \in LogType /\ safe.synced <= Len(safe.recs) /\ torn \in LogType /\ torn.synced <= Len(torn.recs)
    <3>1. log.recs \in Seq(SUBSET Entries) /\ Len(log.recs) <= Len(log.recs)
      BY <2>3
    <3> HIDE DEF log
    <3> QED BY <2>2, <2>3, <3>1 DEF LogType
  <2>7. \/ logs' = logs
        \/ \E lost \in {{}, GroupEntries(t)} : logs' = [logs EXCEPT ![logfile_number_] = more(lost)]
        \/ logs' = [logs EXCEPT ![logfile_number_] = torn]
        \/ logs' = [logs EXCEPT ![logfile_number_] = safe]
    <3>1. CASE AddRecord(t)
      <4>1. \/ \E lost \in {{}, GroupEntries(t)} :
                 logs' = [logs EXCEPT ![logfile_number_].recs = Append(@, GroupEntries(t)),
                                      ![logfile_number_].unread = @ \cup lost]
            \/ logs' = [logs EXCEPT ![logfile_number_].torn = TRUE]
        BY <3>1 DEF AddRecord
      <4> QED BY <2>1, <2>2, <4>1 DEF LogType
    <3>2. CASE SyncLog(t) \/ InsertInto(t)
      BY <3>2 DEF SyncLog, InsertInto, files
    <3> QED BY <3>1, <3>2
  <2>8. \A n \in DOMAIN logs : logs[n].synced <= Len(logs[n].recs)
    BY <1>2 DEF FileTypes
  <2>9. mem' \in {mem, mem \cup GroupEntries(t)}
    BY DEF AddRecord, SyncLog, InsertInto, memory
  <2> HIDE DEF more, torn, safe, log
  <2>10. mem' \in SUBSET Entries
    BY <1>3, <2>1, <2>9
  <2> QED BY <2>1, <2>5, <2>6, <2>7, <2>8, <2>10
<1>5. DOMAIN logs' = DOMAIN logs
  BY <1>4
<1>6. FileTypes'
  BY <1>1, <1>2, <1>4, <1>5 DEF FileTypes
<1>7. LogNumbers'
  BY <1>1, <1>2, <1>5 DEF LogNumbers
<1>8. versions.next_file_number_ <= versions.next_file_number_
  BY <1>2 DEF FileTypes
<1> QED BY <1>1, <1>2, <1>6, <1>7, <1>8, ClientKeepsFiles

\* FinishWrite counts sequence numbers, and leaves the files.
LEMMA FilesFinished ==
  ASSUME DBAssumption, QueueInv, FileInv, NEW t \in Threads, FinishWrite(t)
  PROVE  FileInv'
<1>1. /\ UNCHANGED <<logs, tables, manifest, msynced, mem, imm, logfile_number_, pending_outputs_>>
      /\ UNCHANGED <<bg, pinned, phase>> /\ Running /\ thread[t].pc \in Leading
      /\ versions' = [versions EXCEPT !.last_sequence_ = versions.last_sequence_ + Cardinality(GroupWriters(t))]
      /\ owed' \subseteq owed \cup GroupEntries(t) /\ durable' \subseteq durable \cup GroupEntries(t)
  BY DEF files, FinishWrite, Leading
<1>2. FileTypes /\ LogNumbers /\ Running'
  BY <1>1 DEF FileInv, OpenFiles, Running
<1>3. /\ versions \in [current : VersionType, log_number_ : Nat, next_file_number_ : Nat, last_sequence_ : Nat]
      /\ owed \in SUBSET Entries /\ durable \in SUBSET Entries
  BY <1>2 DEF FileTypes
<1>4. GroupEntries(t) \in SUBSET Entries /\ Cardinality(GroupWriters(t)) \in Nat
  <2>1. versions.last_sequence_ \in Nat
    BY <1>3
  <2> QED BY <1>1, <2>1, GroupType, GroupSize
<1>5. /\ versions' \in [current : VersionType, log_number_ : Nat, next_file_number_ : Nat, last_sequence_ : Nat]
      /\ versions'.current = versions.current /\ versions'.log_number_ = versions.log_number_
      /\ versions'.next_file_number_ = versions.next_file_number_
      /\ versions.next_file_number_ <= versions'.next_file_number_
  BY <1>1, <1>3, <1>4
<1>6. owed' \in SUBSET Entries /\ durable' \in SUBSET Entries
  BY <1>1, <1>3, <1>4
<1>7. FileTypes'
  BY <1>1, <1>2, <1>5, <1>6 DEF FileTypes
<1>8. LogNumbers'
  BY <1>1, <1>2, <1>5 DEF LogNumbers
<1> QED BY <1>1, <1>2, <1>5, <1>7, <1>8, ClientKeepsFiles

\* SwitchMemTable takes the number of the new log.
LEMMA FilesSwitched ==
  ASSUME DBAssumption, QueueInv, FileInv, NEW t \in Threads, SwitchMemTable(t)
  PROVE  FileInv'
<1> DEFINE number == versions.next_file_number_
           log == NewLog
<1>1. /\ UNCHANGED <<tables, manifest, msynced, pending_outputs_, owed, durable, pinned, phase>>
      /\ Running /\ imm = {} /\ imm' = {mem} /\ mem' = {}
      /\ logs' = With(logs, number, log) /\ logfile_number_' = number
      /\ versions' = [versions EXCEPT !.next_file_number_ = number + 1]
      /\ bg' = MaybeSchedule(bg, imm', manual_compaction_, versions.current, bg_error_)
  BY DEF ghosts, SwitchMemTable, AtRoom
<1>2. FileTypes /\ LogNumbers /\ FlushIsRight /\ Running'
  BY <1>1 DEF FileInv, OpenFiles, Running
<1>3. /\ versions \in [current : VersionType, log_number_ : Nat, next_file_number_ : Nat, last_sequence_ : Nat]
      /\ bg \in BgType /\ mem \in SUBSET Entries /\ DOMAIN logs \subseteq Nat /\ logfile_number_ \in Nat
      /\ logs \in [DOMAIN logs -> LogType] /\ \A n \in DOMAIN logs : logs[n].synced <= Len(logs[n].recs)
  BY <1>2 DEF FileTypes
<1>4. /\ versions' \in [current : VersionType, log_number_ : Nat, next_file_number_ : Nat, last_sequence_ : Nat]
      /\ versions'.current = versions.current /\ versions'.log_number_ = versions.log_number_
      /\ versions'.next_file_number_ = number + 1 /\ number \in Nat
      /\ versions.next_file_number_ <= versions'.next_file_number_
  BY <1>1, <1>3
<1>5. bg' = bg \/ (bg.pc = "off" /\ bg' = [BackgroundOff EXCEPT !.pc = "scheduled"])
  BY <1>1, <1>2, <1>3, MaybeScheduleSame
<1>6. bg' \in BgType
  <2>1. "scheduled" \in BgPCs
    BY DEF BgPCs
  <2> QED BY <1>3, <1>5, <2>1, IdleBackground
<1>7. /\ log \in LogType /\ log.synced <= Len(log.recs)
  BY DEF LogType, NewLog
<1> HIDE DEF log
<1>8. /\ logs' \in [DOMAIN logs' -> LogType] /\ DOMAIN logs' = DOMAIN logs \cup {number}
      /\ logs'[number] = log /\ \A n \in DOMAIN logs : n # number => logs'[n] = logs[n]
  <2>1. DOMAIN With(logs, number, log) = DOMAIN logs \cup {number}
    BY DEF With
  <2>2. With(logs, number, log)[number] = log /\ \A n \in DOMAIN logs : n # number => With(logs, number, log)[n] = logs[n]
    BY DEF With
  <2>3. With(logs, number, log) \in [DOMAIN With(logs, number, log) -> LogType]
    BY <1>3, <1>7, WithType
  <2> QED BY <1>1, <2>1, <2>2, <2>3
<1>9. \A n \in DOMAIN logs' : logs'[n].synced <= Len(logs'[n].recs)
  BY <1>3, <1>7, <1>8
<1>10. imm' \in SUBSET SUBSET Entries /\ mem' \in SUBSET Entries /\ DOMAIN logs' \subseteq Nat
  BY <1>1, <1>3, <1>4, <1>8
<1>11. FileTypes'
  BY <1>1, <1>2, <1>4, <1>6, <1>8, <1>9, <1>10 DEF FileTypes
<1>12. LogNumbers'
  <2>1. /\ logfile_number_ \in DOMAIN logs /\ versions.log_number_ \in DOMAIN logs
        /\ \A n \in DOMAIN logs : n <= logfile_number_
        /\ logfile_number_ < number
    BY <1>2 DEF LogNumbers
  <2>2. \A n \in DOMAIN logs' : n <= number
    BY <1>3, <1>4, <1>8, <2>1
  <2>3. number < number + 1 /\ imm' # {}
    BY <1>1, <1>4
  <2> QED BY <1>1, <1>4, <1>8, <2>1, <2>2, <2>3 DEF LogNumbers
<1> QED BY <1>1, <1>2, <1>4, <1>5, <1>11, <1>12, ClientKeepsFiles

\* The files stay right in every step of a client.
LEMMA FileClientStep ==
  ASSUME DBAssumption, QueueInv, FileInv, NEW t \in Threads,
         ThreadStep(t) \/ CompactRange(t) \/ \E sync \in Syncs : Write(t, sync)
  PROVE  FileInv'
<1>1. FileInv => FileTypes /\ (Running => FlushIsRight)
  BY DEF FileInv, OpenFiles
<1>2. CASE CompactRange(t) \/ \E sync \in Syncs : Write(t, sync)
  <2>1. /\ phase = "open" /\ phase' = "open" /\ UNCHANGED <<files, memory, ghosts>>
        /\ UNCHANGED <<bg, pinned>>
    BY <1>2 DEF CompactRange, Write, Enqueue
  <2> QED BY <2>1, FilesStay DEF Running
<1>3. CASE Woken(t) \/ RoomFails(t) \/ Delay(t) \/ WaitForRoom(t) \/ BeginLogging(t) \/ WaitForFlush(t)
  <2>1. /\ Running /\ UNCHANGED phase /\ UNCHANGED <<files, memory, ghosts>>
        /\ UNCHANGED <<bg, pinned>>
    BY <1>3 DEF Woken, RoomFails, Delay, WaitForRoom, BeginLogging, WaitForFlush, AtRoom
  <2> QED BY <2>1, FilesStay DEF Running
<1>4. CASE ManualCompaction(t)
  <2>1. /\ Running /\ UNCHANGED phase /\ UNCHANGED <<files, memory, ghosts>> /\ UNCHANGED pinned
        /\ bg' = bg \/ bg' = MaybeSchedule(bg, imm, t, versions.current, bg_error_)
    BY <1>4 DEF ManualCompaction
  <2>2. bg' = bg \/ (bg.pc = "off" /\ bg' = [BackgroundOff EXCEPT !.pc = "scheduled"])
    BY <1>1, <2>1, MaybeScheduleSame DEF FileTypes
  <2> QED BY <2>1, <2>2, FilesStay DEF Running
<1> QED BY <1>2, <1>3, <1>4, FilesLogged, FilesFinished, FilesSwitched DEF ThreadStep

-------------------------------------------------------------------------------
(* The files: what the background thread does *)

\* The parts of the invariant that are about an open database.
LEMMA RunningFiles ==
  ASSUME FileTypes', ManifestNumbers', OpenFiles', phase' \in {"open", "closing"}
  PROVE  FileInv'
BY DEF FileInv, Running

\* While the MANIFEST is not written, all of its versions stay.
LEMMA ManifestStays ==
  ASSUME FileInv, UNCHANGED <<manifest, msynced>>
  PROVE  ManifestNumbers' /\ (\A n : Named(n)' = Named(n)) /\ Left' = Left
BY DEF FileInv, ManifestNumbers, Left, Named, VersionOf, Deleted, Files

\* Of the tables and logs some are deleted: none of the tables kept, no log from log on.
FilesLeft(kept, log) ==
  /\ tables' \in [DOMAIN tables' -> SUBSET Entries] /\ DOMAIN tables' \subseteq DOMAIN tables
  /\ \A f \in DOMAIN tables' : tables'[f] = tables[f]
  /\ \A f \in kept : f \in DOMAIN tables => f \in DOMAIN tables'
  /\ logs' \in [DOMAIN logs' -> LogType] /\ DOMAIN logs' \subseteq DOMAIN logs
  /\ \A n \in DOMAIN logs' : logs'[n] = logs[n]
  /\ \A n \in DOMAIN logs : n >= log => n \in DOMAIN logs'

\* A step that deletes nothing leaves all files.
LEMMA UnchangedLeft ==
  ASSUME FileTypes, UNCHANGED <<logs, tables>>, NEW kept, NEW log
  PROVE  FilesLeft(kept, log)
BY DEF FileTypes, FilesLeft

\* DeleteObsoleteFiles leaves the tables of the version, those pinned, and pending outputs.
LEMMA DeletedLeft ==
  ASSUME FileTypes, NEW v, NEW b, NEW pending, NEW log, DeleteObsoleteFiles(v, b, pending, log, tables)
  PROVE  FilesLeft(Files(v) \cup Pins(b) \cup pending, log)
<1> DEFINE S == Files(v) \cup Pins(b) \cup pending
           N == {n \in DOMAIN logs : n >= log}
<1>1. tables' = Restricted(tables, S) /\ logs' = Restricted(logs, N)
  BY DEF DeleteObsoleteFiles
<1>2. tables \in [DOMAIN tables -> SUBSET Entries] /\ logs \in [DOMAIN logs -> LogType]
  BY DEF FileTypes
<1> HIDE DEF S
<1>3. /\ tables' \in [DOMAIN tables' -> SUBSET Entries] /\ DOMAIN tables' = DOMAIN tables \cap S
      /\ \A f \in DOMAIN tables' : tables'[f] = tables[f]
  BY <1>1, <1>2 DEF Restricted
<1>4. /\ logs' \in [DOMAIN logs' -> LogType] /\ DOMAIN logs' = DOMAIN logs \cap N
      /\ \A n \in DOMAIN logs' : logs'[n] = logs[n]
  BY <1>1, <1>2 DEF Restricted
<1> QED BY <1>3, <1>4 DEF FilesLeft, S

\* What is left has its types.
LEMMA LeftTypes ==
  ASSUME FileTypes, NEW kept, NEW log, FilesLeft(kept, log)
  PROVE  /\ logs' \in [DOMAIN logs' -> LogType] /\ DOMAIN logs' \subseteq Nat
         /\ \A n \in DOMAIN logs' : logs'[n].synced <= Len(logs'[n].recs)
         /\ tables' \in [DOMAIN tables' -> SUBSET Entries] /\ DOMAIN tables' \subseteq Nat
BY DEF FileTypes, FilesLeft

\* The background thread is done: with a new version or not, with files deleted or not.
LEMMA BackgroundEnds ==
  ASSUME DBAssumption, FileInv, Running, phase' = phase, NEW p \in BgIdle, bg' = [BackgroundOff EXCEPT !.pc = p],
         UNCHANGED <<manifest, msynced, mem, logfile_number_, owed, durable, pinned>>,
         versions' \in [current : VersionType, log_number_ : Nat, next_file_number_ : Nat, last_sequence_ : Nat],
         versions'.next_file_number_ = versions.next_file_number_,
         \/ imm' = imm /\ versions'.log_number_ = versions.log_number_
         \/ imm' = {} /\ versions'.log_number_ = logfile_number_,
         pending_outputs_' \in SUBSET Nat,
         Files(versions'.current) \subseteq DOMAIN tables,
         NEW kept, Files(versions'.current) \cup (UNION pinned) \subseteq kept,
         FilesLeft(kept, versions'.log_number_)
  PROVE  FileInv'
<1>1. FileTypes /\ OpenFiles /\ phase' \in {"open", "closing"}
  BY DEF FileInv, Running
<1>2. ManifestNumbers' /\ manifest' = manifest
  BY ManifestStays
<1>3. bg' \in BgType
  <2>1. p \in BgPCs
    BY DEF BgPCs, BgIdle
  <2> QED BY <2>1, IdleBackground
<1>4. imm' \in SUBSET SUBSET Entries
  BY <1>1 DEF FileTypes
<1>5. FileTypes'
  BY <1>1, <1>3, <1>4, LeftTypes DEF FileTypes
<1>6. LogNumbers'
  <2>1. LogNumbers
    BY <1>1 DEF OpenFiles
  <2>2. versions'.log_number_ \in DOMAIN logs /\ logfile_number_ >= versions'.log_number_ /\ versions'.log_number_ >= versions'.log_number_
    BY <1>1, <2>1 DEF LogNumbers, FileTypes
  <2>3. /\ versions'.log_number_ \in DOMAIN logs' /\ logfile_number_ \in DOMAIN logs'
        /\ DOMAIN logs' \subseteq DOMAIN logs
    BY <2>1, <2>2 DEF FilesLeft, LogNumbers
  <2>4. imm' = {} => versions'.log_number_ = logfile_number_
    BY <2>1 DEF LogNumbers
  <2> QED BY <2>1, <2>3, <2>4 DEF LogNumbers
<1>7. NumbersAreOld'
  BY <1>1, <1>2 DEF OpenFiles, NumbersAreOld, FilesLeft
<1>8. (UNION pinned') \cup Files(versions'.current) \subseteq DOMAIN tables'
  <2>1. UNION pinned \subseteq DOMAIN tables
    BY <1>1 DEF OpenFiles, InUse
  <2> QED BY <2>1 DEF FilesLeft
<1>9. OpenFiles'
  BY <1>6, <1>7, <1>8, IdleFiles
<1> QED BY <1>1, <1>2, <1>5, <1>9, RunningFiles

\* EndCall leaves the background thread idle.
LEMMA EndCallIdle ==
  ASSUME NEW th, EndCall(th)
  PROVE  \E p \in BgIdle : bg' = [BackgroundOff EXCEPT !.pc = p]
<1>1. PICK p \in {"off", "scheduled"} : bg' = [BackgroundOff EXCEPT !.pc = p]
  BY MaybeScheduleIdle DEF EndCall
<1> QED BY <1>1 DEF BgIdle

\* BackgroundCall and BackgroundCompaction find nothing to do.
LEMMA FilesNothingDone ==
  ASSUME DBAssumption, FileInv, NoBackgroundWork \/ NothingToCompact
  PROVE  FileInv'
<1>1. /\ UNCHANGED <<files, memory, ghosts>> /\ UNCHANGED <<pinned, phase>> /\ Running
      /\ \E th : EndCall(th)
  BY DEF NoBackgroundWork, NothingToCompact, AtBackground, AtPick
<1>2. /\ UNCHANGED <<logs, tables, manifest, msynced, mem, imm, logfile_number_, versions, pending_outputs_>>
      /\ UNCHANGED <<owed, durable>>
  BY <1>1 DEF files, memory, ghosts
<1>3. PICK p \in BgIdle : bg' = [BackgroundOff EXCEPT !.pc = p]
  BY <1>1, EndCallIdle
<1>4. FileTypes /\ OpenFiles
  BY <1>1 DEF FileInv
<1>5. /\ versions' \in [current : VersionType, log_number_ : Nat, next_file_number_ : Nat, last_sequence_ : Nat]
      /\ pending_outputs_' \in SUBSET Nat
  BY <1>2, <1>4 DEF FileTypes
<1> DEFINE kept == DOMAIN tables
<1>6. FilesLeft(kept, versions'.log_number_)
  BY <1>2, <1>4, UnchangedLeft
<1>7. Files(versions'.current) \subseteq DOMAIN tables /\ Files(versions'.current) \cup (UNION pinned) \subseteq kept
  BY <1>2, <1>4 DEF OpenFiles, InUse
<1> HIDE DEF kept
<1> QED BY <1>1, <1>2, <1>3, <1>5, <1>6, <1>7, BackgroundEnds

\* CompactMemTable begins.
LEMMA FilesBeginFlush ==
  ASSUME DBAssumption, FileInv, Running, NEW caller \in {Nil, "compact", "writing"}, BeginFlush(caller),
         IF caller = Nil THEN bg.pc = "scheduled" ELSE bg.pc = caller
  PROVE  FileInv'
<1> DEFINE number == versions.next_file_number_
<1>1. /\ UNCHANGED <<logs, tables, manifest, msynced, mem, imm, logfile_number_, owed, durable, pinned, phase>>
      /\ imm # {} /\ versions' = [versions EXCEPT !.next_file_number_ = number + 1]
      /\ bg' = [bg EXCEPT !.pc = "build", !.out = number, !.caller = caller]
      /\ pending_outputs_' = pending_outputs_ \cup {number}
  BY DEF BeginFlush, files, ghosts
<1>2. FileTypes /\ OpenFiles /\ phase' \in {"open", "closing"}
  BY <1>1 DEF FileInv, Running
<1>3. /\ versions \in [current : VersionType, log_number_ : Nat, next_file_number_ : Nat, last_sequence_ : Nat]
      /\ bg \in BgType /\ pending_outputs_ \in SUBSET Nat /\ number \in Nat /\ number # Nil
  BY <1>2 DEF FileTypes, DBAssumption
<1>4. /\ versions' \in [current : VersionType, log_number_ : Nat, next_file_number_ : Nat, last_sequence_ : Nat]
      /\ versions'.current = versions.current /\ versions'.log_number_ = versions.log_number_
      /\ versions'.next_file_number_ = number + 1
  BY <1>1, <1>3
<1>5. /\ bg' \in BgType /\ bg'.pc = "build" /\ bg'.out = number /\ bg'.caller = caller
      /\ bg'.output = bg.output /\ bg'.inputs = bg.inputs /\ bg'.inputVersion = bg.inputVersion
      /\ bg'.edit = bg.edit /\ bg'.status = bg.status
  <2>1. number \in Nat \cup {Nil} /\ "build" \in BgPCs /\ bg \in BgType
    BY <1>3 DEF BgPCs
  <2> HIDE DEF number
  <2> QED BY <1>1, <2>1 DEF BgType
<1>6. ManifestNumbers' /\ (\A n : Named(n)' = Named(n)) /\ Left' = Left
  BY <1>1, ManifestStays
<1>7. FileTypes'
  BY <1>1, <1>2, <1>3, <1>4, <1>5 DEF FileTypes
<1>8. LogNumbers' /\ NumbersAreOld' /\ InUse'
  <2>1. LogNumbers /\ NumbersAreOld /\ InUse
    BY <1>2 DEF OpenFiles
  <2>2. (\A f \in DOMAIN tables : f \in Nat) /\ logfile_number_ \in Nat /\ manifest[Len(manifest)].next \in Nat
    <3>1. manifest[Len(manifest)] \in EditType
      BY <1>2 DEF FileTypes
    <3> QED BY <1>2, <3>1 DEF FileTypes, EditType
  <2> QED BY <1>1, <1>3, <1>4, <1>5, <2>1, <2>2 DEF LogNumbers, NumbersAreOld, InUse
<1>9. number \notin DOMAIN tables
  BY <1>2, <1>3 DEF OpenFiles, NumbersAreOld
<1>10. FlushIsRight'
  <2>1. Flushing' /\ ~InManifest'
    BY <1>5 DEF Flushing, InManifest
  <2> QED BY <1>1, <1>3, <1>4, <1>5, <1>9, <2>1 DEF FlushIsRight, BgIdle
<1>11. CompactionIsRight'
  <2>1. CompactionIsRight
    BY <1>2 DEF OpenFiles
  <2>2. Writing' => Writing
    BY <1>5 DEF Writing, DBAssumption
  <2>3. Writing => bg.output # number
    BY <1>9, <2>1 DEF CompactionIsRight
  <2>4. ~InManifest' /\ bg'.pc # "finish"
    BY <1>5 DEF InManifest
  <2> QED BY <1>1, <1>4, <1>5, <1>6, <2>1, <2>2, <2>3, <2>4 DEF CompactionIsRight
<1>12. EditIsRight'
  BY <1>5 DEF EditIsRight, InManifest
<1>13. OpenFiles'
  BY <1>8, <1>10, <1>11, <1>12 DEF OpenFiles
<1> QED BY <1>2, <1>6, <1>7, <1>13, RunningFiles

\* BuildTable writes a table that nobody has yet.
LEMMA FilesBuilt ==
  ASSUME DBAssumption, FileInv, BuildTable
  PROVE  FileInv'
<1> DEFINE table == UNION imm
<1>1. /\ UNCHANGED <<logs, manifest, msynced, mem, imm, logfile_number_, owed, durable, pinned, phase>>
      /\ UNCHANGED <<versions, pending_outputs_>> /\ Running /\ bg.pc = "build"
      /\ bg' = [bg EXCEPT !.pc = "built", !.status = "ok"] \/ bg' = [bg EXCEPT !.pc = "built", !.status = "error"]
      /\ IF bg'.status = "error" \/ table = {} THEN tables' = tables ELSE tables' = With(tables, bg.out, table)
  BY DEF BuildTable, AtBackground, memory, ghosts
<1>2. FileTypes /\ OpenFiles /\ phase' \in {"open", "closing"}
  BY <1>1 DEF FileInv, Running
<1>3. bg \in BgType /\ bg.out \in Nat /\ bg.out \notin DOMAIN tables /\ bg.out < versions.next_file_number_
  <2>1. bg \in BgType
    BY <1>2 DEF FileTypes
  <2>2. Flushing /\ FlushIsRight
    BY <1>1, <1>2 DEF Flushing, OpenFiles
  <2> QED BY <1>1, <2>1, <2>2 DEF FlushIsRight, BgType
<1>4. /\ bg' \in BgType /\ bg'.pc = "built" /\ bg'.out = bg.out /\ bg'.caller = bg.caller
      /\ bg'.output = bg.output /\ bg'.inputs = bg.inputs /\ bg'.inputVersion = bg.inputVersion
      /\ bg'.edit = bg.edit
  <2>1. PICK s \in {"ok", "error"} : bg' = [bg EXCEPT !.pc = "built", !.status = s]
    BY <1>1
  <2>2. "built" \in BgPCs /\ bg \in BgType
    BY <1>3 DEF BgPCs
  <2> QED BY <2>1, <2>2 DEF BgType
<1>5. table \in SUBSET Entries /\ tables \in [DOMAIN tables -> SUBSET Entries] /\ DOMAIN tables \subseteq Nat
  BY <1>2 DEF FileTypes
<1> HIDE DEF table
<1>6. /\ tables' \in [DOMAIN tables' -> SUBSET Entries] /\ DOMAIN tables' \subseteq DOMAIN tables \cup {bg.out}
      /\ DOMAIN tables \subseteq DOMAIN tables' /\ \A f \in DOMAIN tables : tables'[f] = tables[f]
      /\ bg'.status = "ok" /\ table # {} => bg.out \in DOMAIN tables' /\ tables'[bg.out] = table
  <2>1. CASE bg'.status = "error" \/ table = {}
    BY <1>1, <1>5, <2>1
  <2>2. CASE ~(bg'.status = "error" \/ table = {})
    BY <1>1, <1>3, <1>5, <2>2 DEF With
  <2> QED BY <2>1, <2>2
<1>7. ManifestNumbers' /\ (\A n : Named(n)' = Named(n)) /\ Left' = Left
  BY <1>1, ManifestStays
<1>8. FileTypes'
  BY <1>1, <1>2, <1>3, <1>4, <1>5, <1>6 DEF FileTypes
<1>9. LogNumbers' /\ NumbersAreOld' /\ InUse'
  <2>1. LogNumbers /\ NumbersAreOld /\ InUse
    BY <1>2 DEF OpenFiles
  <2> QED BY <1>1, <1>3, <1>4, <1>6, <2>1 DEF LogNumbers, NumbersAreOld, InUse
<1>10. FlushIsRight'
  <2>1. Flushing' /\ ~InManifest' /\ Flushing
    BY <1>1, <1>4 DEF Flushing, InManifest
  <2>2. FlushIsRight
    BY <1>2 DEF OpenFiles
  <2> QED BY <1>1, <1>4, <1>6, <2>1, <2>2 DEF FlushIsRight, BgIdle, table
<1>11. CompactionIsRight'
  <2>1. CompactionIsRight
    BY <1>2 DEF OpenFiles
  <2>2. Writing' => Writing
    BY <1>4 DEF Writing
  <2>3. ~InManifest' /\ bg'.pc # "finish"
    BY <1>4 DEF InManifest
  <2> QED BY <1>1, <1>4, <1>6, <1>7, <2>1, <2>2, <2>3 DEF CompactionIsRight
<1>12. EditIsRight'
  BY <1>4 DEF EditIsRight, InManifest
<1>13. OpenFiles'
  BY <1>9, <1>10, <1>11, <1>12 DEF OpenFiles
<1> QED BY <1>2, <1>7, <1>8, <1>13, RunningFiles

\* CompactMemTable returns.
LEMMA FilesFlushReturns ==
  ASSUME DBAssumption, FileInv, Running, phase' = phase, Flushing, FlushReturns,
         UNCHANGED <<manifest, msynced, mem, logfile_number_, owed, durable, pinned>>,
         versions' \in [current : VersionType, log_number_ : Nat, next_file_number_ : Nat, last_sequence_ : Nat],
         versions'.next_file_number_ = versions.next_file_number_,
         \/ imm' = imm /\ versions'.log_number_ = versions.log_number_
         \/ imm' = {} /\ versions'.log_number_ = logfile_number_,
         pending_outputs_' \in SUBSET Nat, Writing => bg.output \in pending_outputs_',
         Files(versions'.current) \subseteq DOMAIN tables, Writing => bg.output \notin Files(versions'.current),
         NEW kept, Files(versions'.current) \cup Pins(bg) \cup pending_outputs_' \subseteq kept,
         FilesLeft(kept, versions'.log_number_)
  PROVE  FileInv'
<1>1. /\ FileTypes /\ OpenFiles /\ phase' \in {"open", "closing"}
      /\ LogNumbers /\ NumbersAreOld /\ InUse /\ FlushIsRight /\ CompactionIsRight
  BY DEF FileInv, OpenFiles, Running
<1>2. CASE bg.caller = Nil
  <2>1. PICK p \in BgIdle : bg' = [BackgroundOff EXCEPT !.pc = p]
    BY <1>2, EndCallIdle DEF FlushReturns
  <2>2. Files(versions'.current) \cup (UNION pinned) \subseteq kept
    BY DEF Pins
  <2> QED BY <2>1, <2>2, BackgroundEnds
<1>3. CASE bg.caller # Nil
  <2>1. /\ bg \in BgType /\ bg.caller \in {"compact", "writing"}
        /\ bg' = [bg EXCEPT !.pc = bg.caller, !.out = Nil, !.caller = Nil, !.edit = NoEdit, !.status = "ok"]
    BY <1>1, <1>3 DEF FlushReturns, FileTypes, BgType
  <2>2. /\ bg' \in BgType /\ bg'.pc = bg.caller /\ bg'.out = Nil /\ bg'.caller = Nil
        /\ bg'.output = bg.output /\ bg'.inputs = bg.inputs /\ bg'.inputVersion = bg.inputVersion
    <3>1. NoEdit \in EditType /\ bg.caller \in BgPCs
      BY <2>1, NoFilesFacts DEF BgPCs
    <3> HIDE DEF NoEdit
    <3> QED BY <2>1, <3>1 DEF BgType
  <2>3. ManifestNumbers' /\ (\A n : Named(n)' = Named(n)) /\ Left' = Left /\ manifest' = manifest
    BY ManifestStays
  <2>4. imm' \in SUBSET SUBSET Entries
    BY <1>1 DEF FileTypes
  <2>5. FileTypes'
    BY <1>1, <2>2, <2>4, LeftTypes DEF FileTypes
  <2>6. LogNumbers'
    <3>2. versions'.log_number_ \in DOMAIN logs /\ logfile_number_ >= versions'.log_number_ /\ versions'.log_number_ >= versions'.log_number_
      BY <1>1 DEF LogNumbers, FileTypes
    <3>3. /\ versions'.log_number_ \in DOMAIN logs' /\ logfile_number_ \in DOMAIN logs'
          /\ DOMAIN logs' \subseteq DOMAIN logs
      BY <1>1, <3>2 DEF FilesLeft, LogNumbers
    <3>4. imm' = {} => versions'.log_number_ = logfile_number_
      BY <1>1 DEF LogNumbers
    <3> QED BY <1>1, <3>3, <3>4 DEF LogNumbers
  <2>7. NumbersAreOld'
    BY <1>1, <2>3 DEF NumbersAreOld, FilesLeft
  <2>8. InUse'
    BY <1>1, <2>2 DEF InUse, Pins, FilesLeft
  <2>9. ~Flushing' /\ ~InManifest' /\ bg'.pc \notin BgIdle \cup {"build", "built", "finish"}
    BY <2>1, <2>2 DEF Flushing, InManifest, BgIdle
  <2>10. FlushIsRight'
    BY <2>2, <2>9 DEF FlushIsRight
  <2>11. CompactionIsRight'
    <3>1. Writing' => Writing
      BY <2>2 DEF Writing, DBAssumption
    <3>2. Writing => bg.output \in DOMAIN tables' /\ bg.output # Nil
      BY <1>1 DEF CompactionIsRight, FilesLeft, DBAssumption
    <3> QED BY <1>1, <2>2, <2>3, <2>9, <3>1, <3>2 DEF CompactionIsRight
  <2>12. EditIsRight'
    BY <2>9 DEF EditIsRight
  <2> QED BY <1>1, <2>3, <2>5, <2>6, <2>7, <2>8, <2>10, <2>11, <2>12, RunningFiles DEF OpenFiles
<1> QED BY <1>2, <1>3

\* CompactMemTable hands its table to the MANIFEST, or gives up.
LEMMA FilesFlushBuilt ==
  ASSUME DBAssumption, FileInv, FlushBuilt
  PROVE  FileInv'
<1> DEFINE file == IF UNION imm = {} THEN {} ELSE {bg.out}
<1>1. /\ UNCHANGED <<logs, tables, manifest, msynced, mem, imm, logfile_number_, owed, durable, pinned, phase>>
      /\ UNCHANGED versions /\ Running /\ bg.pc = "built"
      /\ pending_outputs_' = pending_outputs_ \ {bg.out}
  BY DEF FlushBuilt, AtBackground, files, ghosts
<1>2. /\ FileTypes /\ OpenFiles /\ phase' \in {"open", "closing"}
      /\ LogNumbers /\ NumbersAreOld /\ InUse /\ FlushIsRight /\ CompactionIsRight
  BY <1>1 DEF FileInv, OpenFiles, Running
<1>3. /\ versions' \in [current : VersionType, log_number_ : Nat, next_file_number_ : Nat, last_sequence_ : Nat]
      /\ bg \in BgType /\ pending_outputs_' \in SUBSET Nat /\ logfile_number_ \in Nat
      /\ versions.next_file_number_ \in Nat /\ versions.last_sequence_ \in Nat
  BY <1>1, <1>2 DEF FileTypes
<1>4. /\ Flushing /\ imm # {} /\ bg.out \in Nat /\ bg.out < versions.next_file_number_
      /\ bg.status = "ok" /\ UNION imm # {} => bg.out \in DOMAIN tables /\ tables[bg.out] = UNION imm
  <2>1. Flushing
    BY <1>1 DEF Flushing
  <2> QED BY <1>1, <1>2, <1>3, <2>1 DEF FlushIsRight, BgType
<1>5. Writing => bg.output \in pending_outputs_'
  BY <1>1, <1>2 DEF CompactionIsRight
<1>6. CASE bg.status = "error" \/ shutting_down_
  <2>1. FlushReturns
    BY <1>6 DEF FlushBuilt
  <2> DEFINE kept == Files(versions'.current) \cup Pins(bg) \cup pending_outputs_'
  <2>2. FilesLeft(kept, versions'.log_number_)
    BY <1>1, <1>2, UnchangedLeft
  <2>3. Files(versions'.current) \subseteq DOMAIN tables /\ (Writing => bg.output \notin Files(versions'.current))
    BY <1>1, <1>2 DEF InUse, CompactionIsRight
  <2>4. Files(versions'.current) \cup Pins(bg) \cup pending_outputs_' \subseteq kept
    OBVIOUS
  <2> HIDE DEF kept
  <2> QED BY <1>1, <1>3, <1>4, <1>5, <2>1, <2>2, <2>3, <2>4, FilesFlushReturns
<1>7. CASE ~(bg.status = "error" \/ shutting_down_)
  <2>1. PICK l0 \in {{}, file} :
           bg' = [bg EXCEPT !.pc = "manifest",
                            !.edit = Edit(l0, file \ l0, {}, logfile_number_,
                                          versions.next_file_number_, versions.last_sequence_)]
    BY <1>7 DEF FlushBuilt
  <2> DEFINE edit == Edit(l0, file \ l0, {}, logfile_number_, versions.next_file_number_, versions.last_sequence_)
  <2>2. file \subseteq Nat /\ file \subseteq {bg.out}
    BY <1>4
  <2> HIDE DEF file
  <2>3. /\ edit \in EditType /\ Added(edit) = file /\ edit.deleted = {} /\ edit.log = logfile_number_
        /\ edit.next = versions.next_file_number_
    BY <1>3, <2>2 DEF Edit, EditType, Added
  <2> HIDE DEF edit
  <2>4. /\ bg' \in BgType /\ bg'.pc = "manifest" /\ bg'.out = bg.out /\ bg'.caller = bg.caller
        /\ bg'.output = bg.output /\ bg'.inputs = bg.inputs /\ bg'.inputVersion = bg.inputVersion
        /\ bg'.edit = edit /\ bg'.status = bg.status
    <3>1. "manifest" \in BgPCs /\ bg' = [bg EXCEPT !.pc = "manifest", !.edit = edit]
      BY <2>1 DEF BgPCs, edit
    <3> QED BY <1>3, <2>3, <3>1 DEF BgType
  <2>5. ManifestNumbers' /\ (\A n : Named(n)' = Named(n)) /\ Left' = Left
    BY <1>1, ManifestStays
  <2>6. FileTypes'
    BY <1>1, <1>2, <1>3, <2>4 DEF FileTypes
  <2>7. LogNumbers' /\ NumbersAreOld' /\ InUse'
    BY <1>1, <1>2, <2>4 DEF LogNumbers, NumbersAreOld, InUse
  <2>8. Flushing' /\ InManifest' /\ Flushing /\ (Writing' <=> Writing)
    <3>1. bg.out # Nil
      BY <1>4 DEF DBAssumption
    <3> QED BY <1>1, <1>4, <2>4, <3>1 DEF Flushing, InManifest, Writing
  <2>9. bg.status = "ok"
    BY <1>3, <1>7 DEF BgType
  <2>10. FlushIsRight'
    <3>1. bg'.out # Nil
      BY <1>4, <2>4 DEF DBAssumption
    <3> QED BY <1>1, <1>2, <1>4, <2>3, <2>4, <2>8, <2>9, <3>1 DEF FlushIsRight, BgIdle, file
  <2>11. CompactionIsRight'
    <3>1. bg'.out # Nil
      BY <1>4, <2>4 DEF DBAssumption
    <3> QED BY <1>1, <1>2, <1>5, <2>4, <2>5, <2>8, <3>1 DEF CompactionIsRight
  <2>12. EditIsRight'
    <3>1. file \subseteq DOMAIN tables
      BY <1>4, <2>9 DEF file
    <3>2. \A f \in file : f < versions.next_file_number_
      BY <1>4, <2>2
    <3>3. Held(bg.edit.deleted)' = {}
      BY <2>3, <2>4 DEF Held
    <3>4. logfile_number_ < versions.next_file_number_ /\ manifest[Len(manifest)].next <= versions.next_file_number_
      BY <1>2 DEF LogNumbers, NumbersAreOld
    <3>5. versions.next_file_number_ <= versions.next_file_number_
      BY <1>3
    <3> QED BY <1>1, <2>3, <2>4, <3>1, <3>2, <3>3, <3>4, <3>5 DEF EditIsRight
  <2>13. OpenFiles'
    BY <2>7, <2>10, <2>11, <2>12 DEF OpenFiles
  <2> QED BY <1>2, <2>5, <2>6, <2>13, RunningFiles
<1> QED BY <1>6, <1>7

\* The MANIFEST with the edit of the background thread, or without it after a fault.
LEMMA ManifestWritten ==
  ASSUME DBAssumption, FileInv, WriteManifest
  PROVE  /\ manifest' = manifest \/ manifest' = Append(manifest, bg.edit)
         /\ manifest' \in Seq(EditType) /\ msynced' \in 1..Len(manifest')
         /\ \A n \in Left' : \/ n \in Left /\ Named(n)' = Named(n) /\ manifest'[n] = manifest[n]
                             \/ /\ n = Len(manifest) + 1 /\ manifest'[n] = bg.edit /\ Len(manifest') = n
                                /\ Named(n)' = (Named(Len(manifest)) \ bg.edit.deleted) \cup Added(bg.edit)
         /\ Len(manifest) \in Left
         /\ \/ Len(manifest') = Len(manifest) /\ manifest' = manifest
            \/ Len(manifest') = Len(manifest) + 1 /\ manifest'[Len(manifest')] = bg.edit
<1>1. /\ manifest \in Seq(EditType) /\ bg.edit \in EditType /\ msynced \in 1..Len(manifest) /\ Len(manifest) \in Nat
  <2>1. FileTypes
    BY DEF FileInv
  <2> QED BY <2>1 DEF FileTypes, BgType
<1>2. Len(manifest) \in Left
  BY <1>1 DEF Left
<1>3. CASE manifest' = manifest
  <2>1. msynced' = msynced
    <3>1. Len(Append(manifest, bg.edit)) = Len(manifest) + 1
      BY <1>1
    <3>2. manifest' # Append(manifest, bg.edit)
      BY <1>1, <1>3, <3>1
    <3> QED BY <3>2 DEF WriteManifest
  <2>2. Left' = Left /\ \A n : Named(n)' = Named(n)
    BY <1>3, <2>1, ManifestStays
  <2>3. manifest' \in Seq(EditType) /\ msynced' \in 1..Len(manifest') /\ Len(manifest') = Len(manifest)
    BY <1>1, <1>3, <2>1
  <2>4. \A n \in Left' : n \in Left /\ Named(n)' = Named(n) /\ manifest'[n] = manifest[n]
    BY <1>3, <2>2
  <2> QED BY <1>2, <1>3, <2>3, <2>4
<1>4. CASE manifest' = Append(manifest, bg.edit)
  <2>1. msynced' \in {msynced, Len(manifest) + 1}
    BY DEF WriteManifest
  <2>2. /\ manifest' \in Seq(EditType) /\ Len(manifest') = Len(manifest) + 1
        /\ manifest'[Len(manifest) + 1] = bg.edit
        /\ \A n \in 1..Len(manifest) : manifest'[n] = manifest[n]
        /\ \A n \in 1..Len(manifest) : VersionOf(manifest', n) = VersionOf(manifest, n)
        /\ VersionOf(manifest', Len(manifest) + 1) = Apply(VersionOf(manifest, Len(manifest)), bg.edit)
    BY <1>1, <1>4, VersionOfAppend
  <2>3. ASSUME NEW n \in Left'
        PROVE  \/ n \in Left /\ Named(n)' = Named(n) /\ manifest'[n] = manifest[n]
               \/ /\ n = Len(manifest) + 1 /\ manifest'[n] = bg.edit /\ Len(manifest') = n
                  /\ Named(n)' = (Named(Len(manifest)) \ bg.edit.deleted) \cup Added(bg.edit)
    <3>1. CASE n = Len(manifest) + 1
      <4>1. Named(n)' = Files(VersionOf(manifest', n))
        BY DEF Named, Files, VersionOf, Deleted
      <4> QED BY <2>2, <3>1, <4>1, ApplyFiles DEF Named
    <3>2. CASE n # Len(manifest) + 1
      <4>1. n \in Left /\ n \in 1..Len(manifest)
        BY <1>1, <2>1, <2>2, <3>2 DEF Left
      <4>2. Named(n)' = Files(VersionOf(manifest', n))
        BY DEF Named, Files, VersionOf, Deleted
      <4> QED BY <2>2, <4>1, <4>2 DEF Named
    <3> QED BY <3>1, <3>2
  <2>4. msynced' \in 1..Len(manifest')
    BY <1>1, <2>1, <2>2
  <2> QED BY <1>2, <1>4, <2>2, <2>3, <2>4
<1> QED BY <1>3, <1>4 DEF WriteManifest

\* The write of an edit to the MANIFEST.
LEMMA FilesManifest ==
  ASSUME DBAssumption, FileInv, WriteManifest
  PROVE  FileInv'
<1>1. /\ UNCHANGED <<logs, tables, mem, imm, logfile_number_, owed, durable, pinned, phase>>
      /\ UNCHANGED <<versions, pending_outputs_>> /\ Running /\ bg.pc = "manifest"
      /\ \E s \in {bg.status, "error"} : bg' = [bg EXCEPT !.pc = "install", !.status = s]
  <2>1. CASE bg' = [bg EXCEPT !.pc = "install"]
    <3>1. bg \in BgType
      BY DEF FileInv, FileTypes
    <3>2. [bg EXCEPT !.pc = "install"] = [bg EXCEPT !.pc = "install", !.status = bg.status]
      BY <3>1 DEF BgType
    <3> QED BY <2>1, <3>2 DEF WriteManifest, AtBackground, memory, ghosts
  <2>2. CASE bg' = [bg EXCEPT !.pc = "install", !.status = "error"]
    BY <2>2 DEF WriteManifest, AtBackground, memory, ghosts
  <2> QED BY <2>1, <2>2 DEF WriteManifest
<1>2. /\ FileTypes /\ OpenFiles /\ phase' \in {"open", "closing"} /\ ManifestNumbers
      /\ LogNumbers /\ NumbersAreOld /\ InUse /\ FlushIsRight /\ CompactionIsRight /\ EditIsRight
  BY <1>1 DEF FileInv, OpenFiles, Running
<1>3. /\ bg \in BgType /\ bg.edit \in EditType /\ InManifest /\ manifest \in Seq(EditType) /\ msynced \in 1..Len(manifest)
  BY <1>1, <1>2 DEF FileTypes, BgType, InManifest
<1>4. /\ bg' \in BgType /\ bg'.pc = "install" /\ bg'.out = bg.out /\ bg'.caller = bg.caller
      /\ bg'.output = bg.output /\ bg'.inputs = bg.inputs /\ bg'.inputVersion = bg.inputVersion
      /\ bg'.edit = bg.edit
  <2>1. PICK s \in {"ok", "error"} : bg' = [bg EXCEPT !.pc = "install", !.status = s]
    BY <1>1, <1>3 DEF BgType
  <2>2. "install" \in BgPCs
    BY DEF BgPCs
  <2> QED BY <1>3, <2>1, <2>2 DEF BgType
<1> DEFINE len == Len(manifest)
<1>5. /\ manifest' \in Seq(EditType) /\ msynced' \in 1..Len(manifest')
      /\ \A n \in Left' : \/ n \in Left /\ Named(n)' = Named(n) /\ manifest'[n] = manifest[n]
                          \/ /\ n = len + 1 /\ manifest'[n] = bg.edit /\ Len(manifest') = n
                             /\ Named(n)' = (Named(len) \ bg.edit.deleted) \cup Added(bg.edit)
      /\ len \in Left
      /\ \/ Len(manifest') = len /\ manifest' = manifest
         \/ Len(manifest') = len + 1 /\ manifest'[Len(manifest')] = bg.edit
  BY ManifestWritten
<1>6. FileTypes'
  BY <1>1, <1>2, <1>4, <1>5 DEF FileTypes
<1>7. /\ \A f \in Added(bg.edit) : f \in Nat /\ f < bg.edit.next
      /\ bg.edit.next \in Nat /\ bg.edit.log \in Nat /\ manifest[len].next \in Nat
      /\ manifest[len].next <= bg.edit.next /\ bg.edit.next <= versions.next_file_number_
      /\ bg.edit.log < bg.edit.next /\ versions.next_file_number_ \in Nat
  <2>1. manifest[len] \in EditType
    BY <1>3
  <2>2. \A f \in Added(bg.edit) : f < bg.edit.next
    BY <1>2, <1>3 DEF EditIsRight
  <2>3. /\ manifest[len].next <= bg.edit.next /\ bg.edit.next <= versions.next_file_number_
        /\ bg.edit.log < bg.edit.next
    BY <1>2, <1>3 DEF EditIsRight
  <2>4. bg.edit.next \in Nat /\ bg.edit.log \in Nat /\ manifest[len].next \in Nat
    BY <1>3, <2>1 DEF EditType
  <2>5. Added(bg.edit) \subseteq Nat /\ versions.next_file_number_ \in Nat
    BY <1>2, <1>3 DEF EditType, Added, FileTypes
  <2> QED BY <2>2, <2>3, <2>4, <2>5
<1>8. manifest'[Len(manifest')].next \in {manifest[len].next, bg.edit.next}
  BY <1>5
<1>9. ManifestNumbers'
  <2> SUFFICES ASSUME NEW n \in Left'
               PROVE  /\ \A f \in Named(n)' : f < manifest'[n].next
                      /\ manifest'[n].log < manifest'[n].next
                      /\ manifest'[n].next <= manifest'[Len(manifest')].next
    BY DEF ManifestNumbers
  <2>1. CASE n \in Left /\ Named(n)' = Named(n) /\ manifest'[n] = manifest[n]
    <3>1. /\ \A f \in Named(n) : f < manifest[n].next
          /\ manifest[n].log < manifest[n].next
          /\ manifest[n].next <= manifest[len].next
      BY <1>2, <2>1 DEF ManifestNumbers
    <3>2. manifest[n].next \in Nat
      <4>1. manifest[n] \in EditType
        BY <1>3, <2>1 DEF Left
      <4> QED BY <4>1 DEF EditType
    <3>3. manifest[n].next <= bg.edit.next
      BY <1>7, <3>1, <3>2
    <3> QED BY <1>8, <2>1, <3>1, <3>3
  <2>2. CASE /\ n = len + 1 /\ manifest'[n] = bg.edit /\ Len(manifest') = n
             /\ Named(n)' = (Named(len) \ bg.edit.deleted) \cup Added(bg.edit)
    <3>1. \A f \in Named(len) : f < manifest[len].next
      BY <1>2, <1>5 DEF ManifestNumbers
    <3>2. Named(len) \subseteq Nat
      <4>1. len \in 0..Len(manifest)
        BY <1>3
      <4>2. VersionOf(manifest, len) \in VersionType
        BY <1>3, <4>1, VersionOfType
      <4> QED BY <4>2 DEF Named, VersionType, Files
    <3>3. \A f \in Named(len) : f < bg.edit.next
      BY <1>7, <3>1, <3>2
    <3>4. bg.edit.next <= bg.edit.next
      BY <1>7
    <3> QED BY <1>7, <2>2, <3>3, <3>4
  <2> QED BY <1>5, <2>1, <2>2
<1>10. LogNumbers' /\ NumbersAreOld' /\ InUse'
  <2>1. manifest'[Len(manifest')].next <= versions.next_file_number_
    BY <1>7, <1>8
  <2> QED BY <1>1, <1>2, <1>4, <2>1 DEF LogNumbers, NumbersAreOld, InUse
<1>11. Flushing' = Flushing /\ InManifest' /\ Writing' = Writing
  BY <1>1, <1>4 DEF Flushing, InManifest, Writing
<1>12. FlushIsRight'
  BY <1>1, <1>2, <1>3, <1>4, <1>11 DEF FlushIsRight, BgIdle
<1>13. CompactionIsRight'
  <2>1. Writing => \A n \in Left' : bg.output \notin Named(n)'
    <3> SUFFICES ASSUME Writing, NEW n \in Left' PROVE bg.output \notin Named(n)'
      OBVIOUS
    <3>1. (\A m \in Left : bg.output \notin Named(m)) /\ bg.output # bg.out
      BY <1>2 DEF CompactionIsRight
    <3>2. Added(bg.edit) \subseteq {bg.out}
      <4>1. bg.caller = "writing"
        BY <1>1 DEF Writing
      <4>2. Flushing
        BY <1>2, <4>1 DEF FlushIsRight, DBAssumption
      <4>3. InManifest /\ bg.out # Nil
        BY <1>2, <1>3, <4>2 DEF FlushIsRight
      <4>4. Added(bg.edit) = IF UNION imm = {} THEN {} ELSE {bg.out}
        BY <1>2, <4>3 DEF FlushIsRight
      <4> QED BY <4>4
    <3> QED BY <1>5, <3>1, <3>2
  <2> QED BY <1>1, <1>2, <1>3, <1>4, <1>11, <2>1 DEF CompactionIsRight
<1>14. EditIsRight'
  <2>1. manifest'[Len(manifest')].next <= bg.edit.next
    BY <1>7, <1>8
  <2>2. Held(bg.edit.deleted)' = Held(bg.edit.deleted) /\ Held(Added(bg.edit))' = Held(Added(bg.edit))
    BY <1>1, <1>4 DEF Held, Added
  <2> QED BY <1>1, <1>2, <1>3, <1>4, <1>7, <2>1, <2>2 DEF EditIsRight
<1> QED BY <1>2, <1>6, <1>9, <1>10, <1>12, <1>13, <1>14, RunningFiles DEF OpenFiles

\* The end of LogAndApply gives a version of files that exist.
LEMMA VersionInstalled ==
  ASSUME DBAssumption, FileInv, Running, InManifest, InstallVersion
  PROVE  /\ versions' \in [current : VersionType, log_number_ : Nat, next_file_number_ : Nat, last_sequence_ : Nat]
         /\ versions'.next_file_number_ = versions.next_file_number_
         /\ versions'.last_sequence_ = versions.last_sequence_
         /\ bg.status = "error" => versions' = versions
         /\ bg.status # "error" =>
              /\ versions'.log_number_ = bg.edit.log /\ versions'.current = Apply(versions.current, bg.edit)
              /\ Files(versions'.current) = (Files(versions.current) \ bg.edit.deleted) \cup Added(bg.edit)
         /\ Files(versions'.current) \subseteq DOMAIN tables
<1>1. /\ versions \in [current : VersionType, log_number_ : Nat, next_file_number_ : Nat, last_sequence_ : Nat]
      /\ bg.edit \in EditType /\ versions.current \in VersionType
  BY DEF FileInv, FileTypes, BgType
<1>2. Files(versions.current) \subseteq DOMAIN tables /\ Added(bg.edit) \subseteq DOMAIN tables
  BY DEF FileInv, OpenFiles, InUse, EditIsRight
<1>3. Apply(versions.current, bg.edit) \in VersionType /\ bg.edit.log \in Nat
  BY <1>1, ApplyType DEF EditType
<1>4. Files(Apply(versions.current, bg.edit)) = (Files(versions.current) \ bg.edit.deleted) \cup Added(bg.edit)
  BY ApplyFiles
<1>5. CASE bg.status = "error"
  BY <1>1, <1>2, <1>5 DEF InstallVersion
<1>6. CASE bg.status # "error"
  BY <1>1, <1>2, <1>3, <1>4, <1>6 DEF InstallVersion
<1> QED BY <1>5, <1>6

\* CompactMemTable ends: the table is in the version, or the memtable stays.
LEMMA FilesFlushInstalled ==
  ASSUME DBAssumption, FileInv, InstallFlush
  PROVE  FileInv'
<1>1. /\ UNCHANGED <<manifest, msynced, mem, logfile_number_, owed, durable, pinned, phase, pending_outputs_>>
      /\ Running /\ bg.pc = "install" /\ bg.out # Nil /\ InstallVersion /\ FlushReturns
      /\ imm' = IF bg.status = "error" THEN imm ELSE {}
      /\ \/ UNCHANGED <<logs, tables>>
         \/ DeleteObsoleteFiles(versions'.current, bg, pending_outputs_, versions'.log_number_, tables)
  BY DEF InstallFlush, AtBackground, ghosts
<1>2. /\ FileTypes /\ OpenFiles /\ InManifest /\ Flushing
      /\ LogNumbers /\ NumbersAreOld /\ InUse /\ FlushIsRight /\ CompactionIsRight /\ EditIsRight
  BY <1>1 DEF FileInv, OpenFiles, InManifest, Flushing
<1>3. /\ versions' \in [current : VersionType, log_number_ : Nat, next_file_number_ : Nat, last_sequence_ : Nat]
      /\ versions'.next_file_number_ = versions.next_file_number_
      /\ bg.status = "error" => versions' = versions
      /\ bg.status # "error" =>
           /\ versions'.log_number_ = bg.edit.log
           /\ Files(versions'.current) = (Files(versions.current) \ bg.edit.deleted) \cup Added(bg.edit)
      /\ Files(versions'.current) \subseteq DOMAIN tables
  BY <1>1, <1>2, VersionInstalled
<1>4. bg.edit.log = logfile_number_ /\ Added(bg.edit) \subseteq {bg.out}
  <2>1. Added(bg.edit) = IF UNION imm = {} THEN {} ELSE {bg.out}
    BY <1>1, <1>2 DEF FlushIsRight
  <2> QED BY <1>1, <1>2, <2>1 DEF FlushIsRight
<1>5. Writing => bg.output \notin Files(versions'.current)
  <2>1. Writing => bg.output \notin Files(versions.current) /\ bg.output # bg.out
    BY <1>2 DEF CompactionIsRight
  <2> QED BY <1>3, <1>4, <2>1
<1>6. \/ imm' = imm /\ versions'.log_number_ = versions.log_number_
      \/ imm' = {} /\ versions'.log_number_ = logfile_number_
  BY <1>1, <1>3, <1>4
<1>7. pending_outputs_' \in SUBSET Nat /\ (Writing => bg.output \in pending_outputs_')
  BY <1>1, <1>2 DEF FileTypes, CompactionIsRight
<1> DEFINE kept == Files(versions'.current) \cup Pins(bg) \cup pending_outputs_'
<1>8. FilesLeft(kept, versions'.log_number_)
  BY <1>1, <1>2, UnchangedLeft, DeletedLeft
<1>9. Files(versions'.current) \cup Pins(bg) \cup pending_outputs_' \subseteq kept
  OBVIOUS
<1> HIDE DEF kept
<1> QED BY <1>1, <1>2, <1>3, <1>5, <1>6, <1>7, <1>8, <1>9, FilesFlushReturns

\* The end of BackgroundCompaction.
LEMMA FilesCompactionEnds ==
  ASSUME DBAssumption, FileInv, Running, CompactionEnds,
         versions' \in [current : VersionType, log_number_ : Nat, next_file_number_ : Nat, last_sequence_ : Nat],
         versions'.next_file_number_ = versions.next_file_number_,
         versions'.log_number_ = versions.log_number_,
         Files(versions'.current) \subseteq DOMAIN tables
  PROVE  FileInv'
<1>1. /\ UNCHANGED <<manifest, msynced, mem, imm, logfile_number_, owed, durable, pinned, phase>>
      /\ pending_outputs_' = pending_outputs_ \ {bg.output}
      /\ \/ UNCHANGED <<logs, tables>>
         \/ DeleteObsoleteFiles(versions'.current, BackgroundOff, pending_outputs_', versions'.log_number_, tables)
  BY DEF CompactionEnds, ghosts
<1>2. \E p \in BgIdle : bg' = [BackgroundOff EXCEPT !.pc = p]
  <2>1. CASE bg.is_manual /\ manual_compaction_ = Nil
    BY <2>1 DEF CompactionEnds, BgIdle
  <2>2. CASE ~(bg.is_manual /\ manual_compaction_ = Nil)
    <3>1. \E th : EndCall(th)
      BY <2>2 DEF CompactionEnds
    <3> QED BY <3>1, EndCallIdle
  <2> QED BY <2>1, <2>2
<1>3. FileTypes /\ OpenFiles
  BY DEF FileInv
<1>4. pending_outputs_' \in SUBSET Nat
  BY <1>1, <1>3 DEF FileTypes
<1> DEFINE kept == Files(versions'.current) \cup Pins(BackgroundOff) \cup pending_outputs_'
<1>5. FilesLeft(kept, versions'.log_number_)
  BY <1>1, <1>3, UnchangedLeft, DeletedLeft
<1>6. Files(versions'.current) \cup (UNION pinned) \subseteq kept
  BY DEF Pins
<1> HIDE DEF kept
<1> QED BY <1>1, <1>2, <1>4, <1>5, <1>6, BackgroundEnds

\* A step of a compaction that changes at most what the background thread does.
LEMMA FilesCompaction ==
  ASSUME DBAssumption, FileInv, TrivialMove \/ PickCompaction \/ AbandonCompaction \/ (FinishCompaction /\ bg.status # "error")
  PROVE  FileInv'
<1>1. /\ UNCHANGED <<logs, tables, manifest, msynced, mem, imm, logfile_number_, owed, durable, pinned, phase>>
      /\ UNCHANGED <<versions, pending_outputs_>> /\ Running
  <2>1. UNCHANGED <<files, memory, ghosts>> /\ UNCHANGED <<pinned, phase>> /\ Running
    <3>1. CASE TrivialMove
      BY <3>1 DEF TrivialMove, AtPick, AtBackground
    <3>2. CASE PickCompaction
      BY <3>2 DEF PickCompaction, AtPick, AtBackground
    <3>3. CASE AbandonCompaction
      BY <3>3 DEF AbandonCompaction, shutting_down_, Running
    <3>4. CASE FinishCompaction /\ bg.status # "error"
      BY <3>4 DEF FinishCompaction, AtBackground
    <3> QED BY <3>1, <3>2, <3>3, <3>4
  <2> QED BY <2>1 DEF files, memory, ghosts
<1>2. /\ FileTypes /\ OpenFiles /\ phase' \in {"open", "closing"} /\ ManifestNumbers
      /\ LogNumbers /\ NumbersAreOld /\ InUse /\ FlushIsRight /\ CompactionIsRight /\ EditIsRight
  BY <1>1 DEF FileInv, OpenFiles, Running
<1>3. /\ bg \in BgType /\ versions.current \in VersionType
      /\ versions.log_number_ \in Nat /\ versions.next_file_number_ \in Nat /\ versions.last_sequence_ \in Nat
      /\ \A f \in DOMAIN tables : f \in Nat /\ f < versions.next_file_number_
  BY <1>2 DEF FileTypes, NumbersAreOld
<1>4. ManifestNumbers' /\ (\A n : Named(n)' = Named(n)) /\ Left' = Left
  BY <1>1, ManifestStays
<1>5. LogNumbers' /\ NumbersAreOld'
  BY <1>1, <1>2 DEF LogNumbers, NumbersAreOld
\* What is to be shown of the new state of the background thread.
<1>6. ASSUME bg' \in BgType, bg'.out = Nil, bg'.caller = Nil,
             bg'.pc \in {"compact", "finish", "manifest"},
             bg'.inputs \subseteq Files(bg'.inputVersion), Files(bg'.inputVersion) \subseteq DOMAIN tables,
             bg'.pc = "finish" => bg'.status = "error",
             bg'.pc = "manifest" =>
               /\ bg'.edit.log = versions.log_number_ /\ bg'.edit.next = versions.next_file_number_
               /\ Added(bg'.edit) \subseteq DOMAIN tables
               /\ Held(bg'.edit.deleted) \subseteq Held(Added(bg'.edit))
      PROVE  FileInv'
  <2>1. FileTypes'
    BY <1>1, <1>2, <1>6 DEF FileTypes
  <2>2. InUse'
    BY <1>1, <1>2, <1>6 DEF InUse
  <2>3. ~Flushing' /\ ~Writing' /\ bg'.pc \notin BgIdle \cup {"build", "built"}
    BY <1>6 DEF Flushing, InManifest, Writing, BgIdle, DBAssumption
  <2>4. FlushIsRight'
    BY <1>6, <2>3 DEF FlushIsRight
  <2>5. InManifest' => bg'.pc = "manifest"
    BY <1>6 DEF InManifest
  <2>6. CompactionIsRight'
    BY <1>1, <1>6, <2>3, <2>5 DEF CompactionIsRight
  <2>7. EditIsRight'
    <3> SUFFICES ASSUME bg'.pc = "manifest"
                 PROVE  /\ Added(bg'.edit) \subseteq DOMAIN tables
                        /\ Held(bg.edit.deleted)' \subseteq Held(Added(bg.edit))'
                        /\ \A f \in Added(bg'.edit) : f < bg'.edit.next
                        /\ bg'.edit.log < bg'.edit.next /\ bg'.edit.next <= versions.next_file_number_
                        /\ manifest[Len(manifest)].next <= bg'.edit.next
      BY <1>1, <2>5 DEF EditIsRight
    <3>1. Held(bg.edit.deleted)' = Held(bg'.edit.deleted) /\ Held(Added(bg.edit))' = Held(Added(bg'.edit))
      BY <1>1 DEF Held, Added
    <3>2. \A f \in Added(bg'.edit) : f < bg'.edit.next
      BY <1>3, <1>6
    <3>3. /\ versions.log_number_ < versions.next_file_number_
          /\ manifest[Len(manifest)].next <= versions.next_file_number_
          /\ versions.next_file_number_ <= versions.next_file_number_
      BY <1>2, <1>3 DEF LogNumbers, NumbersAreOld, FileTypes
    <3> QED BY <1>6, <3>1, <3>2, <3>3
  <2> QED BY <1>2, <1>4, <1>5, <2>1, <2>2, <2>4, <2>6, <2>7, RunningFiles DEF OpenFiles
<1> DEFINE edit(deep, deleted) == Edit({}, deep, deleted, versions.log_number_,
                                       versions.next_file_number_, versions.last_sequence_)
<1>7. ASSUME NEW deep \in SUBSET Nat, NEW deleted \in SUBSET Nat
      PROVE  /\ edit(deep, deleted) \in EditType /\ Added(edit(deep, deleted)) = deep
             /\ edit(deep, deleted).deleted = deleted /\ edit(deep, deleted).log = versions.log_number_
             /\ edit(deep, deleted).next = versions.next_file_number_
  BY <1>3 DEF Edit, EditType, Added
<1>8. bg.pc \in BgIdle => /\ bg.out = Nil /\ bg.caller = Nil /\ bg.inputs = {} /\ bg.inputVersion = NoFiles
  <2> SUFFICES ASSUME bg.pc \in BgIdle
               PROVE  bg.out = Nil /\ bg.caller = Nil /\ bg.inputs = {} /\ bg.inputVersion = NoFiles
    OBVIOUS
  <2>1. bg = [BackgroundOff EXCEPT !.pc = bg.pc] /\ bg.pc \in BgPCs
    BY <1>2 DEF FlushIsRight, BgIdle, BgPCs
  <2> QED BY <2>1, IdleBackground
<1> HIDE DEF edit
<1>9. CASE TrivialMove
  <2>1. PICK f \in versions.current.l0 : bg' = [bg EXCEPT !.pc = "manifest", !.edit = edit({f}, {f})]
    BY <1>9 DEF TrivialMove, edit
  <2>2. {f} \in SUBSET Nat /\ f \in DOMAIN tables
    BY <1>2, <1>3 DEF VersionType, InUse, Files
  <2>3. bg.pc \in BgIdle
    BY <1>9 DEF TrivialMove, AtPick, AtBackground, BgIdle
  <2>4. /\ bg' \in BgType /\ bg'.pc = "manifest" /\ bg'.out = Nil /\ bg'.caller = Nil /\ bg'.inputs = {}
        /\ bg'.inputVersion = NoFiles /\ bg'.edit = edit({f}, {f})
    <3>1. edit({f}, {f}) \in EditType /\ "manifest" \in BgPCs
      BY <1>7, <2>2 DEF BgPCs
    <3> QED BY <1>3, <1>8, <2>1, <2>3, <3>1 DEF BgType
  <2>5. /\ Added(bg'.edit) = {f} /\ bg'.edit.deleted = {f} /\ bg'.edit.log = versions.log_number_
        /\ bg'.edit.next = versions.next_file_number_
    BY <1>7, <2>2, <2>4
  <2> QED BY <1>6, <2>2, <2>4, <2>5, NoFilesFacts
<1>10. CASE PickCompaction
  <2>1. PICK pick \in Picks :
          bg' = [bg EXCEPT !.pc = "compact", !.inputs = Files(pick), !.is_manual = is_manual,
                           !.inputVersion = versions.current]
    BY <1>10 DEF PickCompaction
  <2>2. Files(pick) \subseteq Files(versions.current) /\ Files(versions.current) \subseteq DOMAIN tables
    BY <1>2 DEF Picks, Files, InUse
  <2>3. bg.pc \in BgIdle
    BY <1>10 DEF PickCompaction, AtPick, AtBackground, BgIdle
  <2>4. /\ bg' \in BgType /\ bg'.pc = "compact" /\ bg'.out = Nil /\ bg'.caller = Nil
        /\ bg'.inputs = Files(pick) /\ bg'.inputVersion = versions.current
    <3>1. Files(pick) \in SUBSET Nat /\ is_manual \in BOOLEAN /\ "compact" \in BgPCs
      BY <1>3, <2>2 DEF is_manual, BgPCs
    <3> HIDE DEF is_manual
    <3> QED BY <1>3, <1>8, <2>1, <2>3, <3>1 DEF BgType
  <2> QED BY <1>6, <2>2, <2>4
<1>11. CASE AbandonCompaction
  <2>1. bg.pc \in {"compact", "writing"} /\ bg' = [bg EXCEPT !.pc = "finish", !.status = "error"]
    BY <1>11 DEF AbandonCompaction
  <2>2. bg.out = Nil /\ bg.caller = Nil
    BY <1>2, <2>1 DEF FlushIsRight, Flushing, InManifest
  <2>3. /\ bg' \in BgType /\ bg'.pc = "finish" /\ bg'.status = "error" /\ bg'.out = Nil /\ bg'.caller = Nil
        /\ bg'.inputs = bg.inputs /\ bg'.inputVersion = bg.inputVersion
    BY <1>3, <2>1, <2>2 DEF BgType, BgPCs
  <2> QED BY <1>2, <1>6, <2>3 DEF InUse, CompactionIsRight
<1>12. CASE FinishCompaction /\ bg.status # "error"
  <2>1. bg.pc = "finish" /\ bg' = [bg EXCEPT !.pc = "manifest", !.edit = edit({bg.output}, bg.inputs)]
    BY <1>12 DEF FinishCompaction, AtBackground, edit
  <2>2. bg.out = Nil /\ bg.caller = Nil
    BY <1>2, <2>1 DEF FlushIsRight, Flushing, InManifest
  <2>3. bg.output \in DOMAIN tables /\ tables[bg.output] = Held(bg.inputs)
    BY <1>2, <1>3, <1>12, <2>1 DEF CompactionIsRight, BgType
  <2>4. {bg.output} \in SUBSET Nat /\ bg.inputs \in SUBSET Nat
    BY <1>3, <2>3 DEF BgType
  <2>5. /\ bg' \in BgType /\ bg'.pc = "manifest" /\ bg'.out = Nil /\ bg'.caller = Nil /\ bg'.inputs = bg.inputs
        /\ bg'.inputVersion = bg.inputVersion /\ bg'.edit = edit({bg.output}, bg.inputs)
    <3>1. edit({bg.output}, bg.inputs) \in EditType /\ "manifest" \in BgPCs
      BY <1>7, <2>4 DEF BgPCs
    <3> QED BY <1>3, <2>1, <2>2, <3>1 DEF BgType
  <2>6. /\ Added(bg'.edit) = {bg.output} /\ bg'.edit.deleted = bg.inputs /\ bg'.edit.log = versions.log_number_
        /\ bg'.edit.next = versions.next_file_number_
    BY <1>7, <2>4, <2>5
  <2>7. Held(bg'.edit.deleted) \subseteq Held(Added(bg'.edit))
    BY <2>3, <2>6 DEF Held
  <2> QED BY <1>2, <1>6, <2>3, <2>5, <2>6, <2>7 DEF InUse, CompactionIsRight
<1> QED BY <1>9, <1>10, <1>11, <1>12

\* OpenCompactionOutputFile takes a number that no file has.
LEMMA FilesOutputOpened ==
  ASSUME DBAssumption, FileInv, OpenCompactionOutputFile
  PROVE  FileInv'
<1> DEFINE number == versions.next_file_number_
<1>1. /\ UNCHANGED <<logs, manifest, msynced, mem, imm, logfile_number_, owed, durable, pinned, phase>>
      /\ Running /\ bg.pc = "compact" /\ pending_outputs_' = pending_outputs_ \cup {number}
      /\ versions' = [versions EXCEPT !.next_file_number_ = number + 1]
      /\ \/ bg' = [bg EXCEPT !.pc = "writing", !.output = number] /\ tables' = With(tables, number, {})
         \/ bg' = [bg EXCEPT !.pc = "finish", !.output = number, !.status = "error"] /\ tables' = tables
  BY DEF OpenCompactionOutputFile, AtBackground, ghosts
<1>2. /\ FileTypes /\ OpenFiles /\ phase' \in {"open", "closing"} /\ ManifestNumbers
      /\ LogNumbers /\ NumbersAreOld /\ InUse /\ FlushIsRight /\ CompactionIsRight
  BY <1>1 DEF FileInv, OpenFiles, Running
<1>3. /\ versions \in [current : VersionType, log_number_ : Nat, next_file_number_ : Nat, last_sequence_ : Nat]
      /\ bg \in BgType /\ pending_outputs_ \in SUBSET Nat /\ number \in Nat /\ number # Nil
      /\ tables \in [DOMAIN tables -> SUBSET Entries] /\ DOMAIN tables \subseteq Nat
  BY <1>2 DEF FileTypes, DBAssumption
<1>4. number \notin DOMAIN tables
  BY <1>2, <1>3 DEF NumbersAreOld
<1>5. /\ versions' \in [current : VersionType, log_number_ : Nat, next_file_number_ : Nat, last_sequence_ : Nat]
      /\ versions'.current = versions.current /\ versions'.log_number_ = versions.log_number_
      /\ versions'.next_file_number_ = number + 1
  BY <1>1, <1>3
<1> HIDE DEF number
<1>6. /\ bg' \in BgType /\ bg'.out = bg.out /\ bg'.caller = bg.caller
      /\ bg'.inputs = bg.inputs /\ bg'.inputVersion = bg.inputVersion
      /\ \/ bg'.pc = "writing" /\ bg'.output = number
         \/ bg'.pc = "finish" /\ bg'.status = "error"
  <2>1. number \in Nat \cup {Nil} /\ "writing" \in BgPCs /\ "finish" \in BgPCs
    BY <1>3 DEF BgPCs
  <2>2. CASE bg' = [bg EXCEPT !.pc = "writing", !.output = number]
    BY <1>3, <2>1, <2>2 DEF BgType
  <2>3. CASE bg' = [bg EXCEPT !.pc = "finish", !.output = number, !.status = "error"]
    BY <1>3, <2>1, <2>3 DEF BgType
  <2> QED BY <1>1, <2>2, <2>3
<1>7. bg'.pc = "writing" => number \in DOMAIN tables'
  <2>1. bg' = [bg EXCEPT !.pc = "finish", !.output = number, !.status = "error"] => bg'.pc = "finish"
    BY <1>3 DEF BgType
  <2> QED BY <1>1, <2>1 DEF With
<1>8. /\ tables' \in [DOMAIN tables' -> SUBSET Entries] /\ DOMAIN tables \subseteq DOMAIN tables'
      /\ DOMAIN tables' \subseteq DOMAIN tables \cup {number}
      /\ \A f \in DOMAIN tables : tables'[f] = tables[f]
  BY <1>1, <1>3, <1>4 DEF With
<1>9. ManifestNumbers' /\ (\A n : Named(n)' = Named(n)) /\ Left' = Left
  BY <1>1, ManifestStays
<1>10. FileTypes'
  <2>1. pending_outputs_' \in SUBSET Nat /\ DOMAIN tables' \subseteq Nat
    BY <1>1, <1>3, <1>8
  <2> QED BY <1>1, <1>2, <1>5, <1>6, <1>8, <2>1 DEF FileTypes
<1>11. LogNumbers' /\ NumbersAreOld' /\ InUse'
  <2>1. (\A f \in DOMAIN tables : f \in Nat) /\ logfile_number_ \in Nat /\ manifest[Len(manifest)].next \in Nat
    <3>1. manifest[Len(manifest)] \in EditType
      BY <1>2 DEF FileTypes
    <3> QED BY <1>2, <3>1 DEF FileTypes, EditType
  <2>2. number = versions.next_file_number_
    BY DEF number
  <2>3. \A f \in DOMAIN tables' : f < number + 1
    BY <1>2, <1>3, <1>8, <2>1, <2>2 DEF NumbersAreOld
  <2>4. manifest[Len(manifest)].next <= number + 1 /\ logfile_number_ < number + 1
    BY <1>2, <1>3, <2>1, <2>2 DEF LogNumbers, NumbersAreOld
  <2> QED BY <1>1, <1>2, <1>5, <1>6, <1>8, <2>3, <2>4 DEF LogNumbers, NumbersAreOld, InUse
<1>12. bg.out = Nil /\ bg.caller = Nil
  BY <1>1, <1>2 DEF FlushIsRight, Flushing, InManifest
<1>13. ~Flushing' /\ ~InManifest' /\ bg'.pc \notin BgIdle \cup {"build", "built"}
  BY <1>6 DEF Flushing, InManifest, BgIdle
<1>14. FlushIsRight'
  BY <1>6, <1>12, <1>13 DEF FlushIsRight
<1>15. CompactionIsRight'
  <2>1. Writing' => bg'.pc = "writing" /\ bg'.output = number
    BY <1>6, <1>12 DEF Writing, DBAssumption
  <2>2. number \notin Files(bg.inputVersion) \cup Files(versions.current)
    BY <1>2, <1>4 DEF InUse
  <2>3. \A n \in Left : number \notin Named(n)
    <3> SUFFICES ASSUME NEW n \in Left, number \in Named(n) PROVE FALSE
      OBVIOUS
    <3>1. manifest[n].next \in Nat /\ manifest[Len(manifest)].next \in Nat
      <4>1. manifest[n] \in EditType /\ manifest[Len(manifest)] \in EditType
        BY <1>2 DEF FileTypes, Left
      <4> QED BY <4>1 DEF EditType
    <3>2. number < manifest[n].next /\ manifest[n].next <= manifest[Len(manifest)].next
      BY <1>2 DEF ManifestNumbers
    <3>3. manifest[Len(manifest)].next <= number
      BY <1>2 DEF NumbersAreOld, number
    <3> QED BY <1>3, <3>1, <3>2, <3>3
  <2> QED BY <1>1, <1>2, <1>3, <1>5, <1>6, <1>7, <1>9, <1>12, <1>13, <2>1, <2>2, <2>3 DEF CompactionIsRight
<1>16. EditIsRight'
  BY <1>13 DEF EditIsRight
<1> QED BY <1>2, <1>9, <1>10, <1>11, <1>14, <1>15, <1>16, RunningFiles DEF OpenFiles

\* FinishCompactionOutputFile writes a table that no version has.
LEMMA FilesOutputFinished ==
  ASSUME DBAssumption, FileInv, FinishCompactionOutputFile
  PROVE  FileInv'
<1>1. /\ UNCHANGED <<logs, manifest, msynced, mem, imm, logfile_number_, owed, durable, pinned, phase>>
      /\ UNCHANGED <<versions, pending_outputs_>> /\ Running /\ bg.pc = "writing"
      /\ \/ bg' = [bg EXCEPT !.pc = "finish"] /\ tables' = [tables EXCEPT ![bg.output] = Held(bg.inputs)]
         \/ bg' = [bg EXCEPT !.pc = "finish", !.status = "error"] /\ tables' = tables
  BY DEF FinishCompactionOutputFile, AtBackground, memory, ghosts, Held
<1>2. /\ FileTypes /\ OpenFiles /\ phase' \in {"open", "closing"}
      /\ LogNumbers /\ NumbersAreOld /\ InUse /\ FlushIsRight /\ CompactionIsRight
  BY <1>1 DEF FileInv, OpenFiles, Running
<1>3. /\ bg \in BgType /\ bg.output \in DOMAIN tables /\ bg.output \notin bg.inputs
      /\ bg.inputs \subseteq DOMAIN tables
      /\ tables \in [DOMAIN tables -> SUBSET Entries] /\ DOMAIN tables \subseteq Nat
  BY <1>1, <1>2 DEF FileTypes, CompactionIsRight, Writing, InUse
<1>4. Held(bg.inputs) \in SUBSET Entries
  BY <1>3 DEF Held
<1>5. /\ bg' \in BgType /\ bg'.pc = "finish" /\ bg'.out = bg.out /\ bg'.caller = bg.caller
      /\ bg'.inputs = bg.inputs /\ bg'.inputVersion = bg.inputVersion /\ bg'.output = bg.output
  <2>1. "finish" \in BgPCs
    BY DEF BgPCs
  <2>2. CASE bg' = [bg EXCEPT !.pc = "finish"]
    BY <1>3, <2>1, <2>2 DEF BgType
  <2>3. CASE bg' = [bg EXCEPT !.pc = "finish", !.status = "error"]
    BY <1>3, <2>1, <2>3 DEF BgType
  <2> QED BY <1>1, <2>2, <2>3
<1>6. /\ tables' \in [DOMAIN tables -> SUBSET Entries]
      /\ \A f \in DOMAIN tables : f # bg.output => tables'[f] = tables[f]
      /\ bg'.status = "ok" => tables'[bg.output] = Held(bg.inputs)
  <2>1. CASE bg' = [bg EXCEPT !.pc = "finish"] /\ tables' = [tables EXCEPT ![bg.output] = Held(bg.inputs)]
    BY <1>3, <1>4, <2>1
  <2>2. CASE bg' = [bg EXCEPT !.pc = "finish", !.status = "error"] /\ tables' = tables
    <3>1. bg'.status = "error"
      BY <1>3, <2>2 DEF BgType
    <3> QED BY <1>3, <2>2, <3>1
  <2> QED BY <1>1, <2>1, <2>2
<1>7. DOMAIN tables' = DOMAIN tables
  BY <1>6
<1>8. Held(bg.inputs)' = Held(bg.inputs)
  <2>1. \A f \in bg.inputs : tables'[f] = tables[f]
    BY <1>3, <1>6
  <2> QED BY <1>5, <2>1 DEF Held
<1>9. ManifestNumbers' /\ (\A n : Named(n)' = Named(n)) /\ Left' = Left
  BY <1>1, ManifestStays
<1>10. FileTypes'
  BY <1>1, <1>2, <1>5, <1>6, <1>7 DEF FileTypes
<1>11. LogNumbers' /\ NumbersAreOld' /\ InUse'
  BY <1>1, <1>2, <1>5, <1>7 DEF LogNumbers, NumbersAreOld, InUse
<1>12. bg.out = Nil /\ bg.caller = Nil
  BY <1>1, <1>2 DEF FlushIsRight, Flushing, InManifest
<1>13. ~Flushing' /\ ~InManifest' /\ ~Writing' /\ bg'.pc \notin BgIdle \cup {"build", "built"}
  BY <1>5, <1>12 DEF Flushing, InManifest, BgIdle, Writing, DBAssumption
<1>14. FlushIsRight'
  BY <1>5, <1>12, <1>13 DEF FlushIsRight
<1>15. CompactionIsRight'
  BY <1>2, <1>3, <1>5, <1>6, <1>7, <1>8, <1>13 DEF CompactionIsRight
<1>16. EditIsRight'
  BY <1>13 DEF EditIsRight
<1> QED BY <1>2, <1>9, <1>10, <1>11, <1>14, <1>15, <1>16, RunningFiles DEF OpenFiles

\* The files stay right in every step of the background thread.
LEMMA FileBackgroundStep ==
  ASSUME DBAssumption, FileInv, BackgroundStep
  PROVE  FileInv'
<1>1. CASE Flush
  <2>1. Running /\ BeginFlush(Nil) /\ bg.pc = "scheduled"
    BY <1>1 DEF Flush, AtBackground
  <2> QED BY <2>1, FilesBeginFlush
<1>2. CASE FlushInCompaction
  <2>1. Running /\ BeginFlush(bg.pc) /\ bg.pc \in {"compact", "writing"}
    BY <1>2 DEF FlushInCompaction
  <2>2. bg.pc # Nil
    BY <2>1 DEF DBAssumption
  <2> QED BY <2>1, <2>2, FilesBeginFlush
<1>3. ASSUME CompactionEnds, versions' = versions, Running
      PROVE  FileInv'
  <2>1. /\ versions \in [current : VersionType, log_number_ : Nat, next_file_number_ : Nat, last_sequence_ : Nat]
        /\ Files(versions.current) \subseteq DOMAIN tables
    BY <1>3 DEF FileInv, FileTypes, OpenFiles, InUse
  <2> QED BY <1>3, <2>1, FilesCompactionEnds
<1>4. CASE FinishCompaction /\ bg.status = "error"
  BY <1>3, <1>4 DEF FinishCompaction, AtBackground
<1>5. CASE InstallCompaction
  <2>1. Running /\ bg.pc = "install" /\ bg.out = Nil /\ InstallVersion /\ CompactionEnds
    BY <1>5 DEF InstallCompaction, AtBackground
  <2>2. InManifest /\ bg.edit.log = versions.log_number_
    BY <2>1 DEF InManifest, FileInv, OpenFiles, CompactionIsRight
  <2>3. /\ versions' \in [current : VersionType, log_number_ : Nat, next_file_number_ : Nat, last_sequence_ : Nat]
        /\ versions'.next_file_number_ = versions.next_file_number_
        /\ versions'.log_number_ = versions.log_number_
        /\ Files(versions'.current) \subseteq DOMAIN tables
    BY <2>1, <2>2, VersionInstalled
  <2> QED BY <2>1, <2>3, FilesCompactionEnds
<1> QED BY <1>1, <1>2, <1>4, <1>5, FilesNothingDone, FilesBuilt, FilesFlushBuilt, FilesManifest,
           FilesFlushInstalled, FilesCompaction, FilesOutputOpened, FilesOutputFinished DEF BackgroundStep

-------------------------------------------------------------------------------
(* The files: crashes and recovery *)

\* What is in files is right when all else is gone.
LEMMA FilesGone ==
  ASSUME DBAssumption, Gone, ManifestNumbers',
         logs' \in [DOMAIN logs' -> LogType], DOMAIN logs' \subseteq Nat,
         \A n \in DOMAIN logs' : logs'[n].synced <= Len(logs'[n].recs),
         tables' \in [DOMAIN tables' -> SUBSET Entries], DOMAIN tables' \subseteq Nat,
         manifest' \in Seq(EditType), msynced' \in 1..Len(manifest'),
         owed' \in SUBSET Entries, durable' \in SUBSET Entries
  PROVE  FileInv'
<1>1. /\ mem' = {} /\ imm' = {} /\ logfile_number_' = 0 /\ pending_outputs_' = {}
      /\ versions' = [current |-> NoFiles, log_number_ |-> 0, next_file_number_ |-> 0, last_sequence_ |-> 0]
      /\ bg_error_' = FALSE /\ writers_' = << >> /\ thread' = [t \in Threads |-> Idle]
      /\ bg' = BackgroundOff /\ manual_compaction_' = Nil /\ pinned' = {} /\ phase' = "closed"
  BY DEF Gone
<1>2. BackgroundOff \in BgType
  <2>1. "off" \in BgPCs
    BY DEF BgPCs
  <2> QED BY <2>1, IdleBackground, OffIsIdle
<1>3. versions' \in [current : VersionType, log_number_ : Nat, next_file_number_ : Nat, last_sequence_ : Nat]
  BY <1>1, NoFilesFacts
<1>4. FileTypes'
  BY <1>1, <1>2, <1>3 DEF FileTypes
<1>5. NothingInMemory'
  <2>1. BackgroundOff = [BackgroundOff EXCEPT !.edit = BackgroundOff.edit, !.logs = BackgroundOff.logs]
    BY <1>2 DEF BgType
  <2> QED BY <1>1, <2>1 DEF NothingInMemory
<1>6. ~Running'
  BY <1>1 DEF Running
<1> QED BY <1>1, <1>4, <1>5, <1>6 DEF FileInv

\* A process that stops leaves the files.
LEMMA FilesStopped ==
  ASSUME DBAssumption, FileInv, Stops
  PROVE  FileInv'
<1>1. /\ FileTypes /\ UNCHANGED <<logs, tables, manifest, msynced>> /\ Gone
      /\ owed' \subseteq owed /\ durable' \subseteq durable
  BY DEF FileInv, files, Stops
<1>2. ManifestNumbers'
  BY <1>1, ManifestStays
<1> QED BY <1>1, <1>2, FilesGone DEF FileTypes

\* What a machine crash leaves of the MANIFEST and of the logs.
LEMMA CrashLeaves ==
  ASSUME DBAssumption, FileInv, MachineCrashes
  PROVE  /\ \E n \in Left : /\ manifest' = SubSeq(manifest, 1, n) /\ msynced' = n /\ Len(manifest') = n /\ Left' = {n}
                            /\ manifest'[n] = manifest[n] /\ Named(n)' = Named(n)
         /\ manifest' \in Seq(EditType) /\ msynced' \in 1..Len(manifest')
         /\ logs' \in [DOMAIN logs' -> LogType] /\ DOMAIN logs' = DOMAIN logs
         /\ \A n \in DOMAIN logs :
              /\ logs'[n].synced = Len(logs'[n].recs) /\ Len(logs'[n].recs) <= Len(logs[n].recs)
              /\ logs[n].synced <= Len(logs'[n].recs)
              /\ \A i \in 1..Len(logs'[n].recs) : logs'[n].recs[i] = logs[n].recs[i]
              /\ logs'[n].torn = logs[n].torn /\ logs'[n].unread = logs[n].unread
<1>1. /\ logs \in [DOMAIN logs -> LogType] /\ manifest \in Seq(EditType) /\ msynced \in 1..Len(manifest)
      /\ \A n \in DOMAIN logs : logs[n].synced <= Len(logs[n].recs)
  BY DEF FileInv, FileTypes
<1>2. PICK cut \in [DOMAIN logs -> 0..MaxBatches] :
       /\ \A n \in DOMAIN logs : cut[n] \in logs[n].synced..Len(logs[n].recs)
       /\ logs' = [n \in DOMAIN logs |->
                     [logs[n] EXCEPT !.recs = SubSeq(logs[n].recs, 1, cut[n]), !.synced = cut[n]]]
  BY DEF MachineCrashes
<1>3. DOMAIN logs' = DOMAIN logs
  BY <1>2
<1>4. ASSUME NEW n \in DOMAIN logs
      PROVE  /\ logs'[n] \in LogType
             /\ logs'[n].synced = Len(logs'[n].recs) /\ Len(logs'[n].recs) <= Len(logs[n].recs)
             /\ logs[n].synced <= Len(logs'[n].recs)
             /\ \A i \in 1..Len(logs'[n].recs) : logs'[n].recs[i] = logs[n].recs[i]
             /\ logs'[n].torn = logs[n].torn /\ logs'[n].unread = logs[n].unread
  <2> DEFINE recs == logs[n].recs
             part == SubSeq(recs, 1, cut[n])
  <2>1. recs \in Seq(SUBSET Entries) /\ logs[n].synced \in Nat /\ logs[n] \in LogType
    BY <1>1 DEF LogType
  <2>2. cut[n] \in Nat /\ cut[n] <= Len(recs) /\ logs[n].synced <= cut[n]
    <3>1. cut[n] \in logs[n].synced..Len(recs)
      BY <1>2
    <3>2. Len(recs) \in Nat
      BY <2>1
    <3> QED BY <2>1, <3>1, <3>2
  <2>3. /\ part \in Seq(SUBSET Entries) /\ Len(part) = cut[n]
        /\ \A i \in 1..cut[n] : part[i] = recs[i]
    BY <2>1, <2>2
  <2>4. logs'[n] = [logs[n] EXCEPT !.recs = part, !.synced = cut[n]]
    BY <1>2
  <2> HIDE DEF part
  <2> QED BY <2>1, <2>2, <2>3, <2>4 DEF LogType
<1>5. logs' \in [DOMAIN logs' -> LogType]
  <2>1. logs' = [n \in DOMAIN logs |-> logs'[n]]
    BY <1>2
  <2> QED BY <1>3, <1>4, <2>1
<1>6. PICK n \in msynced..Len(manifest) : manifest' = SubSeq(manifest, 1, n) /\ msynced' = n
  BY DEF MachineCrashes
<1>7. n \in 1..Len(manifest) /\ n \in Left
  BY <1>1, <1>6 DEF Left
<1>8. /\ manifest' \in Seq(EditType) /\ Len(manifest') = n /\ manifest'[n] = manifest[n]
      /\ VersionOf(manifest', n) = VersionOf(manifest, n)
  BY <1>1, <1>6, <1>7, VersionOfCut
<1>9. Named(n)' = Named(n)
  <2>1. Named(n)' = Files(VersionOf(manifest', n))
    BY DEF Named, Files, VersionOf, Deleted
  <2> QED BY <1>8, <2>1 DEF Named
<1>10. Left' = {n} /\ msynced' \in 1..Len(manifest')
  BY <1>6, <1>7, <1>8 DEF Left
<1> QED BY <1>3, <1>4, <1>5, <1>6, <1>7, <1>8, <1>9, <1>10

\* A machine that crashes leaves a part of them.
LEMMA FilesCrashed ==
  ASSUME DBAssumption, FileInv, MachineCrashes
  PROVE  FileInv'
<1>1. FileTypes /\ ManifestNumbers /\ Gone /\ tables' = tables /\ durable' \subseteq durable /\ owed' \subseteq owed
  BY DEF FileInv, MachineCrashes
<1>2. PICK n \in Left : /\ Len(manifest') = n /\ Left' = {n} /\ manifest'[n] = manifest[n] /\ Named(n)' = Named(n)
  BY CrashLeaves
<1>3. manifest[n].next \in Nat
  <2>1. manifest[n] \in EditType
    BY <1>1 DEF Left, FileTypes
  <2> QED BY <2>1 DEF EditType
<1>4. ManifestNumbers'
  <2>1. manifest[n].next <= manifest[n].next
    BY <1>3
  <2> QED BY <1>1, <1>2, <2>1 DEF ManifestNumbers
<1>5. \A m \in DOMAIN logs' : logs'[m].synced <= Len(logs'[m].recs)
  <2> SUFFICES ASSUME NEW m \in DOMAIN logs' PROVE logs'[m].synced <= Len(logs'[m].recs)
    OBVIOUS
  <2>1. logs'[m] \in LogType /\ logs'[m].synced = Len(logs'[m].recs)
    BY CrashLeaves
  <2> QED BY <2>1 DEF LogType
<1>6. /\ logs' \in [DOMAIN logs' -> LogType] /\ DOMAIN logs' = DOMAIN logs
      /\ manifest' \in Seq(EditType) /\ msynced' \in 1..Len(manifest')
  BY CrashLeaves
<1>7. /\ DOMAIN logs' \subseteq Nat /\ tables' \in [DOMAIN tables' -> SUBSET Entries] /\ DOMAIN tables' \subseteq Nat
      /\ owed' \in SUBSET Entries /\ durable' \in SUBSET Entries
  BY <1>1, <1>6 DEF FileTypes
<1> QED BY <1>1, <1>4, <1>5, <1>6, <1>7, FilesGone

\* The state of a database that is being opened.
LEMMA OpeningFiles ==
  ASSUME FileTypes', ManifestNumbers', NothingInMemory', RecoveredFiles',
         phase' \in {"recovering", "installing"},
         phase' = "recovering" => RecoveringFiles', phase' = "installing" => InstallingFiles'
  PROVE  FileInv'
BY DEF FileInv, Running

\* VersionSet::Recover finds the files of the version.
LEMMA FilesRecover ==
  ASSUME DBAssumption, FileInv, Recover
  PROVE  FileInv'
<1> DEFINE len == Len(manifest)
           last == manifest[len]
           v == VersionOf(manifest, len)
<1>1. /\ UNCHANGED <<logs, tables, manifest, msynced, mem, imm, logfile_number_, pending_outputs_, bg_error_>>
      /\ UNCHANGED <<writers_, thread, manual_compaction_, pinned, owed, durable>>
      /\ phase = "closed" /\ phase' = "recovering" /\ Files(v) \subseteq DOMAIN tables
      /\ versions' = [current |-> v, log_number_ |-> last.log, next_file_number_ |-> last.next + 1,
                      last_sequence_ |-> last.seq]
      /\ bg' = [bg EXCEPT !.logs = {n \in DOMAIN logs : n >= last.log}]
  BY DEF Recover, files, ghosts
<1>2. FileTypes /\ ManifestNumbers /\ NothingInMemory /\ bg = BackgroundOff
  BY <1>1 DEF FileInv, Running
<1>3. manifest \in Seq(EditType) /\ len \in 1..Len(manifest) /\ len \in Left /\ DOMAIN logs \subseteq Nat
  BY <1>2 DEF FileTypes, Left
<1>4. /\ last \in EditType /\ last.next \in Nat /\ last.log \in Nat /\ last.seq \in Nat /\ last.log < last.next
  <2>1. last \in EditType
    BY <1>3
  <2> QED BY <1>2, <1>3, <2>1 DEF EditType, ManifestNumbers
<1>5. v \in VersionType
  <2>1. len \in 0..Len(manifest)
    BY <1>3
  <2> QED BY <1>3, <2>1, VersionOfType
<1>6. Files(v) = Named(len)
  BY DEF Named
<1> HIDE DEF last, v
<1>7. /\ versions' \in [current : VersionType, log_number_ : Nat, next_file_number_ : Nat, last_sequence_ : Nat]
      /\ versions'.current = v /\ versions'.log_number_ = last.log /\ versions'.next_file_number_ = last.next + 1
  BY <1>1, <1>4, <1>5
<1>8. bg = [BackgroundOff EXCEPT !.pc = "off"] /\ bg \in BgType /\ "off" \in BgPCs
  BY <1>2, OffIsIdle DEF FileTypes, BgPCs
<1>9. /\ bg' \in BgType /\ bg'.edit = NoEdit /\ bg'.logs = {n \in DOMAIN logs : n >= last.log}
      /\ bg' = [BackgroundOff EXCEPT !.edit = bg'.edit, !.logs = bg'.logs]
  <2>1. bg.edit = NoEdit
    BY <1>8, IdleBackground
  <2>2. bg' \in BgType /\ bg'.edit = NoEdit /\ bg'.logs = {n \in DOMAIN logs : n >= last.log}
    BY <1>1, <1>3, <1>8, <2>1 DEF BgType
  <2>3. [BackgroundOff EXCEPT !.edit = NoEdit, !.logs = bg'.logs] = [BackgroundOff EXCEPT !.logs = bg'.logs]
    BY <1>2, <1>8, <2>1 DEF BgType
  <2> QED BY <1>1, <1>2, <2>2, <2>3
<1>10. ManifestNumbers' /\ (\A n : Named(n)' = Named(n)) /\ Left' = Left
  BY <1>1, ManifestStays
<1>11. FileTypes'
  BY <1>1, <1>2, <1>7, <1>9 DEF FileTypes
<1>12. NothingInMemory'
  BY <1>1, <1>2, <1>9 DEF NothingInMemory
<1>13. RecoveredFiles'
  <2>1. NoEdit.l0 = {} /\ NoEdit.deep = {} /\ NoEdit.deleted = {}
    BY DEF NoEdit, Edit
  <2>2. last.next < last.next + 1
    BY <1>4
  <2> QED BY <1>1, <1>6, <1>7, <1>9, <1>10, <2>1, <2>2 DEF RecoveredFiles, last
<1>14. RecoveringFiles'
  <2>1. ASSUME NEW n \in DOMAIN logs PROVE n \in bg'.logs \/ n < last.next + 1
    <3>1. n \in Nat
      BY <1>3
    <3>2. n >= last.log \/ n < last.next + 1
      BY <1>4, <3>1
    <3> QED BY <1>9, <3>2
  <2> QED BY <1>1, <1>7, <1>9, <2>1 DEF RecoveringFiles, last
<1> QED BY <1>1, <1>10, <1>11, <1>12, <1>13, <1>14, OpeningFiles

\* What RecoverLogFile does with the log n of which it reads k records: a table of what is in
\* these, if that is not empty.
Replays(n, k) ==
         LET made == {f \in {versions.next_file_number_} : ReplayedUpTo(n, k) # {}} IN
         /\ k \in 0..Len(logs[n].recs)
         /\ dropped' = dropped \cup (Replayed(n) \ ReplayedUpTo(n, k))
         /\ phase = "recovering" /\ phase' = "recovering"
         /\ UNCHANGED <<logs, manifest, msynced, mem, imm, logfile_number_, pending_outputs_, bg_error_>>
         /\ UNCHANGED <<writers_, thread, manual_compaction_, pinned, owed, durable>>
         /\ \A m \in bg.logs : n <= m
         /\ tables' \in [DOMAIN tables' -> SUBSET Entries]
         /\ DOMAIN tables' = DOMAIN tables \cup made
         /\ \A f \in made : tables'[f] = ReplayedUpTo(n, k)
         /\ \A f \in DOMAIN tables : f \notin made => tables'[f] = tables[f]
         /\ bg' \in BgType /\ bg'.logs = bg.logs \ {n}
         /\ bg'.edit \in EditType /\ bg'.edit.l0 = bg.edit.l0 \cup made /\ bg'.edit.deep = bg.edit.deep
         /\ bg'.edit.deleted = bg.edit.deleted
         /\ bg' = [bg EXCEPT !.edit = bg'.edit, !.logs = bg'.logs]
         /\ versions' \in [current : VersionType, log_number_ : Nat, next_file_number_ : Nat, last_sequence_ : Nat]
         /\ versions'.current = versions.current /\ versions'.log_number_ = versions.log_number_
         /\ versions.next_file_number_ <= versions'.next_file_number_ /\ n < versions'.next_file_number_
         /\ \A f \in made : f < versions'.next_file_number_
         /\ versions.last_sequence_ <= versions'.last_sequence_
         /\ \A e \in ReplayedUpTo(n, k) : e.seq <= versions'.last_sequence_

LEMMA LogReplayed ==
  ASSUME DBAssumption, FileInv, RecoverLogFile
  PROVE  \E n \in bg.logs : \E k \in 0..Len(logs[n].recs) : Replays(n, k)
<1>1. /\ phase = "recovering" /\ phase' = "recovering"
      /\ UNCHANGED <<logs, manifest, msynced, mem, imm, logfile_number_, pending_outputs_, bg_error_>>
      /\ UNCHANGED <<writers_, thread, manual_compaction_, pinned, owed, durable>>
  BY DEF RecoverLogFile, ghosts
<1> DEFINE number == versions.next_file_number_
<1>2. PICK n \in bg.logs : \E k \in 0..Len(logs[n].recs) :
        LET entries == ReplayedUpTo(n, k)
            next == number + (IF entries # {} THEN 1 ELSE 0) IN
        /\ \A m \in bg.logs : n <= m
        /\ dropped' = dropped \cup (Replayed(n) \ entries)
        /\ tables' = IF entries # {} THEN With(tables, number, entries) ELSE tables
        /\ bg' = [bg EXCEPT !.logs = @ \ {n}, !.edit.l0 = IF entries # {} THEN @ \cup {number} ELSE @]
        /\ \E max_sequence \in {versions.last_sequence_} \cup {e.seq : e \in entries} :
            /\ versions.last_sequence_ <= max_sequence /\ \A e \in entries : e.seq <= max_sequence
            /\ versions' = [versions EXCEPT !.next_file_number_ = IF next <= n THEN n + 1 ELSE next,
                                            !.last_sequence_ = max_sequence]
  BY DEF RecoverLogFile
<1>3. PICK k \in 0..Len(logs[n].recs) :
        /\ \A m \in bg.logs : n <= m
        /\ dropped' = dropped \cup (Replayed(n) \ ReplayedUpTo(n, k))
        /\ tables' = IF ReplayedUpTo(n, k) # {} THEN With(tables, number, ReplayedUpTo(n, k)) ELSE tables
        /\ bg' = [bg EXCEPT !.logs = @ \ {n}, !.edit.l0 = IF ReplayedUpTo(n, k) # {} THEN @ \cup {number} ELSE @]
        /\ \E max_sequence \in {versions.last_sequence_} \cup {e.seq : e \in ReplayedUpTo(n, k)} :
            /\ versions.last_sequence_ <= max_sequence /\ \A e \in ReplayedUpTo(n, k) : e.seq <= max_sequence
            /\ versions' = [versions EXCEPT
                 !.next_file_number_ = IF number + (IF ReplayedUpTo(n, k) # {} THEN 1 ELSE 0) <= n THEN n + 1
                                       ELSE number + (IF ReplayedUpTo(n, k) # {} THEN 1 ELSE 0),
                 !.last_sequence_ = max_sequence]
  BY <1>2
<1> DEFINE made == {f \in {number} : ReplayedUpTo(n, k) # {}}
<1>4. FileTypes /\ RecoveringFiles
  BY <1>1 DEF FileInv
<1>5. /\ versions \in [current : VersionType, log_number_ : Nat, next_file_number_ : Nat, last_sequence_ : Nat]
      /\ bg \in BgType /\ bg.edit \in EditType /\ number \in Nat /\ n \in DOMAIN logs /\ n \in Nat
      /\ tables \in [DOMAIN tables -> SUBSET Entries]
  BY <1>4 DEF FileTypes, BgType, RecoveringFiles
<1>6. ReplayedUpTo(n, k) \in SUBSET Entries
  <2>1. logs[n].recs \in Seq(SUBSET Entries)
    BY <1>4, <1>5 DEF FileTypes, LogType
  <2>2. \A i \in 1..k : logs[n].recs[i] \in SUBSET Entries
    BY <1>3, <2>1
  <2> QED BY <2>2 DEF ReplayedUpTo
<1> DEFINE replayed == ReplayedUpTo(n, k)
<1>7. \A e \in replayed : e.seq \in Nat
  BY <1>6 DEF Entries
<1>8. /\ tables' \in [DOMAIN tables' -> SUBSET Entries]
      /\ DOMAIN tables' = DOMAIN tables \cup made
      /\ \A f \in made : tables'[f] = replayed
      /\ \A f \in DOMAIN tables : f \notin made => tables'[f] = tables[f]
  <2> HIDE DEF replayed, number
  <2>1. CASE replayed = {}
    BY <1>3, <1>5, <2>1 DEF replayed
  <2>2. CASE replayed # {}
    BY <1>3, <1>5, <1>6, <2>2 DEF With, replayed
  <2> QED BY <2>1, <2>2
<1>9. /\ bg' \in BgType /\ bg'.logs = bg.logs \ {n}
      /\ bg'.edit \in EditType /\ bg'.edit.l0 = bg.edit.l0 \cup made /\ bg'.edit.deep = bg.edit.deep
      /\ bg'.edit.deleted = bg.edit.deleted
      /\ bg' = [bg EXCEPT !.edit = bg'.edit, !.logs = bg'.logs]
  <2> DEFINE edit == [bg.edit EXCEPT !.l0 = bg.edit.l0 \cup made]
  <2>1. edit \in EditType /\ edit.l0 = bg.edit.l0 \cup made /\ edit.deep = bg.edit.deep /\ edit.deleted = bg.edit.deleted
    BY <1>5 DEF EditType
  <2>2. bg' = [bg EXCEPT !.logs = bg.logs \ {n}, !.edit = edit]
    <3>1. CASE replayed = {}
      <4>1. made = {} /\ edit = bg.edit
        BY <1>5, <3>1 DEF EditType
      <4> QED BY <1>3, <1>5, <3>1, <4>1 DEF BgType
    <3>2. CASE replayed # {}
      <4>1. made = {number}
        BY <3>2
      <4> QED BY <1>3, <3>2, <4>1
    <3> QED BY <3>1, <3>2
  <2> HIDE DEF edit, made
  <2>3. /\ bg' \in BgType /\ bg'.logs = bg.logs \ {n} /\ bg'.edit = edit
    BY <1>5, <2>1, <2>2 DEF BgType
  <2>4. bg' = [bg EXCEPT !.edit = bg'.edit, !.logs = bg'.logs]
    BY <1>5, <2>2, <2>3 DEF BgType
  <2> QED BY <2>1, <2>3, <2>4
<1>10. /\ versions' \in [current : VersionType, log_number_ : Nat, next_file_number_ : Nat, last_sequence_ : Nat]
      /\ versions'.current = versions.current /\ versions'.log_number_ = versions.log_number_
      /\ number <= versions'.next_file_number_ /\ n < versions'.next_file_number_
      /\ \A f \in made : f < versions'.next_file_number_
      /\ versions.last_sequence_ <= versions'.last_sequence_
      /\ \A e \in replayed : e.seq <= versions'.last_sequence_
  <2> DEFINE next == number + (IF replayed # {} THEN 1 ELSE 0)
             after == IF next <= n THEN n + 1 ELSE next
  <2>1. PICK max_sequence \in {versions.last_sequence_} \cup {e.seq : e \in replayed} :
            /\ versions.last_sequence_ <= max_sequence /\ \A e \in replayed : e.seq <= max_sequence
            /\ versions' = [versions EXCEPT !.next_file_number_ = after, !.last_sequence_ = max_sequence]
    BY <1>3
  <2>2. max_sequence \in Nat
    BY <1>5, <1>7, <2>1
  <2>3. after \in Nat /\ number <= after /\ n < after /\ (replayed # {} => number < after)
    BY <1>5
  <2> HIDE DEF after
  <2>4. /\ versions' \in [current : VersionType, log_number_ : Nat, next_file_number_ : Nat, last_sequence_ : Nat]
        /\ versions'.current = versions.current /\ versions'.log_number_ = versions.log_number_
        /\ versions'.next_file_number_ = after /\ versions'.last_sequence_ = max_sequence
    <3> HIDE DEF number, replayed
    <3> QED BY <1>5, <2>1, <2>2, <2>3
  <2> QED BY <2>1, <2>3, <2>4
<1> HIDE DEF made, replayed
<1>11. Replays(n, k)
  BY <1>1, <1>3, <1>8, <1>9, <1>10 DEF Replays, made, replayed
<1> QED BY <1>11

\* RecoverLogFile makes a table with a number that no file has.
LEMMA FilesReplayed ==
  ASSUME DBAssumption, FileInv, RecoverLogFile
  PROVE  FileInv'
<1>1. PICK n \in bg.logs : \E k \in 0..Len(logs[n].recs) : Replays(n, k)
  BY LogReplayed
<1>2. PICK k \in 0..Len(logs[n].recs) : Replays(n, k)
  BY <1>1
<1> DEFINE made == {f \in {versions.next_file_number_} : ReplayedUpTo(n, k) # {}}
<1>3. /\ phase = "recovering" /\ phase' = "recovering"
      /\ UNCHANGED <<logs, manifest, msynced, mem, imm, logfile_number_, pending_outputs_, bg_error_>>
      /\ UNCHANGED <<writers_, thread, manual_compaction_, pinned, owed, durable>>
      /\ tables' \in [DOMAIN tables' -> SUBSET Entries]
      /\ DOMAIN tables' = DOMAIN tables \cup made
      /\ bg' \in BgType /\ bg'.logs = bg.logs \ {n}
      /\ bg'.edit \in EditType /\ bg'.edit.l0 = bg.edit.l0 \cup made /\ bg'.edit.deep = bg.edit.deep
      /\ bg'.edit.deleted = bg.edit.deleted
      /\ bg' = [bg EXCEPT !.edit = bg'.edit, !.logs = bg'.logs]
      /\ versions' \in [current : VersionType, log_number_ : Nat, next_file_number_ : Nat, last_sequence_ : Nat]
      /\ versions'.current = versions.current /\ versions'.log_number_ = versions.log_number_
      /\ versions.next_file_number_ <= versions'.next_file_number_ /\ n < versions'.next_file_number_
      /\ \A f \in made : f < versions'.next_file_number_
  BY <1>2 DEF Replays
<1>4. FileTypes /\ ManifestNumbers /\ NothingInMemory /\ RecoveredFiles /\ RecoveringFiles
  BY <1>3 DEF FileInv, Running
<1>5. made \subseteq {versions.next_file_number_}
  OBVIOUS
<1> HIDE DEF made
<1>6. /\ versions.next_file_number_ \in Nat /\ versions'.next_file_number_ \in Nat /\ DOMAIN logs \subseteq Nat
      /\ manifest[Len(manifest)].next \in Nat /\ bg \in BgType /\ bg.edit.l0 \subseteq Nat
  <2>1. manifest[Len(manifest)] \in EditType /\ bg \in BgType
    BY <1>4 DEF FileTypes
  <2> QED BY <1>3, <1>4, <2>1 DEF EditType, FileTypes, BgType
<1>7. ManifestNumbers' /\ (\A m : Named(m)' = Named(m)) /\ Left' = Left
  BY <1>3, ManifestStays
<1>8. FileTypes'
  <2>1. DOMAIN tables' \subseteq Nat
    BY <1>3, <1>4, <1>5, <1>6 DEF FileTypes
  <2> QED BY <1>3, <1>4, <2>1 DEF FileTypes
<1>9. NothingInMemory'
  <2>1. bg' = [BackgroundOff EXCEPT !.edit = bg'.edit, !.logs = bg'.logs]
    <3>1. bg = [BackgroundOff EXCEPT !.edit = bg.edit, !.logs = bg.logs]
      BY <1>4 DEF NothingInMemory
    <3>2. [bg EXCEPT !.edit = bg'.edit, !.logs = bg'.logs] = [BackgroundOff EXCEPT !.edit = bg'.edit, !.logs = bg'.logs]
      BY <3>1 DEF BackgroundOff
    <3> QED BY <1>3, <3>2
  <2> QED BY <1>3, <1>4, <2>1 DEF NothingInMemory
<1>10. RecoveredFiles'
  <2>1. manifest[Len(manifest)].next < versions'.next_file_number_
    BY <1>3, <1>4, <1>6 DEF RecoveredFiles
  <2>2. ASSUME NEW f \in bg'.edit.l0
        PROVE  manifest[Len(manifest)].next <= f /\ f < versions'.next_file_number_
    <3>1. CASE f \in bg.edit.l0
      <4>1. f \in Nat /\ manifest[Len(manifest)].next <= f /\ f < versions.next_file_number_
        BY <1>4, <1>6, <3>1 DEF RecoveredFiles
      <4> QED BY <1>3, <1>6, <4>1
    <3>2. CASE f \in made
      <4>1. f = versions.next_file_number_ /\ f < versions'.next_file_number_
        BY <1>3, <1>5, <3>2
      <4>2. manifest[Len(manifest)].next <= versions.next_file_number_
        BY <1>4, <1>6 DEF RecoveredFiles
      <4> QED BY <4>1, <4>2
    <3> QED BY <1>3, <3>1, <3>2
  <2>3. Files(versions'.current) \cup bg'.edit.l0 \subseteq DOMAIN tables'
    BY <1>3, <1>4 DEF RecoveredFiles
  <2> QED BY <1>3, <1>4, <1>7, <2>1, <2>2, <2>3 DEF RecoveredFiles
<1>11. RecoveringFiles'
  <2>1. ASSUME NEW m \in DOMAIN logs PROVE m \in bg'.logs \/ m < versions'.next_file_number_
    <3>1. m \in Nat /\ (m \in bg.logs \/ m < versions.next_file_number_)
      BY <1>4, <1>6 DEF RecoveringFiles
    <3>2. CASE m < versions.next_file_number_
      BY <1>3, <1>6, <3>1, <3>2
    <3>3. CASE m \in bg.logs
      BY <1>3, <3>3
    <3> QED BY <3>1, <3>2, <3>3
  <2> QED BY <1>3, <1>4, <2>1 DEF RecoveringFiles
<1> QED BY <1>3, <1>7, <1>8, <1>9, <1>10, <1>11, OpeningFiles

\* DB::Open makes a log with a number that no log has.
LEMMA FilesNewLog ==
  ASSUME DBAssumption, FileInv, OpenNewLog
  PROVE  FileInv'
<1> DEFINE number == versions.next_file_number_
           log == NewLog
           edit == Edit(bg.edit.l0, {}, {}, number, number + 1, versions.last_sequence_)
<1>1. /\ UNCHANGED <<tables, manifest, msynced, mem, imm, pending_outputs_, bg_error_>>
      /\ UNCHANGED <<writers_, thread, manual_compaction_, pinned, owed, durable>>
      /\ phase = "recovering" /\ bg.logs = {} /\ phase' = "installing"
      /\ logs' = With(logs, number, log) /\ logfile_number_' = number
      /\ versions' = [versions EXCEPT !.next_file_number_ = number + 1]
      /\ bg' = [bg EXCEPT !.edit = edit]
  BY DEF OpenNewLog, ghosts
<1>2. FileTypes /\ ManifestNumbers /\ NothingInMemory /\ RecoveredFiles /\ RecoveringFiles
  BY <1>1 DEF FileInv, Running
<1>3. /\ versions \in [current : VersionType, log_number_ : Nat, next_file_number_ : Nat, last_sequence_ : Nat]
      /\ bg \in BgType /\ bg.edit.l0 \subseteq Nat /\ number \in Nat /\ versions.last_sequence_ \in Nat
      /\ logs \in [DOMAIN logs -> LogType] /\ DOMAIN logs \subseteq Nat
      /\ manifest[Len(manifest)].next \in Nat
  <2>1. manifest[Len(manifest)] \in EditType /\ bg \in BgType
    BY <1>2 DEF FileTypes
  <2> QED BY <1>2, <2>1 DEF FileTypes, BgType, EditType
<1>4. /\ edit \in EditType /\ edit.l0 = bg.edit.l0 /\ edit.deep = {} /\ edit.deleted = {} /\ edit.log = number
      /\ edit.next = number + 1 /\ edit.seq = versions.last_sequence_
  BY <1>3 DEF Edit, EditType
<1>5. log \in LogType /\ log.recs = << >> /\ log.synced <= Len(log.recs)
  BY DEF LogType, NewLog
<1> HIDE DEF log, edit
<1>6. /\ versions' \in [current : VersionType, log_number_ : Nat, next_file_number_ : Nat, last_sequence_ : Nat]
      /\ versions'.current = versions.current /\ versions'.log_number_ = versions.log_number_
      /\ versions'.next_file_number_ = number + 1 /\ versions'.last_sequence_ = versions.last_sequence_
  BY <1>1, <1>3
<1> HIDE DEF number
<1>7. /\ bg' \in BgType /\ bg'.edit = edit /\ bg'.logs = {}
      /\ bg' = [BackgroundOff EXCEPT !.edit = bg'.edit, !.logs = bg'.logs]
  <2>1. bg' \in BgType /\ bg'.edit = edit /\ bg'.logs = {}
    BY <1>1, <1>3, <1>4 DEF BgType
  <2>2. bg = [BackgroundOff EXCEPT !.edit = bg.edit, !.logs = bg.logs]
    BY <1>2 DEF NothingInMemory
  <2>3. [bg EXCEPT !.edit = edit] = [BackgroundOff EXCEPT !.edit = edit, !.logs = bg.logs]
    BY <2>2 DEF BackgroundOff
  <2> QED BY <1>1, <2>1, <2>3
<1>8. number \notin DOMAIN logs /\ \A n \in DOMAIN logs : n < number
  <2>1. \A n \in DOMAIN logs : n < number
    BY <1>1, <1>2 DEF RecoveringFiles, number
  <2> QED BY <1>3, <2>1
<1>9. /\ logs' \in [DOMAIN logs' -> LogType] /\ DOMAIN logs' = DOMAIN logs \cup {number}
      /\ logs'[number] = log /\ \A n \in DOMAIN logs : logs'[n] = logs[n]
  BY <1>1, <1>3, <1>5, <1>8 DEF With
<1>10. ManifestNumbers' /\ (\A m : Named(m)' = Named(m)) /\ Left' = Left
  BY <1>1, ManifestStays
<1>11. FileTypes'
  <2>1. \A n \in DOMAIN logs' : logs'[n].synced <= Len(logs'[n].recs)
    BY <1>2, <1>5, <1>9 DEF FileTypes
  <2>2. DOMAIN logs' \subseteq Nat
    BY <1>3, <1>9
  <2> QED BY <1>1, <1>2, <1>3, <1>6, <1>7, <1>9, <2>1, <2>2 DEF FileTypes
<1>12. NothingInMemory'
  BY <1>1, <1>2, <1>7 DEF NothingInMemory
<1>13. RecoveredFiles'
  <2>1. versions.next_file_number_ < number + 1 /\ number = versions.next_file_number_
    BY <1>3 DEF number
  <2>2. manifest[Len(manifest)].next < number + 1
    BY <1>2, <1>3, <2>1 DEF RecoveredFiles
  <2>3. \A f \in bg.edit.l0 : manifest[Len(manifest)].next <= f /\ f < number + 1
    BY <1>2, <1>3, <2>1 DEF RecoveredFiles
  <2> QED BY <1>1, <1>2, <1>4, <1>6, <1>7, <1>10, <2>2, <2>3 DEF RecoveredFiles
<1>14. InstallingFiles'
  <2>1. \A n \in DOMAIN logs' : n <= number
    BY <1>3, <1>8, <1>9
  <2>2. number < number + 1
    BY <1>3
  <2> QED BY <1>1, <1>4, <1>5, <1>6, <1>7, <1>9, <2>1, <2>2 DEF InstallingFiles
<1> QED BY <1>1, <1>10, <1>11, <1>12, <1>13, <1>14, OpeningFiles

\* The end of DB::Open: the MANIFEST has the recovered version and the tables made of the logs.
LEMMA Opened ==
  ASSUME DBAssumption, FileInv, Install
  PROVE  /\ UNCHANGED <<mem, imm, logfile_number_, pending_outputs_, bg_error_, writers_, thread>>
         /\ UNCHANGED <<manual_compaction_, pinned>>
         /\ owed' = owed \ (dropped \ Held(Files(versions'.current)))
         /\ durable' = durable \ (dropped \ Held(Files(versions'.current)))
         /\ phase = "installing" /\ phase' = "open"
         /\ FileTypes /\ NothingInMemory /\ RecoveredFiles /\ InstallingFiles
         /\ Len(manifest') = 1 /\ msynced' = 1 /\ manifest' \in Seq(EditType) /\ Left' = {1}
         /\ manifest'[1].log = bg.edit.log /\ manifest'[1].next = bg.edit.next /\ manifest'[1].seq = bg.edit.seq
         /\ Named(1)' = Files(versions'.current)
         /\ Files(versions'.current) = Files(versions.current) \cup bg.edit.l0
         /\ versions' \in [current : VersionType, log_number_ : Nat, next_file_number_ : Nat, last_sequence_ : Nat]
         /\ versions'.log_number_ = logfile_number_ /\ versions'.next_file_number_ = versions.next_file_number_
         /\ versions'.last_sequence_ = versions.last_sequence_
         /\ FilesLeft(Files(versions'.current), logfile_number_)
         /\ DOMAIN tables' \subseteq Files(versions'.current)
         /\ DOMAIN logs' = {logfile_number_}
         /\ \E p \in BgIdle : bg' = [BackgroundOff EXCEPT !.pc = p]
<1> DEFINE v == Apply(versions.current, bg.edit)
           edit == Edit(v.l0, v.deep, {}, bg.edit.log, bg.edit.next, bg.edit.seq)
<1>1. /\ UNCHANGED <<mem, imm, logfile_number_, pending_outputs_, bg_error_, writers_, thread>>
      /\ UNCHANGED <<manual_compaction_, pinned>>
      /\ owed' = owed \ (dropped \ Held(Files(v))) /\ durable' = durable \ (dropped \ Held(Files(v)))
      /\ phase = "installing" /\ phase' = "open" /\ manifest' = <<edit>> /\ msynced' = 1
      /\ versions' = [versions EXCEPT !.current = v, !.log_number_ = bg.edit.log]
      /\ DeleteObsoleteFiles(v, BackgroundOff, {}, bg.edit.log, tables)
      /\ bg' = MaybeSchedule(BackgroundOff, imm, Nil, v, FALSE)
  BY DEF Install
<1>2. FileTypes /\ NothingInMemory /\ RecoveredFiles /\ InstallingFiles
  BY <1>1 DEF FileInv, Running
<1>3. /\ versions \in [current : VersionType, log_number_ : Nat, next_file_number_ : Nat, last_sequence_ : Nat]
      /\ bg.edit \in EditType /\ versions.current \in VersionType
  BY <1>2 DEF FileTypes, BgType
<1>4. /\ v \in VersionType /\ bg.edit.log \in Nat /\ bg.edit.next \in Nat /\ bg.edit.seq \in Nat
      /\ Files(v) = Files(versions.current) \cup bg.edit.l0
  <2>1. v \in VersionType
    BY <1>3, ApplyType
  <2>2. Files(v) = (Files(versions.current) \ bg.edit.deleted) \cup Added(bg.edit)
    BY ApplyFiles
  <2>3. bg.edit.deep = {} /\ bg.edit.deleted = {}
    BY <1>2 DEF RecoveredFiles
  <2>4. Files(v) = Files(versions.current) \cup bg.edit.l0
    BY <2>2, <2>3 DEF Added
  <2> QED BY <1>3, <2>1, <2>4 DEF EditType
<1> HIDE DEF v
<1>5. /\ edit \in EditType /\ edit.l0 = v.l0 /\ edit.deep = v.deep /\ edit.log = bg.edit.log
      /\ edit.next = bg.edit.next /\ edit.seq = bg.edit.seq
  BY <1>4 DEF Edit, EditType, VersionType
<1> HIDE DEF edit
<1>6. /\ Len(manifest') = 1 /\ manifest'[1] = edit /\ manifest' \in Seq(EditType) /\ Left' = {1}
  BY <1>1, <1>5 DEF Left
<1>7. Named(1)' = Files(v)
  <2>1. Named(1)' = Files(VersionOf(manifest', 1))
    BY DEF Named, Files, VersionOf, Deleted
  <2>2. VersionOf(manifest', 1) = [l0 |-> edit.l0, deep |-> edit.deep]
    BY <1>1, <1>5, VersionOfSnapshot
  <2> QED BY <1>5, <2>1, <2>2 DEF Files
<1>8. /\ versions' \in [current : VersionType, log_number_ : Nat, next_file_number_ : Nat, last_sequence_ : Nat]
      /\ versions'.log_number_ = bg.edit.log /\ versions'.next_file_number_ = versions.next_file_number_
      /\ versions'.last_sequence_ = versions.last_sequence_ /\ versions'.current = v
  BY <1>1, <1>3, <1>4
<1>9. bg.edit.log = logfile_number_
  BY <1>2 DEF InstallingFiles
<1>10. Files(v) \cup Pins(BackgroundOff) \cup {} = Files(v)
  <2>1. BackgroundOff.inputVersion = NoFiles /\ pinned = {}
    BY <1>2 DEF BackgroundOff, NothingInMemory
  <2> QED BY <2>1, NoFilesFacts DEF Pins
<1>11. FilesLeft(Files(v), logfile_number_)
  BY <1>1, <1>2, <1>9, <1>10, DeletedLeft
<1>12. DOMAIN tables' \subseteq Files(v)
  BY <1>1, <1>10 DEF DeleteObsoleteFiles, Restricted
<1>13. DOMAIN logs' = {logfile_number_}
  <2>1. DOMAIN logs' = {n \in DOMAIN logs : n >= logfile_number_}
    BY <1>1, <1>9 DEF DeleteObsoleteFiles, Restricted
  <2>2. /\ logfile_number_ \in DOMAIN logs /\ logfile_number_ \in Nat /\ DOMAIN logs \subseteq Nat
        /\ \A n \in DOMAIN logs : n <= logfile_number_
    BY <1>2 DEF InstallingFiles, FileTypes
  <2> QED BY <2>1, <2>2
<1>14. \E p \in BgIdle : bg' = [BackgroundOff EXCEPT !.pc = p]
  <2>1. PICK p \in {"off", "scheduled"} : bg' = [BackgroundOff EXCEPT !.pc = p]
    BY <1>1, OffIsIdle DEF MaybeSchedule
  <2> QED BY <2>1 DEF BgIdle
<1> QED BY <1>1, <1>2, <1>4, <1>5, <1>6, <1>7, <1>8, <1>9, <1>11, <1>12, <1>13, <1>14

\* DB::Open ends with the files of the new version.
LEMMA FilesInstalled ==
  ASSUME DBAssumption, FileInv, Install
  PROVE  FileInv'
<1>1. /\ UNCHANGED <<mem, imm, logfile_number_, pending_outputs_, pinned>> /\ phase' = "open"
      /\ owed' \subseteq owed /\ durable' \subseteq durable
      /\ FileTypes /\ NothingInMemory /\ RecoveredFiles /\ InstallingFiles
      /\ Len(manifest') = 1 /\ msynced' = 1 /\ manifest' \in Seq(EditType) /\ Left' = {1}
      /\ manifest'[1].log = bg.edit.log /\ manifest'[1].next = bg.edit.next
      /\ Named(1)' = Files(versions'.current)
      /\ Files(versions'.current) = Files(versions.current) \cup bg.edit.l0
      /\ versions' \in [current : VersionType, log_number_ : Nat, next_file_number_ : Nat, last_sequence_ : Nat]
      /\ versions'.log_number_ = logfile_number_ /\ versions'.next_file_number_ = versions.next_file_number_
      /\ FilesLeft(Files(versions'.current), logfile_number_)
      /\ DOMAIN tables' \subseteq Files(versions'.current)
      /\ DOMAIN logs' = {logfile_number_}
  BY Opened
<1>2. PICK p \in BgIdle : bg' = [BackgroundOff EXCEPT !.pc = p]
  BY Opened
<1>3. /\ versions.next_file_number_ \in Nat /\ manifest[Len(manifest)].next \in Nat /\ logfile_number_ \in Nat
      /\ bg.edit.log = logfile_number_ /\ bg.edit.next = versions.next_file_number_
      /\ logfile_number_ < versions.next_file_number_
      /\ Named(Len(manifest)) \subseteq Nat
  <2>1. manifest[Len(manifest)] \in EditType
    BY <1>1 DEF FileTypes
  <2>2. Len(manifest) \in 0..Len(manifest) /\ manifest \in Seq(EditType)
    BY <1>1 DEF FileTypes
  <2>3. VersionOf(manifest, Len(manifest)) \in VersionType
    BY <2>2, VersionOfType
  <2> QED BY <1>1, <2>1, <2>3 DEF FileTypes, InstallingFiles, EditType, Named, VersionType, Files
<1>4. \A f \in Files(versions'.current) : f < versions.next_file_number_
  <2>1. ASSUME NEW f \in Named(Len(manifest)) PROVE f < versions.next_file_number_
    <3>1. Len(manifest) \in Left
      BY <1>1 DEF FileTypes, Left
    <3>2. f < manifest[Len(manifest)].next
      BY <3>1 DEF FileInv, ManifestNumbers
    <3>3. manifest[Len(manifest)].next < versions.next_file_number_ /\ f \in Nat
      BY <1>1, <1>3 DEF RecoveredFiles
    <3> QED BY <1>3, <3>2, <3>3
  <2>2. \A f \in bg.edit.l0 : f < versions.next_file_number_
    BY <1>1 DEF RecoveredFiles
  <2> QED BY <1>1, <2>1, <2>2 DEF RecoveredFiles
<1>5. ManifestNumbers'
  <2>1. \A f \in Named(1)' : f < manifest'[1].next
    BY <1>1, <1>3, <1>4
  <2>2. manifest'[1].log < manifest'[1].next /\ manifest'[1].next <= manifest'[Len(manifest')].next
    BY <1>1, <1>3
  <2> QED BY <1>1, <2>1, <2>2 DEF ManifestNumbers
<1>6. bg' \in BgType
  <2>1. p \in BgPCs
    BY DEF BgPCs, BgIdle
  <2> QED BY <1>2, <2>1, IdleBackground
<1>7. FileTypes'
  <2>1. msynced' \in 1..Len(manifest')
    BY <1>1
  <2> QED BY <1>1, <1>6, <2>1, LeftTypes DEF FileTypes
<1>8. LogNumbers'
  <2>1. imm' = {} /\ logfile_number_ <= logfile_number_
    BY <1>1, <1>3 DEF NothingInMemory
  <2> QED BY <1>1, <1>3, <2>1 DEF LogNumbers
<1>9. NumbersAreOld'
  <2>1. versions.next_file_number_ <= versions.next_file_number_
    BY <1>3
  <2> QED BY <1>1, <1>3, <1>4, <2>1 DEF NumbersAreOld
<1>10. (UNION pinned') \cup Files(versions'.current) \subseteq DOMAIN tables'
  <2>1. pinned' = {} /\ Files(versions'.current) \subseteq DOMAIN tables
    BY <1>1 DEF NothingInMemory, RecoveredFiles
  <2> QED BY <1>1, <2>1 DEF FilesLeft
<1>11. OpenFiles'
  BY <1>2, <1>8, <1>9, <1>10, IdleFiles
<1> QED BY <1>1, <1>5, <1>7, <1>11, RunningFiles

\* The files stay right in every step.
LEMMA FileNext ==
  ASSUME DBAssumption, QueueInv, FileInv, [Next]_vars
  PROVE  FileInv'
<1>1. CASE RefVersion \/ UnrefVersion
  <2>1. /\ UNCHANGED <<files, memory, ghosts>> /\ UNCHANGED <<bg, phase>>
        /\ pinned' \in {{Files(versions.current)}, {}}
    BY <1>1 DEF RefVersion, UnrefVersion
  <2>2. Running
    BY <1>1 DEF RefVersion, UnrefVersion, Running, FileInv, NothingInMemory
  <2> QED BY <2>1, <2>2, FilesStay DEF Running
<1>2. CASE Close
  BY <1>2, FilesStay DEF Close, Running
<1>3. CASE Closed \/ ProcessStops \/ OpenFails
  BY <1>3, FilesStopped DEF Closed, ProcessStops, OpenFails
<1>4. CASE UNCHANGED vars
  <2>1. /\ UNCHANGED <<logs, tables, manifest, msynced, mem, imm, logfile_number_, versions, pending_outputs_>>
        /\ UNCHANGED <<bg_error_, writers_, thread, bg, manual_compaction_, pinned, phase, owed, durable>>
    BY <1>4 DEF vars, files, memory, ghosts
  <2>2. FileTypes' = FileTypes /\ ManifestNumbers' = ManifestNumbers /\ Running' = Running
    BY <2>1 DEF FileTypes, ManifestNumbers, Named, Left, VersionOf, Deleted, Files, Running
  <2>3. OpenFiles' = OpenFiles
    <3>1. /\ LogNumbers' = LogNumbers /\ NumbersAreOld' = NumbersAreOld /\ InUse' = InUse /\ FlushIsRight' = FlushIsRight
      BY <2>1 DEF LogNumbers, NumbersAreOld, InUse, Files, FlushIsRight, Flushing, InManifest, Added
    <3>2. CompactionIsRight' = CompactionIsRight /\ EditIsRight' = EditIsRight
      BY <2>1 DEF CompactionIsRight, EditIsRight, InManifest, Writing, Held, Added, Named, Left, VersionOf, Deleted, Files
    <3> QED BY <3>1, <3>2 DEF OpenFiles
  <2>4. /\ NothingInMemory' = NothingInMemory /\ RecoveredFiles' = RecoveredFiles
        /\ RecoveringFiles' = RecoveringFiles /\ InstallingFiles' = InstallingFiles
    BY <2>1 DEF NothingInMemory, RecoveredFiles, RecoveringFiles, InstallingFiles, Named, VersionOf, Deleted, Files
  <2> QED BY <2>1, <2>2, <2>3, <2>4 DEF FileInv
<1> QED BY <1>1, <1>2, <1>3, <1>4, FileClientStep, FileBackgroundStep, FilesCrashed, FilesRecover, FilesReplayed,
           FilesNewLog, FilesInstalled DEF Next

\* The files of a new database are right.
LEMMA FileInit ==
  ASSUME DBAssumption, Init
  PROVE  FileInv
<1> DEFINE log == NewLog
           edit == Edit({}, {}, {}, 3, 4, 0)
<1>1. /\ log \in LogType /\ log.synced <= Len(log.recs)
  BY DEF LogType, NewLog
<1>2. /\ edit \in EditType /\ edit.l0 = {} /\ edit.deep = {} /\ edit.log = 3 /\ edit.next = 4 /\ edit.seq = 0
  BY DEF Edit, EditType
<1>3. BackgroundOff = [BackgroundOff EXCEPT !.pc = "off"] /\ BackgroundOff \in BgType /\ "off" \in BgIdle
  <2>1. "off" \in BgPCs
    BY DEF BgPCs
  <2> QED BY <2>1, IdleBackground, OffIsIdle DEF BgIdle
<1> HIDE DEF log, edit
<1>4. /\ manifest = <<edit>> /\ manifest \in Seq(EditType) /\ Len(manifest) = 1 /\ manifest[1] = edit /\ msynced = 1
      /\ Left = {1}
  BY <1>2 DEF Init, Left, edit
<1>5. Named(1) = {} /\ Files(NoFiles) = {} /\ NoFiles \in VersionType
  <2>1. VersionOf(<<edit>>, 1) = [l0 |-> edit.l0, deep |-> edit.deep]
    BY <1>2, VersionOfSnapshot
  <2> QED BY <1>2, <1>4, <2>1, NoFilesFacts DEF Named, Files
<1>6. logs \in [{3} -> LogType] /\ DOMAIN logs = {3} /\ logs[3] = log
  BY <1>1 DEF Init, log
<1>7. /\ versions \in [current : VersionType, log_number_ : Nat, next_file_number_ : Nat, last_sequence_ : Nat]
      /\ versions.current = NoFiles /\ versions.log_number_ = 3 /\ versions.next_file_number_ = 4
  BY <1>5 DEF Init
<1>8. DOMAIN tables = {} /\ tables \in [DOMAIN tables -> SUBSET Entries]
  BY DEF Init
<1>9. FileTypes
  BY <1>1, <1>3, <1>4, <1>6, <1>7, <1>8 DEF FileTypes, Init
<1>10. ManifestNumbers
  BY <1>2, <1>4, <1>5 DEF ManifestNumbers
<1>11. LogNumbers /\ NumbersAreOld
  BY <1>2, <1>4, <1>6, <1>7, <1>8 DEF LogNumbers, NumbersAreOld, Init
<1>12. /\ bg = BackgroundOff /\ bg.pc \in BgIdle /\ bg = [BackgroundOff EXCEPT !.pc = bg.pc]
       /\ bg.out = Nil /\ bg.inputs = {} /\ bg.inputVersion = NoFiles /\ bg.caller = Nil
  BY <1>3 DEF Init, BackgroundOff
<1>13. ~Flushing /\ ~InManifest /\ ~Writing /\ bg.pc \notin {"build", "built", "finish"}
  BY <1>12 DEF Flushing, InManifest, Writing, BgIdle, DBAssumption
<1>14. FlushIsRight /\ EditIsRight
  BY <1>12, <1>13 DEF FlushIsRight, EditIsRight
<1>15. CompactionIsRight
  BY <1>12, <1>13 DEF CompactionIsRight
<1>16. InUse
  BY <1>5, <1>7, <1>12 DEF InUse, Init
<1> QED BY <1>9, <1>10, <1>11, <1>14, <1>15, <1>16 DEF FileInv, OpenFiles, Running, Init

\* No file in use is deleted: in every state the files of the current version, of the versions
\* that readers and the compaction have, and the inputs of the compaction are there.
THEOREM FilesStayInUse == DBAssumption => (Spec => []FilesInUseExist)
<1> SUFFICES ASSUME DBAssumption PROVE Spec => []FilesInUseExist
  OBVIOUS
<1>1. Init => FileInv
  BY FileInit
<1>2. QueueInv /\ FileInv /\ [Next]_vars => FileInv'
  BY FileNext
<1>3. Spec => []QueueInv
  BY QueueIsRight
<1>4. FileInv => FilesInUseExist
  <2> SUFFICES ASSUME FileInv, Running PROVE Pins(bg) \cup Files(versions.current) \cup bg.inputs \subseteq DOMAIN tables
    BY DEF FilesInUseExist
  <2>1. InUse /\ bg.inputs \subseteq Files(bg.inputVersion)
    BY DEF FileInv, OpenFiles, CompactionIsRight
  <2> QED BY <2>1 DEF InUse, Pins
<1> QED BY <1>1, <1>2, <1>3, <1>4, PTL DEF Spec

-------------------------------------------------------------------------------
(* The MANIFEST and the tables *)

\* The tables S are there after the step, with what they held.
SameTables(S) == \A f \in S : f \in DOMAIN tables' /\ tables'[f] = tables[f]

\* Tables that stay hold what they held.
LEMMA HeldSame ==
  ASSUME NEW S, SameTables(S)
  PROVE  HeldIn(tables', S) = HeldIn(tables, S)
<1>1. \A e : e \in HeldIn(tables', S) <=> e \in HeldIn(tables, S)
  BY DEF HeldIn, SameTables
<1> QED BY <1>1

\* What the tables of two sets hold.
LEMMA HeldUnion ==
  ASSUME NEW S, NEW T, NEW tbl
  PROVE  /\ HeldIn(tbl, S \cup T) = HeldIn(tbl, S) \cup HeldIn(tbl, T)
         /\ S \subseteq T => HeldIn(tbl, S) \subseteq HeldIn(tbl, T)
BY DEF HeldIn

\* Added files hold what the deleted ones do.
LEMMA HeldEdited ==
  ASSUME NEW S, NEW deleted, NEW added, NEW tbl, HeldIn(tbl, deleted) \subseteq HeldIn(tbl, added)
  PROVE  HeldIn(tbl, S) \subseteq HeldIn(tbl, (S \ deleted) \cup added)
<1> SUFFICES ASSUME NEW e \in HeldIn(tbl, S) PROVE e \in HeldIn(tbl, (S \ deleted) \cup added)
  OBVIOUS
<1>1. PICK f \in S : e \in tbl[f]
  BY DEF HeldIn
<1>2. CASE f \in deleted
  <2>1. e \in HeldIn(tbl, deleted)
    BY <1>1, <1>2 DEF HeldIn
  <2>2. PICK g \in added : e \in tbl[g]
    BY <2>1 DEF HeldIn
  <2> QED BY <2>2 DEF HeldIn
<1>3. CASE f \notin deleted
  BY <1>1, <1>3 DEF HeldIn
<1> QED BY <1>2, <1>3

\* The invariant, in terms of what tables hold.
LEMMA ManifestInvFacts ==
  ManifestInv <=>
    /\ \A n \in Left : /\ Named(n) \subseteq DOMAIN tables
                       /\ HeldIn(tables, Named(msynced)) \subseteq HeldIn(tables, Named(n))
    /\ Running => /\ ManifestIsCurrent
                  /\ \A n \in Left : HeldIn(tables, Files(versions.current)) \subseteq HeldIn(tables, Named(n))
BY DEF ManifestInv, ManifestNamesFiles, ManifestHolds, Left, Named, Held, HeldIn

\* The same for the next state.
LEMMA ManifestInvFactsNext ==
  ManifestInv' <=>
    /\ \A n \in Left' : /\ Named(n)' \subseteq DOMAIN tables'
                        /\ HeldIn(tables', Named(msynced)') \subseteq HeldIn(tables', Named(n)')
    /\ Running' => /\ ManifestIsCurrent'
                   /\ \A n \in Left' : HeldIn(tables', Files(versions'.current)) \subseteq HeldIn(tables', Named(n)')
BY DEF ManifestInv, ManifestNamesFiles, ManifestHolds, Left, Named, Held, HeldIn

\* Steps that leave the MANIFEST alone and the tables that it names.
LEMMA ManifestKept ==
  ASSUME FileInv, ManifestInv, UNCHANGED <<manifest, msynced>>,
         \A n \in Left : SameTables(Named(n)),
         Running' =>
           /\ Running /\ versions'.current = versions.current /\ SameTables(Files(versions.current))
           /\ ~bg_error_' => ~bg_error_
           /\ bg' = bg \/ (bg.pc # "install" /\ bg'.pc # "install") \/ (bg_error_' /\ bg'.pc # "install")
  PROVE  ManifestInv'
<1>1. (\A n : Named(n)' = Named(n)) /\ Left' = Left /\ Named(msynced)' = Named(msynced)
  <2>1. (\A n : Named(n)' = Named(n)) /\ Left' = Left
    BY ManifestStays
  <2>2. Named(msynced)' = Named(msynced)
    BY DEF Named, Files, VersionOf, Deleted
  <2> QED BY <2>1, <2>2
<1>2. msynced \in Left
  BY DEF FileInv, FileTypes, Left
<1>3. ASSUME NEW n \in Left
      PROVE  /\ Named(n) \subseteq DOMAIN tables' /\ HeldIn(tables', Named(n)) = HeldIn(tables, Named(n))
  BY HeldSame DEF SameTables
<1>4. \A n \in Left : HeldIn(tables', Named(msynced)) \subseteq HeldIn(tables', Named(n))
  BY <1>2, <1>3, ManifestInvFacts
<1>5. ASSUME Running'
      PROVE  /\ ManifestIsCurrent'
             /\ \A n \in Left : HeldIn(tables', Files(versions'.current)) \subseteq HeldIn(tables', Named(n))
  <2>1. HeldIn(tables', Files(versions.current)) = HeldIn(tables, Files(versions.current))
    BY <1>5, HeldSame
  <2>2. \A n \in Left : HeldIn(tables', Files(versions'.current)) \subseteq HeldIn(tables', Named(n))
    BY <1>3, <1>5, <2>1, ManifestInvFacts
  <2>3. ManifestIsCurrent
    BY <1>5, ManifestInvFacts
  <2>4. ManifestIsCurrent'
    <3>1. Files(versions.current)' = Files(versions.current) /\ Named(Len(manifest))' = Named(Len(manifest))
      BY <1>5 DEF Files, Named, VersionOf, Deleted
    <3>2. CASE bg' = bg
      <4>1. /\ Files(Apply(versions.current, bg.edit))' = Files(Apply(versions.current, bg.edit))
            /\ Added(bg.edit)' = Added(bg.edit)
        BY <1>5, <3>2 DEF Files, Apply, Added
      <4> QED BY <1>5, <2>3, <3>1, <3>2, <4>1 DEF ManifestIsCurrent
    <3>3. CASE bg.pc # "install" /\ bg'.pc # "install"
      BY <1>5, <2>3, <3>1, <3>3 DEF ManifestIsCurrent
    <3>4. CASE bg_error_' /\ bg'.pc # "install"
      BY <1>5, <3>4 DEF ManifestIsCurrent
    <3> QED BY <1>5, <3>2, <3>3, <3>4
  <2> QED BY <2>2, <2>4
<1> QED BY <1>1, <1>3, <1>4, <1>5, ManifestInvFactsNext

\* Steps that leave the MANIFEST alone, and all tables but perhaps g, which is not of any version.
LEMMA ManifestSame ==
  ASSUME DBAssumption, FileInv, ManifestInv, UNCHANGED <<manifest, msynced>>,
         NEW g, \A n \in Left : g \notin Named(n), Running => g \notin Files(versions.current),
         \A f \in DOMAIN tables : f # g => f \in DOMAIN tables' /\ tables'[f] = tables[f],
         Running' =>
           /\ Running /\ versions'.current = versions.current
           /\ ~bg_error_' => ~bg_error_
           /\ bg' = bg \/ (bg.pc # "install" /\ bg'.pc # "install") \/ (bg_error_' /\ bg'.pc # "install")
  PROVE  ManifestInv'
<1>1. ASSUME NEW n \in Left PROVE SameTables(Named(n))
  <2>1. Named(n) \subseteq DOMAIN tables
    BY ManifestInvFacts
  <2> QED BY <2>1 DEF SameTables
<1>2. Running => SameTables(Files(versions.current))
  BY DEF SameTables, FileInv, OpenFiles, InUse
<1> QED BY <1>1, <1>2, ManifestKept

\* All tables stay, none being given a number that is no file's.
LEMMA NoTable ==
  ASSUME DBAssumption, FileInv, ManifestInv
  PROVE  (\A n \in Left : Nil \notin Named(n)) /\ (Running => Nil \notin Files(versions.current))
<1>1. Nil \notin DOMAIN tables
  BY DEF DBAssumption, FileInv, FileTypes
<1>2. \A n \in Left : Named(n) \subseteq DOMAIN tables
  BY ManifestInvFacts
<1>3. Running => Files(versions.current) \subseteq DOMAIN tables
  BY DEF FileInv, OpenFiles, InUse
<1> QED BY <1>1, <1>2, <1>3

\* A step that leaves the tables and the current version.
LEMMA ManifestTables ==
  ASSUME DBAssumption, FileInv, ManifestInv, UNCHANGED <<tables, manifest, msynced>>,
         Running' =>
           /\ Running /\ versions'.current = versions.current
           /\ ~bg_error_' => ~bg_error_
           /\ bg' = bg \/ (bg.pc # "install" /\ bg'.pc # "install") \/ (bg_error_' /\ bg'.pc # "install")
  PROVE  ManifestInv'
<1>1. \A f \in DOMAIN tables : f # Nil => f \in DOMAIN tables' /\ tables'[f] = tables[f]
  OBVIOUS
<1>2. (\A n \in Left : Nil \notin Named(n)) /\ (Running => Nil \notin Files(versions.current))
  BY NoTable
<1> QED BY <1>1, <1>2, ManifestSame

\* The MANIFEST stays sound in every step of a client.
LEMMA ManifestClientStep ==
  ASSUME DBAssumption, FileInv, ManifestInv, NEW t \in Threads,
         ThreadStep(t) \/ CompactRange(t) \/ \E sync \in Syncs : Write(t, sync)
  PROVE  ManifestInv'
<1>0. ASSUME CompactRange(t) \/ \E sync \in Syncs : Write(t, sync)
      PROVE  phase = "open" /\ UNCHANGED <<files, memory>> /\ UNCHANGED <<bg_error_, bg>>
  <2>1. PICK s, b : Enqueue(t, s, b)
    BY <1>0 DEF CompactRange, Write
  <2> QED BY <2>1 DEF Enqueue
<1>1. Running /\ UNCHANGED <<tables, manifest, msynced>> /\ versions'.current = versions.current
  <2>0. versions \in [current : VersionType, log_number_ : Nat, next_file_number_ : Nat, last_sequence_ : Nat]
    BY DEF FileInv, FileTypes
  <2>1. CASE CompactRange(t) \/ \E sync \in Syncs : Write(t, sync)
    BY <1>0, <2>1 DEF Running, files, memory
  <2>2. CASE Woken(t) \/ RoomFails(t) \/ Delay(t) \/ WaitForRoom(t) \/ BeginLogging(t) \/ WaitForFlush(t) \/ ManualCompaction(t)
    BY <2>2 DEF Woken, RoomFails, Delay, WaitForRoom, BeginLogging, WaitForFlush, AtRoom, ManualCompaction, files, memory
  <2>3. CASE AddRecord(t) \/ SyncLog(t) \/ InsertInto(t)
    BY <2>3 DEF AddRecord, SyncLog, InsertInto, files, memory
  <2>4. CASE SwitchMemTable(t)
    BY <2>0, <2>4 DEF SwitchMemTable, AtRoom
  <2>5. CASE FinishWrite(t)
    BY <2>0, <2>5 DEF FinishWrite, files
  <2> QED BY <2>1, <2>2, <2>3, <2>4, <2>5 DEF ThreadStep
<1>2. ~bg_error_' => ~bg_error_
  <2>1. CASE CompactRange(t) \/ \E sync \in Syncs : Write(t, sync)
    BY <1>0, <2>1
  <2>2. CASE Woken(t) \/ RoomFails(t) \/ Delay(t) \/ WaitForRoom(t) \/ BeginLogging(t) \/ WaitForFlush(t) \/ ManualCompaction(t)
    BY <2>2 DEF Woken, RoomFails, Delay, WaitForRoom, BeginLogging, WaitForFlush, ManualCompaction
  <2>3. CASE AddRecord(t) \/ SyncLog(t) \/ InsertInto(t) \/ SwitchMemTable(t) \/ FinishWrite(t)
    BY <2>3 DEF AddRecord, SyncLog, InsertInto, SwitchMemTable, FinishWrite
  <2> QED BY <2>1, <2>2, <2>3 DEF ThreadStep
<1>3. bg' = bg \/ (bg.pc # "install" /\ bg'.pc # "install")
  <2>1. \/ bg' = bg
        \/ \E memtable, manual, v, error : bg' = MaybeSchedule(bg, memtable, manual, v, error)
    <3>1. CASE CompactRange(t) \/ \E sync \in Syncs : Write(t, sync)
      BY <1>0, <3>1
    <3>2. CASE Woken(t) \/ RoomFails(t) \/ Delay(t) \/ WaitForRoom(t) \/ BeginLogging(t) \/ WaitForFlush(t) \/ ManualCompaction(t)
      BY <3>2 DEF Woken, RoomFails, Delay, WaitForRoom, BeginLogging, WaitForFlush, ManualCompaction
    <3>3. CASE AddRecord(t) \/ SyncLog(t) \/ InsertInto(t) \/ SwitchMemTable(t) \/ FinishWrite(t)
      BY <3>3 DEF AddRecord, SyncLog, InsertInto, SwitchMemTable, FinishWrite
    <3> QED BY <3>1, <3>2, <3>3 DEF ThreadStep
  <2>2. FlushIsRight /\ bg \in BgType
    BY <1>1 DEF FileInv, OpenFiles, FileTypes
  <2>3. bg' = bg \/ (bg.pc = "off" /\ bg' = [BackgroundOff EXCEPT !.pc = "scheduled"])
    BY <2>1, <2>2, MaybeScheduleSame
  <2>4. [BackgroundOff EXCEPT !.pc = "scheduled"].pc = "scheduled"
    BY DEF BackgroundOff
  <2> QED BY <2>3, <2>4
<1> QED BY <1>1, <1>2, <1>3, ManifestTables

\* The write and the sync of the MANIFEST.
LEMMA ManifestEdited ==
  ASSUME DBAssumption, FileInv, ManifestInv, WriteManifest
  PROVE  ManifestInv'
<1> DEFINE last == Len(manifest)
           after == (Named(last) \ bg.edit.deleted) \cup Added(bg.edit)
<1>1. /\ UNCHANGED <<tables, versions, bg_error_, phase>> /\ Running /\ bg.pc = "manifest" /\ bg'.pc = "install"
      /\ bg'.edit = bg.edit
      /\ \/ manifest' = Append(manifest, bg.edit) /\ msynced' = last + 1
         \/ msynced' = msynced /\ bg'.status = "error"
  <2>1. bg \in BgType
    BY DEF FileInv, FileTypes
  <2> QED BY <2>1 DEF WriteManifest, AtBackground, memory, BgType
<1>2. /\ manifest \in Seq(EditType) /\ msynced \in 1..last /\ last \in Nat /\ bg.edit \in EditType
  BY DEF FileInv, FileTypes, BgType
<1>3. /\ \A n \in Left' : \/ n \in Left /\ Named(n)' = Named(n)
                          \/ n = last + 1 /\ Named(n)' = after
      /\ last \in Left
      /\ Len(manifest') = last \/ Len(manifest') = last + 1
  BY ManifestWritten
<1>4. EditIsRight /\ Files(versions.current) \subseteq DOMAIN tables
  BY <1>1 DEF FileInv, OpenFiles, InUse
<1>5. Added(bg.edit) \subseteq DOMAIN tables /\ HeldIn(tables, bg.edit.deleted) \subseteq HeldIn(tables, Added(bg.edit))
  BY <1>1, <1>4 DEF EditIsRight, InManifest, Held, HeldIn
<1> DEFINE old == Named(last)
<1>6. old \subseteq DOMAIN tables
  BY <1>3, ManifestInvFacts
<1>7. HeldIn(tables, old) \subseteq HeldIn(tables, (old \ bg.edit.deleted) \cup Added(bg.edit))
  <2> HIDE DEF old
  <2> QED BY <1>5, HeldEdited
<1>8. after \subseteq DOMAIN tables /\ HeldIn(tables, old) \subseteq HeldIn(tables, after)
  BY <1>5, <1>6, <1>7
<1>9. ManifestIsCurrent /\ HeldIn(tables, Files(versions.current)) \subseteq HeldIn(tables, old)
  BY <1>1, <1>3, ManifestInvFacts
<1>10. ~bg_error_ => old = Files(versions.current)
  BY <1>1, <1>9 DEF ManifestIsCurrent
<1>11. ASSUME NEW n \in Left'
       PROVE  /\ Named(n)' \subseteq DOMAIN tables
              /\ HeldIn(tables, Files(versions.current)) \subseteq HeldIn(tables, Named(n)')
  <2>1. CASE n \in Left /\ Named(n)' = Named(n)
    BY <1>1, <2>1, ManifestInvFacts
  <2>2. CASE n = last + 1 /\ Named(n)' = after
    BY <1>8, <1>9, <2>2
  <2> QED BY <1>3, <1>11, <2>1, <2>2
<1>12. ASSUME NEW n \in Left'
       PROVE  HeldIn(tables, Named(msynced)') \subseteq HeldIn(tables, Named(n)')
  <2>1. CASE msynced' = last + 1 /\ manifest' = Append(manifest, bg.edit)
    <3>1. n = msynced'
      BY <1>2, <2>1 DEF Left
    <3>2. Named(n)' = Named(msynced)'
      BY <3>1 DEF Named
    <3> QED BY <3>2
  <2>2. CASE msynced' = msynced
    <3>1. msynced \in Left'
      BY <1>2, <1>3, <2>2 DEF Left
    <3>2. Named(msynced)' = Named(msynced)
      <4>1. msynced # last + 1
        BY <1>2
      <4> DEFINE m == msynced
      <4>2. m \in Left'
        BY <3>1
      <4> HIDE DEF m
      <4>3. \A k \in Left' : k # last + 1 => Named(k)' = Named(k)
        BY <1>3
      <4>4. \A k : k = msynced' => Named(k)' = Named(msynced)'
        BY DEF Named
      <4> QED BY <2>2, <3>1, <4>1, <4>3, <4>4
    <3>3. \A k \in Left : HeldIn(tables, Named(msynced)) \subseteq HeldIn(tables, Named(k))
      BY ManifestInvFacts
    <3>4. CASE n \in Left /\ Named(n)' = Named(n)
      BY <3>2, <3>3, <3>4
    <3>5. CASE n = last + 1 /\ Named(n)' = after
      BY <1>3, <1>8, <3>2, <3>3, <3>5
    <3> QED BY <1>3, <1>12, <3>4, <3>5
  <2> QED BY <1>1, <2>1, <2>2
<1>13. ManifestIsCurrent'
  <2> SUFFICES ASSUME bg'.status = "ok"
               PROVE  /\ msynced' = Len(manifest') /\ Added(bg.edit) \subseteq Named(Len(manifest))'
                      /\ ~bg_error_ => Named(Len(manifest))' = Files(Apply(versions.current, bg.edit))
    <3>1. Added(bg.edit)' = Added(bg.edit) /\ Files(Apply(versions.current, bg.edit))' = Files(Apply(versions.current, bg.edit))
      BY <1>1 DEF Added, Files, Apply
    <3> QED BY <1>1, <3>1 DEF ManifestIsCurrent
  <2>1. manifest' = Append(manifest, bg.edit) /\ msynced' = last + 1 /\ Len(manifest') = last + 1
    BY <1>1, <1>2
  <2>2. last + 1 \in Left' /\ last + 1 \notin Left
    BY <1>2, <2>1 DEF Left
  <2>3. \A k : k = last + 1 => Named(k)' = after
    BY <1>3, <2>2
  <2>4. Named(Len(manifest))' = after
    <3>1. \A k : k = Len(manifest') => Named(k)' = Named(Len(manifest))'
      BY DEF Named
    <3> QED BY <2>1, <2>3, <3>1
  <2>5. Files(Apply(versions.current, bg.edit)) = (Files(versions.current) \ bg.edit.deleted) \cup Added(bg.edit)
    BY ApplyFiles
  <2> QED BY <1>10, <2>1, <2>4, <2>5
<1>14. \A n \in Left' : HeldIn(tables', Files(versions'.current)) \subseteq HeldIn(tables', Named(n)')
  BY <1>1, <1>11
<1> QED BY <1>1, <1>11, <1>12, <1>13, <1>14, ManifestInvFactsNext

\* The end of LogAndApply, and what is deleted after it unless there was an error.
LEMMA ManifestInstalled ==
  ASSUME DBAssumption, FileInv, ManifestInv, Running, bg.pc = "install", InstallVersion,
         UNCHANGED <<manifest, msynced, phase>>, bg'.pc # "install",
         bg_error_' = (bg_error_ \/ bg.status = "error"),
         NEW kept, NEW log, Files(versions'.current) \subseteq kept, FilesLeft(kept, log),
         bg_error_' => tables' = tables
  PROVE  ManifestInv'
<1>1. InManifest /\ ManifestIsCurrent /\ bg.status \in {"ok", "error"}
  BY ManifestInvFacts DEF InManifest, FileInv, FileTypes, BgType
<1>2. /\ bg.status = "error" => versions' = versions
      /\ bg.status # "error" =>
           /\ versions'.current = Apply(versions.current, bg.edit)
           /\ Files(versions'.current) = (Files(versions.current) \ bg.edit.deleted) \cup Added(bg.edit)
      /\ Files(versions'.current) \subseteq DOMAIN tables
  BY <1>1, VersionInstalled
<1>3. CASE bg.status = "error"
  <2>1. bg_error_' /\ tables' = tables
    BY <1>3
  <2> QED BY <1>2, <1>3, <2>1, ManifestTables
<1>4. CASE bg.status = "ok"
  <2> DEFINE last == Len(manifest)
  <2>1. msynced = last /\ Added(bg.edit) \subseteq Named(last) /\ last \in Left /\ (\A n \in Left : n = last)
    BY <1>1, <1>4 DEF ManifestIsCurrent, Left, FileInv, FileTypes
  <2>2. (\A n : Named(n)' = Named(n)) /\ Left' = Left
    BY ManifestStays
  <2>3. Named(last) \subseteq DOMAIN tables /\ HeldIn(tables, Files(versions.current)) \subseteq HeldIn(tables, Named(last))
    BY <2>1, ManifestInvFacts
  <2>4. Named(msynced)' = Named(msynced) /\ Named(Len(manifest))' = Named(last)
    BY DEF Named, Files, VersionOf, Deleted
  <2>5. CASE bg_error_'
    <3>1. tables' = tables
      BY <2>5
    <3>2. Files(versions'.current) \subseteq Files(versions.current) \cup Added(bg.edit)
      BY <1>2, <1>4
    <3>3. HeldIn(tables, Files(versions'.current)) \subseteq HeldIn(tables, Named(last))
      <4> DEFINE F == Files(versions'.current)
                 C == Files(versions.current)
                 A == Added(bg.edit)
                 N == Named(last)
      <4>1. /\ F \subseteq C \cup A /\ A \subseteq N /\ HeldIn(tables, C) \subseteq HeldIn(tables, N)
        BY <2>1, <2>3, <3>2
      <4> HIDE DEF F, C, A, N
      <4>2. HeldIn(tables, F) \subseteq HeldIn(tables, N)
        BY <4>1 DEF HeldIn
      <4> QED BY <4>2 DEF F, N
    <3>4. ManifestIsCurrent'
      BY <2>5 DEF ManifestIsCurrent
    <3> QED BY <2>1, <2>2, <2>3, <2>4, <3>1, <3>3, <3>4, ManifestInvFactsNext
  <2>6. CASE ~bg_error_'
    <3>1. Named(last) = Files(versions'.current)
      BY <1>1, <1>2, <1>4, <2>6 DEF ManifestIsCurrent
    <3>2. Named(last) \subseteq DOMAIN tables'
      BY <2>3, <3>1 DEF FilesLeft
    <3>3. ManifestIsCurrent'
      <4>1. Files(versions.current)' = Files(versions'.current)
        BY DEF Files
      <4> QED BY <2>1, <2>4, <3>1, <4>1 DEF ManifestIsCurrent
    <3> QED BY <2>1, <2>2, <2>4, <3>1, <3>2, <3>3, ManifestInvFactsNext
  <2> QED BY <2>5, <2>6
<1> QED BY <1>1, <1>3, <1>4

\* A memtable is flushed that is not to be installed, or a compaction ends.
LEMMA IdleOrCalled ==
  ASSUME FlushReturns, FileInv, Running, DBAssumption, Flushing
  PROVE  bg'.pc \in {"off", "scheduled", "compact", "writing"}
<1>1. CASE bg.caller = Nil
  <2>1. PICK p \in {"off", "scheduled"} : bg' = [BackgroundOff EXCEPT !.pc = p]
    BY <1>1, MaybeScheduleIdle DEF FlushReturns, EndCall
  <2>2. p \in BgPCs
    BY DEF BgPCs
  <2> QED BY <2>1, <2>2, IdleBackground
<1>2. CASE bg.caller # Nil
  <2>1. bg \in BgType
    BY DEF FileInv, FileTypes
  <2> QED BY <1>2, <2>1 DEF FlushReturns, BgType
<1> QED BY <1>1, <1>2

\* The background thread does nothing after a call.
LEMMA EndIsIdle ==
  ASSUME DBAssumption, NEW th, EndCall(th)
  PROVE  bg'.pc \in BgIdle
<1>1. PICK p \in BgIdle : bg' = [BackgroundOff EXCEPT !.pc = p]
  BY EndCallIdle
<1>2. p \in BgPCs
  BY DEF BgPCs, BgIdle
<1> QED BY <1>1, <1>2, IdleBackground

\* Nor after a compaction.
LEMMA CompactionEndsIdle ==
  ASSUME DBAssumption, CompactionEnds
  PROVE  bg'.pc \in BgIdle
<1>1. CASE bg.is_manual /\ manual_compaction_ = Nil
  <2>1. bg' = [BackgroundOff EXCEPT !.pc = "trap"] /\ "trap" \in BgPCs
    BY <1>1 DEF CompactionEnds, BgPCs
  <2> QED BY <2>1, IdleBackground DEF BgIdle
<1>2. CASE ~(bg.is_manual /\ manual_compaction_ = Nil)
  <2>1. \E th : EndCall(th)
    BY <1>2 DEF CompactionEnds
  <2> QED BY <2>1, EndIsIdle
<1> QED BY <1>1, <1>2

\* The MANIFEST stays sound while a memtable is flushed, up to the write of the edit.
LEMMA ManifestFlush ==
  ASSUME DBAssumption, FileInv, ManifestInv, Flush \/ FlushInCompaction \/ BuildTable \/ FlushBuilt
  PROVE  ManifestInv'
<1>0. /\ versions \in [current : VersionType, log_number_ : Nat, next_file_number_ : Nat, last_sequence_ : Nat]
      /\ bg \in BgType
  BY DEF FileInv, FileTypes
<1>1. CASE Flush \/ FlushInCompaction
  <2>1. PICK caller : BeginFlush(caller) /\ Running /\ bg.pc # "install"
    BY <1>1 DEF Flush, FlushInCompaction, AtBackground
  <2>2. /\ UNCHANGED <<tables, manifest, msynced, bg_error_>> /\ versions'.current = versions.current
        /\ bg'.pc # "install"
    BY <1>0, <2>1 DEF BeginFlush, files, BgType
  <2> QED BY <2>1, <2>2, ManifestTables
<1>2. CASE BuildTable
  <2>1. /\ UNCHANGED <<manifest, msynced, versions, bg_error_>> /\ Running /\ bg.pc = "build"
        /\ tables' = tables \/ tables' = With(tables, bg.out, UNION imm)
        /\ bg' \in {[bg EXCEPT !.pc = "built", !.status = s] : s \in {"ok", "error"}}
    BY <1>2 DEF BuildTable, AtBackground, memory
  <2>2. bg'.pc = "built"
    BY <1>0, <2>1 DEF BgType
  <2>3. bg.out \notin DOMAIN tables
    BY <2>1 DEF FileInv, OpenFiles, FlushIsRight
  <2>4. \A f \in DOMAIN tables : f # bg.out => f \in DOMAIN tables' /\ tables'[f] = tables[f]
    BY <2>1 DEF With
  <2>5. (\A n \in Left : bg.out \notin Named(n)) /\ bg.out \notin Files(versions.current)
    BY <2>1, <2>3, ManifestInvFacts DEF FileInv, OpenFiles, InUse
  <2> QED BY <2>1, <2>2, <2>4, <2>5, ManifestSame
<1>3. CASE FlushBuilt
  <2>1. /\ UNCHANGED <<tables, manifest, msynced, versions>> /\ Running /\ bg.pc = "built"
        /\ \/ bg_error_' = TRUE /\ FlushReturns
           \/ bg_error_' = bg_error_ /\ bg'.pc = "manifest"
    BY <1>0, <1>3 DEF FlushBuilt, AtBackground, files, BgType
  <2>2. Flushing
    BY <2>1 DEF Flushing
  <2>3. bg'.pc # "install"
    BY <1>0, <2>1, <2>2, IdleOrCalled DEF BgType
  <2> QED BY <2>1, <2>3, ManifestTables
<1> QED BY <1>1, <1>2, <1>3

\* A trivial move leaves files and memory.
LEMMA MoveMoves ==
  ASSUME FileInv, TrivialMove
  PROVE  UNCHANGED <<files, memory, bg_error_>> /\ Running /\ bg.pc # "install" /\ bg'.pc # "install"
<1>1. UNCHANGED <<files, memory, bg_error_>> /\ AtPick
  BY DEF TrivialMove
<1> DEFINE edit(f) == Edit({}, {f}, {f}, versions.log_number_, versions.next_file_number_, versions.last_sequence_)
<1>2. PICK f \in versions.current.l0 : bg' = [bg EXCEPT !.pc = "manifest", !.edit = edit(f)]
  BY DEF TrivialMove, edit
<1> HIDE DEF edit
<1>3. bg \in BgType
  BY DEF FileInv, FileTypes
<1>4. bg'.pc = "manifest"
  BY <1>2, <1>3 DEF BgType
<1> QED BY <1>1, <1>4 DEF AtPick, AtBackground

\* So does the choice of inputs.
LEMMA PickPicks ==
  ASSUME FileInv, PickCompaction
  PROVE  UNCHANGED <<files, memory, bg_error_>> /\ Running /\ bg.pc # "install" /\ bg'.pc # "install"
<1>1. UNCHANGED <<files, memory, bg_error_>> /\ AtPick
  BY DEF PickCompaction
<1>2. PICK pick \in Picks :
        bg' = [bg EXCEPT !.pc = "compact", !.inputs = Files(pick), !.is_manual = is_manual,
                         !.inputVersion = versions.current]
  BY DEF PickCompaction
<1>3. bg \in BgType
  BY DEF FileInv, FileTypes
<1>4. bg'.pc = "compact"
  BY <1>2, <1>3 DEF BgType
<1> QED BY <1>1, <1>4 DEF AtPick, AtBackground

\* The MANIFEST stays sound in a compaction, up to the write of the edit.
LEMMA ManifestCompaction ==
  ASSUME DBAssumption, FileInv, ManifestInv,
         \/ NoBackgroundWork \/ NothingToCompact \/ TrivialMove \/ PickCompaction \/ AbandonCompaction
         \/ OpenCompactionOutputFile \/ FinishCompactionOutputFile \/ FinishCompaction
  PROVE  ManifestInv'
<1>0. /\ versions \in [current : VersionType, log_number_ : Nat, next_file_number_ : Nat, last_sequence_ : Nat]
      /\ bg \in BgType
  BY DEF FileInv, FileTypes
<1>1. CASE NoBackgroundWork \/ NothingToCompact
  <2>1. /\ UNCHANGED <<tables, manifest, msynced, versions, bg_error_>> /\ Running /\ bg.pc = "scheduled"
        /\ \E th : EndCall(th)
    BY <1>1 DEF NoBackgroundWork, NothingToCompact, AtPick, AtBackground, files, memory
  <2>2. bg'.pc # "install"
    BY <2>1, EndIsIdle DEF BgIdle
  <2> QED BY <2>1, <2>2, ManifestTables
<1>2. CASE TrivialMove \/ PickCompaction \/ AbandonCompaction
  <2>1. UNCHANGED <<files, memory, bg_error_>> /\ Running /\ bg.pc # "install" /\ bg'.pc # "install"
    <3>1. CASE AbandonCompaction
      BY <1>0, <3>1 DEF AbandonCompaction, shutting_down_, Running, BgType
    <3> QED BY <1>2, <3>1, MoveMoves, PickPicks
  <2>3. UNCHANGED <<tables, manifest, msynced, versions>>
    BY <2>1 DEF files, memory
  <2> QED BY <2>1, <2>3, ManifestTables
<1>3. CASE OpenCompactionOutputFile
  <2> DEFINE number == versions.next_file_number_
  <2>1. /\ UNCHANGED <<manifest, msynced, bg_error_>> /\ Running /\ bg.pc = "compact"
        /\ versions'.current = versions.current
        /\ tables' = tables \/ tables' = With(tables, number, {})
    BY <1>0, <1>3 DEF OpenCompactionOutputFile, AtBackground
  <2>2. bg'.pc # "install"
    BY <1>0, <1>3 DEF OpenCompactionOutputFile, BgType
  <2>3. number \notin DOMAIN tables
    BY <1>0, <2>1 DEF FileInv, OpenFiles, NumbersAreOld
  <2> HIDE DEF number
  <2>4. \A f \in DOMAIN tables : f # number => f \in DOMAIN tables' /\ tables'[f] = tables[f]
    BY <2>1 DEF With
  <2>5. (\A n \in Left : number \notin Named(n)) /\ number \notin Files(versions.current)
    BY <2>1, <2>3, ManifestInvFacts DEF FileInv, OpenFiles, InUse
  <2> QED BY <2>1, <2>2, <2>4, <2>5, ManifestSame
<1>4. CASE FinishCompactionOutputFile
  <2>1. /\ UNCHANGED <<manifest, msynced, versions, bg_error_>> /\ Running /\ bg.pc = "writing"
        /\ tables' = tables \/ \E table : tables' = [tables EXCEPT ![bg.output] = table]
    BY <1>4 DEF FinishCompactionOutputFile, AtBackground, memory
  <2>2. bg'.pc # "install"
    BY <1>0, <1>4 DEF FinishCompactionOutputFile, BgType
  <2>3. (\A n \in Left : bg.output \notin Named(n)) /\ bg.output \notin Files(versions.current)
    BY <2>1 DEF FileInv, OpenFiles, CompactionIsRight, Writing
  <2>4. \A f \in DOMAIN tables : f # bg.output => f \in DOMAIN tables' /\ tables'[f] = tables[f]
    BY <2>1
  <2> QED BY <2>1, <2>2, <2>3, <2>4, ManifestSame
<1>5. CASE FinishCompaction /\ bg.status # "error"
  <2>1. UNCHANGED <<tables, manifest, msynced, versions, bg_error_>> /\ Running /\ bg.pc = "finish"
    BY <1>5 DEF FinishCompaction, AtBackground, files, memory
  <2>2. bg'.pc # "install"
    BY <1>0, <1>5 DEF FinishCompaction, BgType
  <2> QED BY <2>1, <2>2, ManifestTables
<1>6. CASE FinishCompaction /\ bg.status = "error"
  <2>1. /\ CompactionEnds /\ versions' = versions /\ Running /\ bg_error_' /\ UNCHANGED <<tables, manifest, msynced>>
    BY <1>6 DEF FinishCompaction, AtBackground, CompactionEnds
  <2>2. bg'.pc # "install"
    BY <2>1, CompactionEndsIdle DEF BgIdle
  <2> QED BY <2>1, <2>2, ManifestTables
<1> QED BY <1>1, <1>2, <1>3, <1>4, <1>5, <1>6

\* And in every step of the background thread.
LEMMA ManifestBackgroundStep ==
  ASSUME DBAssumption, FileInv, ManifestInv, BackgroundStep
  PROVE  ManifestInv'
<1>1. FileTypes
  BY DEF FileInv
<1>2. CASE InstallFlush
  <2>1. /\ UNCHANGED <<manifest, msynced, phase, pending_outputs_>>
        /\ Running /\ bg.pc = "install" /\ bg.out # Nil /\ InstallVersion /\ FlushReturns
        /\ bg_error_' = (bg_error_ \/ bg.status = "error")
        /\ IF bg_error_' THEN UNCHANGED <<logs, tables>>
           ELSE DeleteObsoleteFiles(versions'.current, bg, pending_outputs_, versions'.log_number_, tables)
    BY <1>2 DEF InstallFlush, AtBackground
  <2>2. bg'.pc # "install"
    <3>1. Flushing
      BY <2>1 DEF Flushing, InManifest
    <3> QED BY <2>1, <3>1, IdleOrCalled
  <2> DEFINE kept == Files(versions'.current) \cup Pins(bg) \cup pending_outputs_
  <2>3. FilesLeft(kept, versions'.log_number_)
    BY <1>1, <2>1, UnchangedLeft, DeletedLeft
  <2>4. Files(versions'.current) \subseteq kept
    OBVIOUS
  <2> HIDE DEF kept
  <2> QED BY <2>1, <2>2, <2>3, <2>4, ManifestInstalled
<1>3. CASE InstallCompaction
  <2>1. /\ CompactionEnds /\ InstallVersion /\ Running /\ bg.pc = "install"
        /\ UNCHANGED <<manifest, msynced, phase>>
        /\ bg_error_' = (bg_error_ \/ bg.status = "error")
        /\ bg_error_' => UNCHANGED <<logs, tables>>
        /\ \/ UNCHANGED <<logs, tables>>
           \/ DeleteObsoleteFiles(versions'.current, BackgroundOff, pending_outputs_', versions'.log_number_, tables)
    BY <1>3 DEF InstallCompaction, AtBackground, CompactionEnds
  <2>2. bg'.pc # "install"
    BY <2>1, CompactionEndsIdle DEF BgIdle
  <2> DEFINE kept == Files(versions'.current) \cup Pins(BackgroundOff) \cup pending_outputs_'
  <2>3. FilesLeft(kept, versions'.log_number_)
    BY <1>1, <2>1, UnchangedLeft, DeletedLeft
  <2>4. Files(versions'.current) \subseteq kept
    OBVIOUS
  <2> HIDE DEF kept
  <2> QED BY <2>1, <2>2, <2>3, <2>4, ManifestInstalled
<1> QED BY <1>2, <1>3, ManifestEdited, ManifestFlush, ManifestCompaction DEF BackgroundStep

\* Crashes and recovery.
LEMMA ManifestNext ==
  ASSUME DBAssumption, FileInv, ManifestInv, [Next]_vars
  PROVE  ManifestInv'
<1>1. CASE \E t \in Threads : ThreadStep(t) \/ CompactRange(t) \/ \E sync \in Syncs : Write(t, sync)
  BY <1>1, ManifestClientStep
<1>2. CASE RefVersion \/ UnrefVersion \/ Close
  <2>1. UNCHANGED <<tables, manifest, msynced, versions, bg_error_, bg>>
    BY <1>2 DEF RefVersion, UnrefVersion, Close, files, memory
  <2>2. Running' => Running
    BY <1>2 DEF RefVersion, UnrefVersion, Close, Running
  <2> QED BY <2>1, <2>2, ManifestTables
<1>3. CASE Closed \/ ProcessStops \/ OpenFails
  <2>1. UNCHANGED <<tables, manifest, msynced>> /\ ~Running'
    BY <1>3 DEF Closed, ProcessStops, OpenFails, Stops, Gone, files, Running
  <2> QED BY <2>1, ManifestTables
<1>4. CASE MachineCrashes
  <2>1. PICK n \in Left : Left' = {n} /\ msynced' = n /\ Named(n)' = Named(n)
    BY <1>4, CrashLeaves
  <2>2. ~Running' /\ tables' = tables
    BY <1>4 DEF MachineCrashes, Gone, Running
  <2>3. Named(n) \subseteq DOMAIN tables
    BY ManifestInvFacts
  <2>4. \A k : k = n => Named(k)' = Named(n)
    BY <2>1
  <2>5. \A k : k = msynced' => Named(k)' = Named(msynced)'
    BY DEF Named
  <2> QED BY <2>1, <2>2, <2>3, <2>4, <2>5, ManifestInvFactsNext
<1>5. CASE Recover
  <2>1. UNCHANGED <<tables, manifest, msynced>> /\ ~Running'
    BY <1>5 DEF Recover, files, Running
  <2> QED BY <2>1, ManifestTables
<1>6. CASE RecoverLogFile
  <2> DEFINE number == versions.next_file_number_
             last == Len(manifest)
  <2>1. /\ UNCHANGED <<manifest, msynced>> /\ phase = "recovering" /\ phase' = "recovering"
        /\ \E r : tables' = With(tables, number, r) \/ tables' = tables
    BY <1>6 DEF RecoverLogFile
  <2>2. \A f \in DOMAIN tables : f # number => f \in DOMAIN tables' /\ tables'[f] = tables[f]
    BY <2>1 DEF With
  <2>3. ASSUME NEW n \in Left PROVE number \notin Named(n)
    <3>1. (\A f \in Named(n) : f < manifest[n].next) /\ manifest[n].next <= manifest[last].next
      BY DEF FileInv, ManifestNumbers
    <3>2. manifest[last].next < number
      BY <2>1 DEF FileInv, RecoveredFiles
    <3>3. manifest[n] \in EditType /\ manifest[last] \in EditType /\ number \in Nat
      BY DEF FileInv, FileTypes, Left
    <3>4. Named(n) \subseteq Nat
      BY ManifestInvFacts DEF FileInv, FileTypes
    <3> QED BY <3>1, <3>2, <3>3, <3>4 DEF EditType
  <2>4. ~Running /\ ~Running'
    BY <2>1 DEF Running
  <2> QED BY <2>1, <2>2, <2>3, <2>4, ManifestSame
<1>7. CASE OpenNewLog
  <2>1. UNCHANGED <<tables, manifest, msynced>> /\ ~Running'
    BY <1>7 DEF OpenNewLog, Running
  <2> QED BY <2>1, ManifestTables
<1>8. CASE Install
  <2>1. /\ Len(manifest') = 1 /\ msynced' = 1 /\ Left' = {1}
        /\ Named(1)' = Files(versions'.current) /\ Files(versions'.current) = Files(versions.current) \cup bg.edit.l0
        /\ FilesLeft(Files(versions'.current), logfile_number_) /\ RecoveredFiles
        /\ \E p \in BgIdle : bg' = [BackgroundOff EXCEPT !.pc = p]
    BY <1>8, Opened
  <2>2. Files(versions'.current) \subseteq DOMAIN tables'
    BY <2>1 DEF FilesLeft, RecoveredFiles
  <2>3. \A k : k = 1 => Named(k)' = Files(versions'.current)
    BY <2>1
  <2>4. Named(msynced)' = Files(versions'.current) /\ Named(Len(manifest))' = Files(versions'.current)
    <3>1. (\A k : k = msynced' => Named(k)' = Named(msynced)') /\ (\A k : k = Len(manifest') => Named(k)' = Named(Len(manifest))')
      BY DEF Named
    <3> QED BY <2>1, <2>3, <3>1
  <2>5. bg'.pc # "install"
    <3>1. PICK p \in BgIdle : bg' = [BackgroundOff EXCEPT !.pc = p]
      BY <2>1
    <3>2. p \in BgPCs
      BY DEF BgPCs, BgIdle
    <3> QED BY <3>1, <3>2, IdleBackground DEF BgIdle
  <2>6. ManifestIsCurrent'
    <3>1. Files(versions.current)' = Files(versions'.current)
      BY DEF Files
    <3> QED BY <2>1, <2>4, <2>5, <3>1 DEF ManifestIsCurrent
  <2> QED BY <2>1, <2>2, <2>3, <2>4, <2>6, ManifestInvFactsNext
<1>9. CASE UNCHANGED vars
  <2>1. UNCHANGED <<tables, manifest, msynced, versions, bg_error_, bg>> /\ (Running' => Running)
    BY <1>9 DEF vars, files, memory, Running
  <2> QED BY <2>1, ManifestTables
<1> QED BY <1>1, <1>2, <1>3, <1>4, <1>5, <1>6, <1>7, <1>8, <1>9, ManifestBackgroundStep DEF Next

\* The MANIFEST of a new database is sound.
LEMMA ManifestInit ==
  ASSUME DBAssumption, Init
  PROVE  ManifestInv
<1> DEFINE edit == Edit({}, {}, {}, 3, 4, 0)
<1>1. edit.l0 = {} /\ edit.deep = {} /\ edit \in EditType
  BY DEF Edit, EditType
<1> HIDE DEF edit
<1>2. manifest = <<edit>> /\ msynced = 1 /\ Len(manifest) = 1 /\ Left = {1}
  BY DEF Init, Left, edit
<1>3. Named(1) = {}
  <2>1. VersionOf(<<edit>>, 1) = [l0 |-> edit.l0, deep |-> edit.deep]
    BY <1>1, VersionOfSnapshot
  <2> QED BY <1>1, <1>2, <2>1 DEF Named, Files
<1>4. Files(versions.current) = {} /\ bg.pc = "off"
  BY NoFilesFacts, OffIsIdle DEF Init
<1>5. HeldIn(tables, {}) = {}
  BY DEF HeldIn
<1>6. ManifestIsCurrent
  BY <1>2, <1>3, <1>4 DEF ManifestIsCurrent
<1> QED BY <1>2, <1>3, <1>4, <1>5, <1>6, ManifestInvFacts

\* Whatever part of the MANIFEST a machine crash leaves, the tables that it names exist.
THEOREM ManifestIsSound == DBAssumption => (Spec => []ManifestNamesFiles)
<1> SUFFICES ASSUME DBAssumption PROVE Spec => []ManifestNamesFiles
  OBVIOUS
<1>1. Init => FileInv /\ ManifestInv
  BY FileInit, ManifestInit
<1>2. QueueInv /\ FileInv /\ ManifestInv /\ [Next]_vars => FileInv' /\ ManifestInv'
  BY FileNext, ManifestNext
<1>3. Spec => []QueueInv
  BY QueueIsRight
<1>4. ManifestInv => ManifestNamesFiles
  BY DEF ManifestInv
<1> QED BY <1>1, <1>2, <1>3, <1>4, PTL DEF Spec

-------------------------------------------------------------------------------
(* Writes: the group that is written *)

\* The group of a thread is what it was if the writers that were in the queue are.
LEMMA GroupKept ==
  ASSUME QueueInv, QueueInv', NEW t \in Threads, thread[t].pc \in Leading,
         thread'[t].last = thread[t].last,
         \A i \in DOMAIN writers_ : /\ i \in DOMAIN writers_' /\ writers_'[i] = writers_[i]
                                    /\ thread'[writers_[i]].batch = thread[writers_[i]].batch,
         versions'.last_sequence_ = versions.last_sequence_
  PROVE  GroupEntries(t)' = GroupEntries(t)
<1>1. PICK n \in DOMAIN writers_ :
           /\ writers_[n] = thread[t].last
           /\ GroupWriters(t) = {i \in 1..n : thread[writers_[i]].batch # Nil}
  BY GroupPlaces
<1>2. n \in Nat /\ \A i \in 1..n : i \in DOMAIN writers_
  <2>1. writers_ \in Seq(Threads)
    BY DEF QueueInv, QueueTypes
  <2> QED BY <2>1
<1>3. n \in DOMAIN writers_' /\ writers_'[n] = thread'[t].last
  BY <1>1
<1>4. \A i \in DOMAIN writers_' : writers_'[i] = thread'[t].last => i = n
  BY <1>3 DEF QueueInv, QueueIsSet
<1>5. (CHOOSE i \in DOMAIN writers_' : writers_'[i] = thread'[t].last) = n
  BY <1>3, <1>4
<1>6. GroupWriters(t)' = {i \in 1..n : thread'[writers_'[i]].batch # Nil}
  BY <1>5 DEF GroupWriters
<1>7. GroupWriters(t)' = GroupWriters(t)
  BY <1>1, <1>2, <1>6
<1>8. \A i \in GroupWriters(t) : thread'[writers_'[i]].batch = thread[writers_[i]].batch
  BY <1>1, <1>2
<1> DEFINE entry(i) == Entry(versions.last_sequence_ + Cardinality(GroupWriters(t) \cap 1..i), thread[writers_[i]].batch)
           entryNext(i) == Entry(versions'.last_sequence_ + Cardinality(GroupWriters(t)' \cap 1..i), thread'[writers_'[i]].batch)
<1>9. GroupEntries(t) = {entry(i) : i \in GroupWriters(t)} /\ GroupEntries(t)' = {entryNext(i) : i \in GroupWriters(t)'}
  BY DEF GroupEntries
<1>10. \A i \in GroupWriters(t) : entryNext(i) = entry(i)
  BY <1>7, <1>8
<1> HIDE DEF entry, entryNext
<1> QED BY <1>7, <1>9, <1>10

\* No group that may be in the log changes.
GroupsStay ==
  \A t \in Threads :
    /\ thread'[t].pc \in Logging <=> thread[t].pc \in Logging
    /\ thread[t].pc \in Logging =>
         /\ thread'[t].pc = thread[t].pc /\ thread'[t].sync = thread[t].sync /\ thread'[t].status = thread[t].status
         /\ GroupEntries(t)' = GroupEntries(t)

\* Groups that are in the log stay if the queue only grows at its end.
LEMMA GroupsKept ==
  ASSUME QueueInv, QueueInv', versions'.last_sequence_ = versions.last_sequence_,
         \A i \in DOMAIN writers_ : /\ i \in DOMAIN writers_' /\ writers_'[i] = writers_[i]
                                    /\ thread'[writers_[i]].batch = thread[writers_[i]].batch,
         \A t \in Threads :
           /\ thread'[t].pc \in Logging <=> thread[t].pc \in Logging
           /\ thread[t].pc \in Logging =>
                /\ thread'[t].pc = thread[t].pc /\ thread'[t].sync = thread[t].sync
                /\ thread'[t].status = thread[t].status /\ thread'[t].last = thread[t].last
  PROVE  GroupsStay
<1> SUFFICES ASSUME NEW t \in Threads, thread[t].pc \in Logging
             PROVE  GroupEntries(t)' = GroupEntries(t)
  BY DEF GroupsStay
<1>1. thread[t].pc \in Leading /\ thread'[t].last = thread[t].last
  BY DEF Logging, Leading
<1> QED BY <1>1, GroupKept

\* While a thread is at the front and does not log, none does.
LEMMA NoneLogs ==
  ASSUME QueueInv, NEW t \in Threads, thread[t].pc \in AtFront, thread[t].pc \notin Logging
  PROVE  \A u \in Threads : thread[u].pc \notin Logging
BY QueueFront DEF AtFront, Logging

\* A group in the log is the only one.
LEMMA OnlyOneLogs ==
  ASSUME QueueInv, NEW t \in Threads, thread[t].pc \in Logging
  PROVE  \A u \in Threads : u # t => thread[u].pc \notin Logging
BY QueueFront DEF AtFront, Logging

\* Nothing is to show where no thread logs.
LEMMA NoGroups ==
  ASSUME \A t \in Threads : thread[t].pc \notin Logging /\ thread'[t].pc \notin Logging
  PROVE  GroupsStay
BY DEF GroupsStay

\* The end of a Write of the front.
LEMMA NoneLogsThen ==
  ASSUME QueueInv, NEW t \in Threads, thread[t].pc \in AtFront,
         NEW last, NEW status \in {"ok", "error"}, NEW th \in [Threads -> ThreadType],
         \A u \in Threads : Wakes(thread[u], th[u]), Pop(t, last, status, th)
  PROVE  \A u \in Threads : thread'[u].pc \notin Logging
<1>1. PICK n \in DOMAIN writers_ : Popped(n, t)
  BY PopThreads
<1> SUFFICES ASSUME NEW u \in Threads PROVE thread'[u].pc \notin Logging
  OBVIOUS
<1>2. CASE u = t
  BY <1>1, <1>2 DEF Popped, Logging
<1>3. CASE u # t /\ \E i \in 1..n : writers_[i] = u
  BY <1>1, <1>3 DEF Popped, Logging
<1>4. CASE u # t /\ ~\E i \in 1..n : writers_[i] = u
  <2>1. thread[u].pc \notin AtFront
    BY <1>4, QueueFront
  <2> QED BY <1>1, <1>4, <2>1 DEF Popped, Logging, AtFront
<1> QED BY <1>2, <1>3, <1>4

\* A step of a thread that does not log.
LEMMA OtherGroups ==
  ASSUME QueueInv, QueueInv', NEW t \in Threads, NEW w, thread' = [thread EXCEPT ![t] = w],
         thread[t].pc \notin Logging, w.pc \notin Logging,
         \A i \in DOMAIN writers_ : i \in DOMAIN writers_' /\ writers_'[i] = writers_[i],
         w.batch = thread[t].batch \/ \A i \in DOMAIN writers_ : writers_[i] # t,
         versions'.last_sequence_ = versions.last_sequence_
  PROVE  GroupsStay
<1>1. thread \in [Threads -> ThreadType] /\ \A i \in DOMAIN writers_ : writers_[i] \in Threads
  <2>1. writers_ \in Seq(Threads)
    BY DEF QueueInv, QueueTypes
  <2> QED BY <2>1 DEF QueueInv, QueueTypes
<1>2. thread'[t] = w /\ \A u \in Threads : u # t => thread'[u] = thread[u]
  BY <1>1
<1>3. \A i \in DOMAIN writers_ : thread'[writers_[i]].batch = thread[writers_[i]].batch
  BY <1>1, <1>2
<1>4. \A u \in Threads :
           /\ thread'[u].pc \in Logging <=> thread[u].pc \in Logging
           /\ thread[u].pc \in Logging =>
                /\ thread'[u].pc = thread[u].pc /\ thread'[u].sync = thread[u].sync
                /\ thread'[u].status = thread[u].status /\ thread'[u].last = thread[u].last
  BY <1>2
<1> QED BY <1>3, <1>4, GroupsKept

\* A thread that joins the queue changes no group.
LEMMA EnqueuedGroups ==
  ASSUME QueueInv, QueueInv', NEW t \in Threads, NEW sync, NEW batch, Enqueue(t, sync, batch),
         versions' = versions
  PROVE  GroupsStay
<1> DEFINE w == [Idle EXCEPT !.pc = IF writers_ = << >> THEN "room" ELSE "cv_wait",
                    !.sync = sync, !.batch = batch, !.force = batch = Nil, !.allow_delay = batch # Nil]
<1>1. thread[t].pc = "idle" /\ writers_' = Append(writers_, t) /\ thread' = [thread EXCEPT ![t] = w]
  BY DEF Enqueue
<1>2. w.pc \in {"room", "cv_wait"}
  BY DEF Idle
<1>3. \A i \in DOMAIN writers_ : i \in DOMAIN writers_' /\ writers_'[i] = writers_[i]
  <2>1. writers_ \in Seq(Threads)
    BY DEF QueueInv, QueueTypes
  <2> QED BY <1>1, <2>1
<1>4. \A i \in DOMAIN writers_ : writers_[i] # t
  BY <1>1, NotQueued
<1> HIDE DEF w
<1>5. thread[t].pc \notin Logging /\ w.pc \notin Logging
  BY <1>1, <1>2 DEF Logging
<1> QED BY <1>1, <1>3, <1>4, <1>5, OtherGroups

\* Nor does a thread that is woken.
LEMMA WokenGroups ==
  ASSUME QueueInv, QueueInv', DBAssumption, NEW t \in Threads, Woken(t)
  PROVE  GroupsStay
<1>0. thread[t].pc = "woken" /\ writers_' = writers_ /\ versions' = versions /\ thread[t] \in ThreadType
  BY DEF Woken, memory, QueueInv, QueueTypes
<1>1. CASE thread[t].done
  <2> DEFINE w == Returns(thread[t], thread[t].status)
  <2>1. thread' = [thread EXCEPT ![t] = w]
    BY <1>1 DEF Woken
  <2>2. w.pc \in {"idle", "flush", "manual"}
    BY ReturnsFields
  <2>3. \A i \in DOMAIN writers_ : writers_[i] # t
    BY <1>1, NotQueued
  <2> HIDE DEF w
  <2>4. thread[t].pc \notin Logging /\ w.pc \notin Logging
    BY <1>0, <2>2 DEF Logging
  <2> QED BY <1>0, <2>1, <2>3, <2>4, OtherGroups
<1>2. CASE ~thread[t].done
  <2> DEFINE w == [thread[t] EXCEPT !.pc = IF Head(writers_) = t THEN "room" ELSE "cv_wait"]
  <2>1. thread' = [thread EXCEPT ![t] = w]
    BY <1>2 DEF Woken
  <2>2. w.pc \in {"room", "cv_wait"} /\ w.batch = thread[t].batch
    BY <1>0 DEF ThreadType
  <2> HIDE DEF w
  <2>4. thread[t].pc \notin Logging /\ w.pc \notin Logging
    BY <1>0, <2>2 DEF Logging
  <2> QED BY <1>0, <2>1, <2>2, <2>4, OtherGroups
<1> QED BY <1>1, <1>2

\* The steps of the front of the queue before it logs.
LEMMA RoomGroups ==
  ASSUME QueueInv, NEW t \in Threads,
         RoomFails(t) \/ Delay(t) \/ WaitForRoom(t) \/ SwitchMemTable(t) \/ BeginLogging(t)
  PROVE  GroupsStay /\ \A u \in Threads : thread[u].pc \notin Logging /\ thread'[u].pc \notin Logging
<1>0. thread[t].pc = "room" /\ thread \in [Threads -> ThreadType]
  BY DEF RoomFails, Delay, WaitForRoom, SwitchMemTable, BeginLogging, AtRoom, QueueInv, QueueTypes
<1>1. thread[t].pc \in AtFront /\ thread[t].pc \notin Logging
  BY <1>0 DEF AtFront, Logging
<1>2. \A u \in Threads : thread[u].pc \notin Logging
  BY <1>1, NoneLogs
<1>3. \A u \in Threads : Wakes(thread[u], thread[u])
  BY DEF Wakes
<1>4. ASSUME NEW pc \in {"room", "room_wait", "log"}, thread'[t].pc = pc,
             \A u \in Threads : u # t => thread'[u] = thread[u]
      PROVE  \A u \in Threads : thread'[u].pc \notin Logging
  BY <1>2, <1>4 DEF Logging
<1>5. CASE RoomFails(t) \/ (BeginLogging(t) /\ thread[t].batch = Nil)
  <2>1. PICK status \in {"error", "ok"} : Pop(t, t, status, thread)
    BY <1>5 DEF RoomFails, BeginLogging
  <2>2. \A u \in Threads : thread'[u].pc \notin Logging
    BY <1>0, <1>1, <1>3, <2>1, NoneLogsThen
  <2> QED BY <1>2, <2>2, NoGroups
<1>6. CASE Delay(t) \/ WaitForRoom(t) \/ SwitchMemTable(t)
  <2>1. /\ thread'[t].pc = "room" \/ thread'[t].pc = "room_wait"
        /\ \A u \in Threads : u # t => thread'[u] = thread[u]
    BY <1>0, <1>6 DEF Delay, WaitForRoom, SwitchMemTable, ThreadType
  <2>2. \A u \in Threads : thread'[u].pc \notin Logging
    BY <1>4, <2>1
  <2> QED BY <1>2, <2>2, NoGroups
<1>7. CASE BeginLogging(t) /\ thread[t].batch # Nil
  <2>1. PICK n \in BuildBatchGroup : thread' = [thread EXCEPT ![t].pc = "log", ![t].last = writers_[n]]
    BY <1>7 DEF BeginLogging
  <2>2. thread'[t].pc = "log" /\ \A u \in Threads : u # t => thread'[u] = thread[u]
    BY <1>0, <2>1 DEF ThreadType
  <2>3. \A u \in Threads : thread'[u].pc \notin Logging
    BY <1>4, <2>2
  <2> QED BY <1>2, <2>3, NoGroups
<1> QED BY <1>5, <1>6, <1>7

\* Nor do the steps of CompactRange after its Write.
LEMMA RangeGroups ==
  ASSUME QueueInv, QueueInv', NEW t \in Threads, WaitForFlush(t) \/ ManualCompaction(t)
  PROVE  GroupsStay
<1>0. /\ thread[t].pc \in {"flush", "manual"} /\ thread[t] \in ThreadType /\ thread \in [Threads -> ThreadType]
      /\ writers_' = writers_ /\ versions' = versions
  BY DEF WaitForFlush, ManualCompaction, memory, QueueInv, QueueTypes
<1>1. \E w \in {Idle, thread[t], [thread[t] EXCEPT !.pc = "flush_wait"], [thread[t] EXCEPT !.pc = "manual"],
                [thread[t] EXCEPT !.pc = "manual_wait"]} : thread' = [thread EXCEPT ![t] = w]
  <2>1. thread = [thread EXCEPT ![t] = thread[t]]
    BY <1>0
  <2>2. CASE WaitForFlush(t)
    BY <2>2 DEF WaitForFlush
  <2>3. CASE ManualCompaction(t)
    BY <2>1, <2>3 DEF ManualCompaction
  <2> QED BY <2>2, <2>3
<1>2. PICK w \in {Idle, thread[t], [thread[t] EXCEPT !.pc = "flush_wait"], [thread[t] EXCEPT !.pc = "manual"],
                [thread[t] EXCEPT !.pc = "manual_wait"]} : thread' = [thread EXCEPT ![t] = w]
  BY <1>1
<1>3. w.pc \in {"idle", "flush", "manual", "flush_wait", "manual_wait"}
  BY <1>0 DEF ThreadType, Idle
<1>4. thread[t].pc \notin Logging /\ w.pc \notin Logging
  BY <1>0, <1>3 DEF Logging
<1>5. \A i \in DOMAIN writers_ : writers_[i] # t
  BY <1>0, NotQueued
<1> QED BY <1>0, <1>2, <1>4, <1>5, OtherGroups

\* Nor does the background thread.
LEMMA BackgroundGroups ==
  ASSUME QueueInv, QueueInv', DBAssumption, BackgroundStep, versions'.last_sequence_ = versions.last_sequence_
  PROVE  GroupsStay /\ writers_' = writers_
<1>0. /\ thread \in [Threads -> ThreadType] /\ writers_ \in Seq(Threads) /\ manual_compaction_ \in Threads \cup {Nil}
  BY DEF QueueInv, QueueTypes
<1>1. BackgroundWakes
  BY BackgroundWakesThreads
<1>2. PICK th \in {thread, [thread EXCEPT ![manual_compaction_].done = TRUE]} :
        (th # thread => manual_compaction_ # Nil) /\ thread' \in {th, SignalAll(th)}
  BY <1>1 DEF BackgroundWakes
<1>3. /\ th \in [Threads -> ThreadType]
      /\ \A u \in Threads : /\ th[u].pc = thread[u].pc /\ th[u].sync = thread[u].sync /\ th[u].status = thread[u].status
                            /\ th[u].last = thread[u].last /\ th[u].batch = thread[u].batch
  <2>1. CASE th = thread
    BY <1>0, <2>1
  <2>2. CASE th # thread
    <3>1. manual_compaction_ \in Threads /\ thread[manual_compaction_] \in ThreadType
      BY <1>0, <1>2, <2>2
    <3> DEFINE w == [thread[manual_compaction_] EXCEPT !.done = TRUE]
    <3>2. w \in ThreadType /\ w.pc = thread[manual_compaction_].pc /\ w.sync = thread[manual_compaction_].sync
          /\ w.status = thread[manual_compaction_].status /\ w.last = thread[manual_compaction_].last
          /\ w.batch = thread[manual_compaction_].batch
      BY <3>1 DEF ThreadType
    <3>3. th = [thread EXCEPT ![manual_compaction_] = w]
      BY <1>2, <2>2
    <3> HIDE DEF w
    <3> QED BY <1>0, <3>1, <3>2, <3>3
  <2> QED BY <2>1, <2>2
<1>4. \A u \in Threads : Wakes(th[u], thread'[u])
  BY <1>2, <1>3, SignalAllWakes DEF Wakes
<1>5. ASSUME NEW u \in Threads
      PROVE  /\ thread'[u].pc \in Logging <=> thread[u].pc \in Logging
             /\ thread'[u].batch = thread[u].batch
             /\ thread[u].pc \in Logging =>
                /\ thread'[u].pc = thread[u].pc /\ thread'[u].sync = thread[u].sync
                /\ thread'[u].status = thread[u].status /\ thread'[u].last = thread[u].last
  <2>1. th[u] \in ThreadType /\ Wakes(th[u], thread'[u])
    BY <1>3, <1>4
  <2> DEFINE v == thread'[u]
             x == th[u]
  <2>2. /\ v.batch = x.batch /\ v.sync = x.sync /\ v.status = x.status /\ v.last = x.last
        /\ v.pc = x.pc \/ (x.pc = "room_wait" /\ v.pc = "room") \/ (x.pc = "flush_wait" /\ v.pc = "flush")
              \/ (x.pc = "manual_wait" /\ v.pc = "manual")
    <3> HIDE DEF v, x
    <3>1. x \in ThreadType /\ Wakes(x, v)
      BY <2>1 DEF v, x
    <3> QED BY <3>1, WakesFields
  <2> QED BY <1>3, <2>2 DEF Logging
<1>6. writers_' = writers_ /\ \A i \in DOMAIN writers_ : writers_[i] \in Threads
  BY <1>0, <1>1 DEF BackgroundWakes
<1> QED BY <1>5, <1>6, GroupsKept


-------------------------------------------------------------------------------
(* Writes: steps that log nothing *)

\* What a log holds is in the logs.
LEMMA RecordsIn ==
  ASSUME NEW lg, NEW n \in DOMAIN lg
  PROVE  Records(lg[n]) \subseteq AllRecords(lg)
BY DEF AllRecords

\* What is synced of a log is in it.
LEMMA SyncedIn ==
  ASSUME NEW log \in LogType, log.synced <= Len(log.recs)
  PROVE  SyncedRecords(log) \subseteq Records(log)
<1>1. log.recs \in Seq(SUBSET Entries) /\ log.synced \in Nat
  BY DEF LogType
<1>2. 1..log.synced \subseteq DOMAIN log.recs
  BY <1>1
<1> QED BY <1>2 DEF SyncedRecords, Records

\* A part of writes with different sequence numbers.
LEMMA UniqueIn ==
  ASSUME NEW S, NEW T, S \subseteq T, Unique(T)
  PROVE  Unique(S)
BY DEF Unique

\* A part of writes up to a sequence number.
LEMMA UpToIn ==
  ASSUME NEW S, NEW T, NEW seq, S \subseteq T, UpTo(T, seq)
  PROVE  UpTo(S, seq)
BY DEF UpTo

\* The parts of the invariant that are about an open database.
LEMMA RunningWrites ==
  ASSUME Running', durable' \subseteq owed', ManifestSequences', OpenWrites'
  PROVE  WriteInv'
BY DEF WriteInv, Running

\* No write is lost if logs are only deleted, the memtable imm_ only when its table is in the
\* current version, and tables only hold what they or imm_ held.
LEMMA OpenWritesKept ==
  ASSUME FileInv, FileInv', WriteInv, Running, Running', GroupsStay,
         UNCHANGED <<mem, logfile_number_, owed, durable>>,
         versions'.last_sequence_ = versions.last_sequence_,
         \A n \in DOMAIN logs' : n \in DOMAIN logs /\ logs'[n] = logs[n],
         HeldIn(tables, Files(versions.current)) \subseteq HeldIn(tables', Files(versions'.current)),
         \/ imm' = imm /\ versions'.log_number_ = versions.log_number_
         \/ /\ imm' = {} /\ versions'.log_number_ = logfile_number_
            /\ UNION imm \subseteq HeldIn(tables', Files(versions'.current)),
         InTables(tables') \subseteq InTables(tables) \cup UNION imm,
         LogsAreReplayed', ManifestSequences', EditSequences',
         \A n \in Left' : manifest'[n].seq <= versions'.last_sequence_
  PROVE  WriteInv'
<1> DEFINE current == HeldIn(tables, Files(versions.current))
           currentNext == HeldIn(tables', Files(versions'.current))
           log == logs[logfile_number_]
           old == logs[versions.log_number_]
           oldNext == logs'[versions'.log_number_]
<1>0. OpenWrites /\ durable \subseteq owed
  BY DEF WriteInv
<1>1. /\ logfile_number_ \in DOMAIN logs' /\ versions'.log_number_ \in DOMAIN logs'
      /\ versions.log_number_ \in DOMAIN logs /\ logfile_number_ \in DOMAIN logs
  BY DEF FileInv, OpenFiles, LogNumbers
<1>2. logs'[logfile_number_'] = log
  BY <1>1
<1>3. \/ imm' = imm /\ oldNext = old
      \/ imm' = {} /\ UNION imm \subseteq currentNext
  BY <1>1
<1>4. current \subseteq currentNext
  OBVIOUS
<1>5. /\ mem \subseteq Records(log) /\ UNION imm \subseteq Records(old)
      /\ durable \subseteq (mem \cap SyncedRecords(log)) \cup ((UNION imm) \cap SyncedRecords(old)) \cup current
      /\ owed \subseteq mem \cup (UNION imm) \cup current
  BY <1>0 DEF OpenWrites, MemoryIsLogged, DurableIsSynced
<1> HIDE DEF current, currentNext, log, old, oldNext
<1>6. /\ mem' \subseteq Records(log) /\ UNION imm' \subseteq Records(oldNext)
      /\ durable' \subseteq (mem' \cap SyncedRecords(log)) \cup ((UNION imm') \cap SyncedRecords(oldNext)) \cup currentNext
      /\ owed' \subseteq mem' \cup (UNION imm') \cup currentNext
  BY <1>3, <1>4, <1>5
<1>7. MemoryIsLogged' /\ DurableIsSynced' /\ owed' \subseteq mem' \cup (UNION imm') \cup HeldIn(tables', Files(versions'.current))
  BY <1>2, <1>6 DEF MemoryIsLogged, DurableIsSynced, currentNext, oldNext
<1>8. GroupIsLogged'
  <2> SUFFICES ASSUME NEW t \in Threads
               PROVE  /\ thread'[t].pc \in {"sync", "insert"} => GroupEntries(t)' \subseteq Records(logs'[logfile_number_'])
                      /\ thread'[t].pc = "insert" /\ thread'[t].sync => GroupEntries(t)' \subseteq SyncedRecords(logs'[logfile_number_'])
                      /\ thread'[t].pc = "finish" /\ thread'[t].status = "ok" =>
                           /\ GroupEntries(t)' \subseteq mem'
                           /\ thread'[t].sync => GroupEntries(t)' \subseteq SyncedRecords(logs'[logfile_number_'])
    BY DEF GroupIsLogged
  <2>1. CASE thread[t].pc \notin Logging
    BY <2>1 DEF GroupsStay, Logging
  <2>2. CASE thread[t].pc \in Logging
    <3>1. /\ thread'[t].pc = thread[t].pc /\ thread'[t].sync = thread[t].sync /\ thread'[t].status = thread[t].status
          /\ GroupEntries(t)' = GroupEntries(t)
      BY <2>2 DEF GroupsStay
    <3>2. /\ thread[t].pc \in {"sync", "insert"} => GroupEntries(t) \subseteq Records(log)
          /\ thread[t].pc = "insert" /\ thread[t].sync => GroupEntries(t) \subseteq SyncedRecords(log)
          /\ thread[t].pc = "finish" /\ thread[t].status = "ok" =>
               /\ GroupEntries(t) \subseteq mem
               /\ thread[t].sync => GroupEntries(t) \subseteq SyncedRecords(log)
      BY <1>0 DEF OpenWrites, GroupIsLogged, log
    <3> QED BY <1>2, <3>1, <3>2
  <2> QED BY <2>1, <2>2
<1>9. SequencesAreUsed'
  <2>0. SequencesAreUsed
    BY <1>0 DEF OpenWrites
  <2>1. AllRecords(logs') \subseteq AllRecords(logs)
    BY DEF AllRecords
  <2>2. UNION imm \subseteq AllRecords(logs)
    BY <1>1, <1>5, RecordsIn DEF old
  <2>3. Unique(AllRecords(logs') \cup InTables(tables'))
    <3>1. AllRecords(logs') \cup InTables(tables') \subseteq AllRecords(logs) \cup InTables(tables)
      BY <2>1, <2>2
    <3>2. Unique(AllRecords(logs) \cup InTables(tables))
      BY <2>0 DEF SequencesAreUsed
    <3> QED BY <3>1, <3>2, UniqueIn
  <2>4. UpTo(UNION imm', versions'.last_sequence_) /\ UpTo(InTables(tables'), versions'.last_sequence_)
    <3>1. UpTo(UNION imm, versions.last_sequence_) /\ UpTo(InTables(tables), versions.last_sequence_)
      BY <2>0 DEF SequencesAreUsed
    <3>2. UNION imm' \subseteq UNION imm
      BY <1>3
    <3> QED BY <3>1, <3>2 DEF UpTo
  <2>5. ASSUME NEW e \in AllRecords(logs')
        PROVE  e.seq <= versions'.last_sequence_ \/ \E t \in Threads : thread'[t].pc \in Logging /\ e \in GroupEntries(t)'
    <3>1. e.seq <= versions.last_sequence_ \/ \E t \in Threads : thread[t].pc \in Logging /\ e \in GroupEntries(t)
      BY <2>0, <2>1 DEF SequencesAreUsed
    <3> QED BY <3>1 DEF GroupsStay
  <2> QED BY <2>3, <2>4, <2>5 DEF SequencesAreUsed
<1>10. OpenWrites'
  BY <1>7, <1>8, <1>9 DEF OpenWrites
<1> QED BY <1>0, <1>10, RunningWrites

\* The same for steps that leave the MANIFEST.
LEMMA WritesKept ==
  ASSUME FileInv, FileInv', WriteInv, Running, Running', GroupsStay,
         UNCHANGED <<mem, logfile_number_, owed, durable, manifest, msynced>>,
         versions'.last_sequence_ = versions.last_sequence_,
         \A n \in DOMAIN logs' : n \in DOMAIN logs /\ logs'[n] = logs[n],
         HeldIn(tables, Files(versions.current)) \subseteq HeldIn(tables', Files(versions'.current)),
         \/ imm' = imm /\ versions'.log_number_ = versions.log_number_
         \/ /\ imm' = {} /\ versions'.log_number_ = logfile_number_
            /\ UNION imm \subseteq HeldIn(tables', Files(versions'.current)),
         InTables(tables') \subseteq InTables(tables) \cup UNION imm,
         \A n \in Left : HeldIn(tables', Named(n)) = HeldIn(tables, Named(n)),
         EditSequences'
  PROVE  WriteInv'
<1>0. OpenWrites /\ ManifestSequences
  BY DEF WriteInv
<1>1. (\A n : Named(n)' = Named(n)) /\ Left' = Left
  BY ManifestStays
<1>2. LogsAreReplayed'
  <2>1. SUFFICES ASSUME NEW n \in Left
        PROVE  \/ manifest[n].log <= versions'.log_number_
               \/ imm' # {} /\ manifest[n].log <= logfile_number_ /\ UNION imm' \subseteq HeldIn(tables', Named(n))
    BY <1>1 DEF LogsAreReplayed
  <2>2. \/ manifest[n].log <= versions.log_number_
        \/ imm # {} /\ manifest[n].log <= logfile_number_ /\ UNION imm \subseteq HeldIn(tables', Named(n))
    BY <1>0 DEF OpenWrites, LogsAreReplayed
  <2>3. versions.log_number_ <= logfile_number_
    BY DEF FileInv, OpenFiles, LogNumbers
  <2>4. manifest[n].log \in Nat /\ versions.log_number_ \in Nat /\ logfile_number_ \in Nat
    <3>1. manifest[n] \in EditType
      BY DEF FileInv, FileTypes, Left
    <3> QED BY <3>1 DEF FileInv, FileTypes, EditType
  <2> QED BY <2>2, <2>3, <2>4
<1>3. ManifestSequences' /\ \A n \in Left' : manifest'[n].seq <= versions'.last_sequence_
  BY <1>0, <1>1 DEF ManifestSequences, OpenWrites, SequencesAreUsed
<1> QED BY <1>2, <1>3, OpenWritesKept


\* An edit keeps its sequence number until it is installed.
LEMMA EditSequencesStay ==
  ASSUME EditSequences, UNCHANGED <<tables, manifest, versions>>,
         bg' = bg \/ bg'.pc \notin {"manifest", "install"}
  PROVE  EditSequences'
<1>1. CASE bg' = bg
  BY <1>1 DEF EditSequences, InManifest
<1>2. CASE bg'.pc \notin {"manifest", "install"}
  BY <1>2 DEF EditSequences, InManifest
<1> QED BY <1>1, <1>2

\* Steps that leave files and memory lose no write.
LEMMA WritesStay ==
  ASSUME FileInv, FileInv', WriteInv, Running, Running', GroupsStay,
         UNCHANGED <<files, memory, ghosts>>, bg' = bg \/ bg'.pc \notin {"manifest", "install"}
  PROVE  WriteInv'
<1>1. UNCHANGED <<logs, tables, manifest, msynced, mem, imm, logfile_number_, versions, owed, durable>>
  BY DEF files, memory, ghosts
<1>2. EditSequences'
  BY <1>1, EditSequencesStay DEF WriteInv, OpenWrites
<1> QED BY <1>1, <1>2, WritesKept

\* The steps of clients that neither log nor switch memtables.
LEMMA WritesQuietStep ==
  ASSUME DBAssumption, QueueInv, QueueInv', FileInv, FileInv', WriteInv, NEW t \in Threads,
         \/ Woken(t) \/ RoomFails(t) \/ Delay(t) \/ WaitForRoom(t) \/ BeginLogging(t)
         \/ WaitForFlush(t) \/ ManualCompaction(t) \/ CompactRange(t) \/ \E sync \in Syncs : Write(t, sync)
  PROVE  WriteInv'
<1>1. CASE Woken(t)
  <2>1. UNCHANGED <<files, memory, ghosts, phase, bg>> /\ Running
    BY <1>1 DEF Woken
  <2> QED BY <1>1, <2>1, WokenGroups, WritesStay DEF Running
<1>2. CASE RoomFails(t) \/ Delay(t) \/ WaitForRoom(t) \/ BeginLogging(t)
  <2>1. UNCHANGED <<files, memory, ghosts, phase, bg>> /\ Running
    BY <1>2 DEF RoomFails, Delay, WaitForRoom, BeginLogging, AtRoom
  <2>2. GroupsStay
    BY <1>2, RoomGroups
  <2> QED BY <2>1, <2>2, WritesStay DEF Running
<1>3. CASE WaitForFlush(t) \/ ManualCompaction(t)
  <2>1. UNCHANGED <<files, memory, ghosts, phase>> /\ Running
    BY <1>3 DEF WaitForFlush, ManualCompaction
  <2>2. bg' = bg \/ bg' = MaybeSchedule(bg, imm, t, versions.current, bg_error_)
    BY <1>3 DEF WaitForFlush, ManualCompaction
  <2>3. bg' = bg \/ bg'.pc \notin {"manifest", "install"}
    <3>1. FlushIsRight /\ bg \in BgType
      BY <2>1 DEF FileInv, FileTypes, OpenFiles
    <3>2. bg' = bg \/ bg' = [BackgroundOff EXCEPT !.pc = "scheduled"]
      BY <2>2, <3>1, MaybeScheduleSame
    <3>3. [BackgroundOff EXCEPT !.pc = "scheduled"].pc = "scheduled"
      BY DEF BackgroundOff
    <3> QED BY <3>2, <3>3
  <2>4. GroupsStay
    BY <1>3, RangeGroups
  <2> QED BY <2>1, <2>3, <2>4, WritesStay DEF Running
<1>4. CASE CompactRange(t) \/ \E sync \in Syncs : Write(t, sync)
  <2>1. PICK sync, batch : Enqueue(t, sync, batch)
    BY <1>4 DEF CompactRange, Write
  <2>2. UNCHANGED <<files, memory, ghosts, phase, bg, versions>> /\ Running
    BY <2>1 DEF Enqueue, memory, Running
  <2>3. GroupsStay
    BY <2>1, <2>2, EnqueuedGroups
  <2> QED BY <2>2, <2>3, WritesStay DEF Running
<1> QED BY <1>1, <1>2, <1>3, <1>4

\* A new log and a new memtable.
LEMMA WritesSwitched ==
  ASSUME DBAssumption, QueueInv, FileInv, FileInv', WriteInv, NEW t \in Threads, SwitchMemTable(t)
  PROVE  WriteInv'
<1> DEFINE number == versions.next_file_number_
           log == logs[logfile_number_]
           none == NewLog
           current == HeldIn(tables, Files(versions.current))
<1>0. /\ Running /\ Running' /\ imm = {}
      /\ UNCHANGED <<tables, manifest, msynced, owed, durable>>
      /\ logs' = With(logs, number, none) /\ logfile_number_' = number
      /\ versions' = [versions EXCEPT !.next_file_number_ = @ + 1]
      /\ imm' = {mem} /\ mem' = {}
      /\ bg' = MaybeSchedule(bg, imm', manual_compaction_, versions.current, bg_error_)
  BY DEF SwitchMemTable, AtRoom, Running, ghosts
<1>1. /\ versions \in [current : VersionType, log_number_ : Nat, next_file_number_ : Nat, last_sequence_ : Nat]
      /\ versions'.current = versions.current /\ versions'.log_number_ = versions.log_number_
      /\ versions'.last_sequence_ = versions.last_sequence_ /\ number \in Nat
  BY <1>0 DEF FileInv, FileTypes
<1>2. /\ versions.log_number_ = logfile_number_ /\ logfile_number_ \in DOMAIN logs
      /\ number \notin DOMAIN logs /\ logfile_number_ # number
  <2>1. LogNumbers /\ DOMAIN logs \subseteq Nat /\ logfile_number_ \in Nat
    BY <1>0 DEF FileInv, OpenFiles, FileTypes
  <2> QED BY <1>0, <1>1, <2>1 DEF LogNumbers
<1>3. /\ DOMAIN logs' = DOMAIN logs \cup {number} /\ logs'[number] = none
      /\ \A n \in DOMAIN logs : logs'[n] = logs[n]
  <2> HIDE DEF number, none
  <2>1. logs' = [y \in DOMAIN logs \cup {number} |-> IF y = number THEN none ELSE logs[y]]
    BY <1>0 DEF With
  <2> QED BY <1>2, <2>1
<1>4. (\A u \in Threads : thread[u].pc \notin Logging /\ thread'[u].pc \notin Logging) /\ GroupsStay
  BY RoomGroups
<1>5. Records(none) = {} /\ SyncedRecords(none) = {}
  BY DEF Records, SyncedRecords, NewLog
<1>6. OpenWrites /\ durable \subseteq owed /\ ManifestSequences
  BY <1>0 DEF WriteInv
<1>7. AllRecords(logs') = AllRecords(logs)
  <2>1. AllRecords(logs') = AllRecords(logs) \cup Records(none)
    <3> HIDE DEF none, number
    <3> QED BY <1>3 DEF AllRecords
  <2> QED BY <1>5, <2>1
<1>8. (\A n : Named(n)' = Named(n)) /\ Left' = Left
  BY <1>0, ManifestStays
<1>9. logs'[logfile_number_'] = none /\ logs'[versions'.log_number_] = log
  BY <1>0, <1>1, <1>2, <1>3
<1>10. /\ mem \subseteq Records(log) /\ durable \subseteq (mem \cap SyncedRecords(log)) \cup current
       /\ owed \subseteq mem \cup current
  BY <1>0, <1>6 DEF OpenWrites, MemoryIsLogged, DurableIsSynced
<1>11. MemoryIsLogged' /\ DurableIsSynced' /\ owed' \subseteq mem' \cup (UNION imm') \cup HeldIn(tables', Files(versions'.current))
  <2>1. UNION imm' = mem /\ mem' = {} /\ HeldIn(tables', Files(versions'.current)) = current
    BY <1>0, <1>1
  <2> HIDE DEF log, none, current
  <2> QED BY <1>0, <1>5, <1>9, <1>10, <2>1 DEF MemoryIsLogged, DurableIsSynced
<1>12. GroupIsLogged'
  BY <1>4 DEF GroupIsLogged, Logging
<1>13. LogsAreReplayed'
  <2>1. \A n \in Left : manifest[n].log <= versions.log_number_
    BY <1>0, <1>6 DEF OpenWrites, LogsAreReplayed
  <2> QED BY <1>0, <1>1, <1>8, <2>1 DEF LogsAreReplayed
<1>14. SequencesAreUsed'
  <2>0. SequencesAreUsed
    BY <1>6 DEF OpenWrites
  <2>1. \A e \in AllRecords(logs) : e.seq <= versions.last_sequence_
    BY <1>4, <2>0 DEF SequencesAreUsed
  <2>2. mem \subseteq AllRecords(logs)
    BY <1>2, <1>10, RecordsIn
  <2>3. UNION imm' = mem /\ tables' = tables
    BY <1>0
  <2>4. UpTo(mem, versions.last_sequence_)
    BY <2>1, <2>2 DEF UpTo
  <2>5. UpTo(UNION imm', versions'.last_sequence_)
    BY <1>1, <2>3, <2>4
  <2>6. Unique(AllRecords(logs') \cup InTables(tables')) /\ UpTo(InTables(tables'), versions'.last_sequence_)
    BY <1>1, <1>7, <2>0, <2>3 DEF SequencesAreUsed
  <2>7. \A n \in Left' : manifest'[n].seq <= versions'.last_sequence_
    BY <1>0, <1>1, <1>8, <2>0 DEF SequencesAreUsed
  <2> QED BY <1>1, <1>7, <2>1, <2>5, <2>6, <2>7 DEF SequencesAreUsed
<1>15. EditSequences'
  <2>1. bg' = bg \/ bg'.pc = "scheduled"
    <3>1. FlushIsRight /\ bg \in BgType
      BY <1>0 DEF FileInv, FileTypes, OpenFiles
    <3>2. bg' = bg \/ bg' = [BackgroundOff EXCEPT !.pc = "scheduled"]
      BY <1>0, <3>1, MaybeScheduleSame
    <3>3. [BackgroundOff EXCEPT !.pc = "scheduled"].pc = "scheduled"
      BY DEF BackgroundOff
    <3> QED BY <3>2, <3>3
  <2>2. EditSequences
    BY <1>6 DEF OpenWrites
  <2> QED BY <1>0, <1>1, <2>1, <2>2 DEF EditSequences, InManifest
<1>16. ManifestSequences' /\ durable' \subseteq owed'
  BY <1>0, <1>6, <1>8 DEF ManifestSequences
<1> QED BY <1>0, <1>11, <1>12, <1>13, <1>14, <1>15, <1>16, RunningWrites DEF OpenWrites


-------------------------------------------------------------------------------
(* Writes: the steps of the leader of a group *)

\* The group of a thread that leads is the only one, and stays.
LEMMA LeaderSteps ==
  ASSUME QueueInv, QueueInv', NEW t \in Threads, AddRecord(t) \/ SyncLog(t) \/ InsertInto(t)
  PROVE  /\ GroupEntries(t)' = GroupEntries(t) /\ thread[t].pc \in Leading
         /\ \A u \in Threads : u # t => thread[u].pc \notin Logging /\ thread'[u].pc \notin Logging
<1>1. /\ thread[t].pc \in {"log", "sync", "insert"} /\ writers_' = writers_ /\ versions' = versions
      /\ \E pc \in {"sync", "insert", "finish"}, s \in {thread[t].status, "error", "sync_error"} :
           thread' = [thread EXCEPT ![t].pc = pc, ![t].status = s]
  <2>1. thread \in [Threads -> ThreadType]
    BY DEF QueueInv, QueueTypes
  <2>2. \A pc : [thread EXCEPT ![t].pc = pc] = [thread EXCEPT ![t].pc = pc, ![t].status = thread[t].status]
    BY <2>1 DEF ThreadType
  <2>3. /\ thread[t].pc \in {"log", "sync", "insert"} /\ writers_' = writers_ /\ versions' = versions
        /\ \/ \E pc \in {"sync", "insert", "finish"} : thread' = [thread EXCEPT ![t].pc = pc]
           \/ \E s \in {"error", "sync_error"} : thread' = [thread EXCEPT ![t].pc = "finish", ![t].status = s]
    BY DEF AddRecord, SyncLog, InsertInto, memory
  <2> QED BY <2>2, <2>3
<1>2. PICK pc \in {"sync", "insert", "finish"}, s \in {thread[t].status, "error", "sync_error"} :
           thread' = [thread EXCEPT ![t].pc = pc, ![t].status = s]
  BY <1>1
<1>3. thread \in [Threads -> ThreadType] /\ writers_ \in Seq(Threads)
  BY DEF QueueInv, QueueTypes
<1>4. /\ thread'[t].last = thread[t].last /\ thread'[t].batch = thread[t].batch
      /\ \A u \in Threads : u # t => thread'[u] = thread[u]
  BY <1>2, <1>3 DEF ThreadType
<1>5. thread[t].pc \in Leading
  BY <1>1 DEF Leading
<1>6. \A i \in DOMAIN writers_ : /\ i \in DOMAIN writers_' /\ writers_'[i] = writers_[i]
                                 /\ thread'[writers_[i]].batch = thread[writers_[i]].batch
  BY <1>1, <1>3, <1>4
<1>7. GroupEntries(t)' = GroupEntries(t)
  BY <1>1, <1>4, <1>5, <1>6, GroupKept
<1>8. \A u \in Threads : u # t => thread[u].pc \notin Logging
  BY <1>5, QueueFront DEF Leading, AtFront, Logging
<1> QED BY <1>4, <1>5, <1>7, <1>8

\* Steps that add a group to the log, sync it or put it into the memtable.
LEMMA WritesLogged ==
  ASSUME FileInv, FileInv', WriteInv, Running, Running', NEW t \in Threads,
         UNCHANGED <<tables, manifest, msynced, imm, logfile_number_, versions, bg, owed, durable>>,
         GroupEntries(t)' = GroupEntries(t),
         DOMAIN logs' = DOMAIN logs,
         \A n \in DOMAIN logs : /\ Records(logs[n]) \subseteq Records(logs'[n])
                                /\ SyncedRecords(logs[n]) \subseteq SyncedRecords(logs'[n]),
         mem \subseteq mem', mem' \subseteq Records(logs'[logfile_number_]),
         GroupIsLogged', Unique(AllRecords(logs') \cup InTables(tables)),
         \A e \in AllRecords(logs') :
           e.seq <= versions.last_sequence_ \/ (thread'[t].pc \in Logging /\ e \in GroupEntries(t))
  PROVE  WriteInv'
<1> DEFINE current == HeldIn(tables, Files(versions.current))
           log == logs[logfile_number_]
           old == logs[versions.log_number_]
           logNext == logs'[logfile_number_]
           oldNext == logs'[versions.log_number_]
<1>0. OpenWrites /\ durable \subseteq owed /\ ManifestSequences
  BY DEF WriteInv
<1>1. (\A n : Named(n)' = Named(n)) /\ Left' = Left
  BY ManifestStays
<1>2. versions.log_number_ \in DOMAIN logs /\ logfile_number_ \in DOMAIN logs
  BY DEF FileInv, OpenFiles, LogNumbers
<1>3. /\ mem \subseteq Records(log) /\ UNION imm \subseteq Records(old)
      /\ durable \subseteq (mem \cap SyncedRecords(log)) \cup ((UNION imm) \cap SyncedRecords(old)) \cup current
      /\ owed \subseteq mem \cup (UNION imm) \cup current
  BY <1>0 DEF OpenWrites, MemoryIsLogged, DurableIsSynced
<1>4. /\ Records(old) \subseteq Records(oldNext) /\ SyncedRecords(old) \subseteq SyncedRecords(oldNext)
      /\ SyncedRecords(log) \subseteq SyncedRecords(logNext)
  BY <1>2
<1>5. MemoryIsLogged' /\ DurableIsSynced' /\ owed' \subseteq mem' \cup (UNION imm') \cup HeldIn(tables', Files(versions'.current))
  <2>1. /\ mem' \subseteq Records(logNext) /\ UNION imm' \subseteq Records(oldNext)
        /\ durable' \subseteq (mem' \cap SyncedRecords(logNext)) \cup ((UNION imm') \cap SyncedRecords(oldNext)) \cup current
        /\ owed' \subseteq mem' \cup (UNION imm') \cup current
    <3>1. mem' \subseteq Records(logNext)
      OBVIOUS
    <3> HIDE DEF current, log, old, logNext, oldNext
    <3> QED BY <1>3, <1>4, <3>1
  <2> QED BY <2>1 DEF MemoryIsLogged, DurableIsSynced
<1>6. LogsAreReplayed' /\ ManifestSequences'
  BY <1>0, <1>1 DEF OpenWrites, LogsAreReplayed, ManifestSequences
<1>7. EditSequences'
  BY <1>0, EditSequencesStay DEF OpenWrites
<1>8. SequencesAreUsed'
  BY <1>0, <1>1 DEF OpenWrites, SequencesAreUsed
<1> QED BY <1>0, <1>5, <1>6, <1>7, <1>8, RunningWrites DEF OpenWrites

\* The sequence numbers of a group are new, and no two writes of it have the same.
LEMMA GroupIsNew ==
  ASSUME DBAssumption, QueueInv, NEW t \in Threads, thread[t].pc \in Leading, versions.last_sequence_ \in Nat
  PROVE  /\ Unique(GroupEntries(t))
         /\ \A e \in GroupEntries(t) : /\ e.seq > versions.last_sequence_
                                       /\ e.seq <= versions.last_sequence_ + Cardinality(GroupWriters(t))
<1> DEFINE seq == versions.last_sequence_
           upTo(i) == GroupWriters(t) \cap 1..i
           entry(i) == Entry(seq + Cardinality(upTo(i)), thread[writers_[i]].batch)
<1>1. /\ GroupWriters(t) \subseteq Nat \ {0}
      /\ \A i \in Nat : /\ IsFiniteSet(upTo(i)) /\ Cardinality(upTo(i)) \in Nat
                        /\ Cardinality(upTo(i)) <= Cardinality(GroupWriters(t))
      /\ Cardinality(GroupWriters(t)) \in Nat
  BY GroupSize
<1>2. GroupEntries(t) = {entry(i) : i \in GroupWriters(t)}
  BY DEF GroupEntries
<1>3. ASSUME NEW i \in GroupWriters(t), NEW j \in GroupWriters(t), i < j
      PROVE  Cardinality(upTo(i)) < Cardinality(upTo(j))
  <2>1. upTo(i) \subseteq upTo(j) /\ j \in upTo(j) /\ j \notin upTo(i) /\ i \in Nat /\ j \in Nat
    BY <1>1, <1>3
  <2>2. IsFiniteSet(upTo(j)) /\ IsFiniteSet(upTo(i)) /\ Cardinality(upTo(i)) \in Nat /\ Cardinality(upTo(j)) \in Nat
    BY <1>1, <2>1
  <2> HIDE DEF upTo
  <2>3. Cardinality(upTo(i)) <= Cardinality(upTo(j)) /\ (Cardinality(upTo(i)) = Cardinality(upTo(j)) => upTo(i) = upTo(j))
    BY <2>1, <2>2, FS_Subset
  <2> QED BY <2>1, <2>2, <2>3
<1>4. ASSUME NEW i \in GroupWriters(t)
      PROVE  Cardinality(upTo(i)) > 0
  <2>1. i \in upTo(i) /\ i \in Nat
    BY <1>1
  <2>2. IsFiniteSet(upTo(i)) /\ Cardinality(upTo(i)) \in Nat
    BY <1>1, <2>1
  <2> HIDE DEF upTo
  <2>3. Cardinality(upTo(i)) # 0
    BY <2>1, <2>2, FS_EmptySet
  <2> QED BY <2>2, <2>3
<1>5. \A i \in GroupWriters(t) : i \in Nat /\ Cardinality(upTo(i)) \in Nat /\ Cardinality(upTo(i)) <= Cardinality(GroupWriters(t))
  BY <1>1
<1>6. \A i \in GroupWriters(t) : entry(i).seq = seq + Cardinality(upTo(i))
  BY DEF Entry
<1> HIDE DEF upTo, entry
<1>7. ASSUME NEW e \in GroupEntries(t), NEW f \in GroupEntries(t), e.seq = f.seq
      PROVE  e = f
  <2>1. PICK i \in GroupWriters(t), j \in GroupWriters(t) : e = entry(i) /\ f = entry(j)
    BY <1>2
  <2>2. Cardinality(upTo(i)) = Cardinality(upTo(j))
    BY <1>5, <1>6, <1>7, <2>1
  <2>3. i = j
    BY <1>3, <1>5, <2>2
  <2> QED BY <2>1, <2>3
<1>8. \A e \in GroupEntries(t) : e.seq > seq /\ e.seq <= seq + Cardinality(GroupWriters(t))
  BY <1>1, <1>2, <1>4, <1>5, <1>6
<1> QED BY <1>7, <1>8 DEF Unique


\* A record that is added to a log is not synced, whether a reader will find it or not.
LEMMA RecordAdded ==
  ASSUME NEW log \in LogType, log.synced <= Len(log.recs), NEW record, NEW unread
  PROVE  LET new == [log EXCEPT !.recs = Append(log.recs, record), !.unread = unread] IN
         Records(new) = Records(log) \cup record /\ SyncedRecords(new) = SyncedRecords(log)
<1> DEFINE new == [log EXCEPT !.recs = Append(log.recs, record), !.unread = unread]
<1>1. /\ new.recs = Append(log.recs, record) /\ new.synced = log.synced
      /\ log.recs \in Seq(SUBSET Entries) /\ log.synced \in Nat
  BY DEF LogType
<1>2. /\ DOMAIN new.recs = DOMAIN log.recs \cup {Len(log.recs) + 1}
      /\ new.recs[Len(log.recs) + 1] = record
      /\ \A i \in DOMAIN log.recs : new.recs[i] = log.recs[i]
  BY <1>1
<1>3. 1..log.synced \subseteq DOMAIN log.recs
  BY <1>1
<1> HIDE DEF new
<1>4. Records(new) = Records(log) \cup record
  BY <1>2 DEF Records
<1>5. SyncedRecords(new) = SyncedRecords(log)
  BY <1>1, <1>2, <1>3 DEF SyncedRecords
<1> QED BY <1>4, <1>5 DEF new

\* A sync makes all of a log durable.
LEMMA LogSynced ==
  ASSUME NEW log \in LogType
  PROVE  LET new == [log EXCEPT !.synced = Len(log.recs)] IN
         Records(new) = Records(log) /\ SyncedRecords(new) = Records(log)
<1> DEFINE new == [log EXCEPT !.synced = Len(log.recs)]
<1>1. new.recs = log.recs /\ new.synced = Len(log.recs) /\ DOMAIN log.recs = 1..Len(log.recs)
  BY DEF LogType
<1> HIDE DEF new
<1>2. Records(new) = Records(log) /\ SyncedRecords(new) = Records(log)
  BY <1>1 DEF Records, SyncedRecords
<1> QED BY <1>2 DEF new

\* A step of the leader, of which the entries of its group are known.
LEMMA LeaderWrites ==
  ASSUME QueueInv, QueueInv', NEW t \in Threads, AddRecord(t) \/ SyncLog(t) \/ InsertInto(t),
         NEW log, NEW memtable,
         thread'[t].pc \in {"sync", "insert"} => GroupEntries(t) \subseteq Records(log),
         thread'[t].pc = "insert" /\ thread'[t].sync => GroupEntries(t) \subseteq SyncedRecords(log),
         thread'[t].pc = "finish" /\ thread'[t].status = "ok" =>
           /\ GroupEntries(t) \subseteq memtable
           /\ thread'[t].sync => GroupEntries(t) \subseteq SyncedRecords(log),
         log = logs'[logfile_number_'], memtable = mem'
  PROVE  GroupIsLogged'
<1>1. /\ GroupEntries(t)' = GroupEntries(t)
      /\ \A u \in Threads : u # t => thread'[u].pc \notin Logging
  BY LeaderSteps
<1> SUFFICES ASSUME NEW u \in Threads
             PROVE  /\ thread'[u].pc \in {"sync", "insert"} => GroupEntries(u)' \subseteq Records(log)
                    /\ thread'[u].pc = "insert" /\ thread'[u].sync => GroupEntries(u)' \subseteq SyncedRecords(log)
                    /\ thread'[u].pc = "finish" /\ thread'[u].status = "ok" =>
                         /\ GroupEntries(u)' \subseteq memtable
                         /\ thread'[u].sync => GroupEntries(u)' \subseteq SyncedRecords(log)
  BY DEF GroupIsLogged
<1>2. CASE u # t
  BY <1>1, <1>2 DEF Logging
<1>3. CASE u = t
  BY <1>1, <1>3
<1> QED BY <1>2, <1>3

\* The record of a group is added to the log.
LEMMA WritesAdded ==
  ASSUME DBAssumption, QueueInv, QueueInv', FileInv, FileInv', WriteInv, NEW t \in Threads, AddRecord(t)
  PROVE  WriteInv'
<1> DEFINE group == GroupEntries(t)
           log == logs[logfile_number_]
           added(lost) == [log EXCEPT !.recs = Append(log.recs, group), !.unread = log.unread \cup lost]
           torn == [log EXCEPT !.torn = TRUE]
<1>0. /\ Running /\ Running' /\ thread[t].pc = "log" /\ thread \in [Threads -> ThreadType]
      /\ UNCHANGED <<tables, manifest, msynced, mem, imm, logfile_number_, versions, bg, owed, durable>>
  BY DEF AddRecord, Running, memory, ghosts, QueueInv, QueueTypes
<1>1. /\ GroupEntries(t)' = group
      /\ \A u \in Threads : u # t => thread[u].pc \notin Logging /\ thread'[u].pc \notin Logging
  BY LeaderSteps
<1>2. /\ logs \in [DOMAIN logs -> LogType] /\ logfile_number_ \in DOMAIN logs /\ versions.last_sequence_ \in Nat
      /\ log \in LogType /\ log.synced <= Len(log.recs)
  BY <1>0 DEF FileInv, FileTypes, OpenFiles, LogNumbers
<1>3. /\ mem \subseteq Records(log) /\ Unique(AllRecords(logs) \cup InTables(tables))
      /\ UpTo(InTables(tables), versions.last_sequence_)
  BY <1>0 DEF WriteInv, OpenWrites, MemoryIsLogged, SequencesAreUsed
<1>4. \A e \in AllRecords(logs) : e.seq <= versions.last_sequence_
  <2>1. \A u \in Threads : thread[u].pc \notin Logging
    BY <1>0, <1>1 DEF Logging
  <2> QED BY <1>0, <2>1 DEF WriteInv, OpenWrites, SequencesAreUsed
<1>5. ASSUME NEW lost,
             logs' = [logs EXCEPT ![logfile_number_].recs = Append(@, GroupEntries(t)),
                                  ![logfile_number_].unread = @ \cup lost],
             thread' = [thread EXCEPT ![t].pc = IF thread[t].sync THEN "sync" ELSE "insert"]
      PROVE  WriteInv'
  <2> DEFINE new == added(lost)
  <2>1. /\ DOMAIN logs' = DOMAIN logs /\ logs'[logfile_number_] = new
        /\ \A n \in DOMAIN logs : n # logfile_number_ => logs'[n] = logs[n]
    BY <1>2, <1>5 DEF LogType
  <2>2. Records(new) = Records(log) \cup group /\ SyncedRecords(new) = SyncedRecords(log)
    <3> DEFINE unread == log.unread \cup lost
    <3>1. new = [log EXCEPT !.recs = Append(log.recs, group), !.unread = unread]
      OBVIOUS
    <3> HIDE DEF new, log, group, added, torn, unread
    <3>2. Records([log EXCEPT !.recs = Append(log.recs, group), !.unread = unread]) = Records(log) \cup group
          /\ SyncedRecords([log EXCEPT !.recs = Append(log.recs, group), !.unread = unread]) = SyncedRecords(log)
      BY <1>2, RecordAdded
    <3> QED BY <3>1, <3>2
  <2>3. thread'[t].pc = (IF thread[t].sync THEN "sync" ELSE "insert") /\ thread'[t].sync = thread[t].sync
    BY <1>0, <1>5 DEF ThreadType
  <2> HIDE DEF new, log, group, added, torn
  <2>4. \A n \in DOMAIN logs : /\ Records(logs[n]) \subseteq Records(logs'[n])
                               /\ SyncedRecords(logs[n]) \subseteq SyncedRecords(logs'[n])
    BY <2>1, <2>2 DEF log
  <2>5. AllRecords(logs') \subseteq AllRecords(logs) \cup group
    <3> SUFFICES ASSUME NEW n \in DOMAIN logs PROVE Records(logs'[n]) \subseteq AllRecords(logs) \cup group
      BY <2>1 DEF AllRecords
    <3>1. Records(logs[n]) \subseteq AllRecords(logs)
      BY RecordsIn
    <3> QED BY <2>1, <2>2, <3>1 DEF log
  <2>6. Unique(AllRecords(logs') \cup InTables(tables))
    <3>1. Unique(group) /\ \A e \in group : e.seq > versions.last_sequence_
      <4>1. thread[t].pc \in Leading
        BY <1>0 DEF Leading
      <4> QED BY <1>2, <4>1, GroupIsNew DEF group
    <3>2. \A e \in AllRecords(logs) \cup InTables(tables) : e.seq <= versions.last_sequence_
      BY <1>3, <1>4 DEF UpTo
    <3>3. \A e \in group : e.seq \in Nat
      <4>1. thread[t].pc \in Leading
        BY <1>0 DEF Leading
      <4> QED BY <1>2, <4>1, GroupType DEF group, Entries
    <3>4. \A e \in AllRecords(logs) \cup InTables(tables), f \in group : e.seq # f.seq
      <4> SUFFICES ASSUME NEW e \in AllRecords(logs) \cup InTables(tables), NEW f \in group, e.seq = f.seq
                   PROVE  FALSE
        OBVIOUS
      <4>1. f.seq <= versions.last_sequence_ /\ f.seq > versions.last_sequence_ /\ f.seq \in Nat
        BY <3>1, <3>2, <3>3
      <4> QED BY <1>2, <4>1
    <3>5. Unique((AllRecords(logs) \cup InTables(tables)) \cup group)
      BY <1>3, <3>1, <3>4 DEF Unique
    <3> QED BY <2>5, <3>5 DEF Unique
  <2>7. \A e \in AllRecords(logs') : e.seq <= versions.last_sequence_ \/ (thread'[t].pc \in Logging /\ e \in GroupEntries(t))
    BY <1>4, <2>3, <2>5 DEF Logging, group
  <2>8. GroupIsLogged'
    <3>1. logs'[logfile_number_'] = new /\ mem' = mem
      BY <1>0, <2>1
    <3>2. GroupEntries(t) \subseteq Records(new)
      BY <2>2 DEF group
    <3> QED BY <2>3, <3>1, <3>2, LeaderWrites
  <2>9. mem' \subseteq Records(logs'[logfile_number_])
    BY <1>0, <1>3, <2>1, <2>2
  <2>10. GroupEntries(t)' = GroupEntries(t)
    BY <1>1 DEF group
  <2> QED BY <1>0, <2>1, <2>4, <2>6, <2>7, <2>8, <2>9, <2>10, WritesLogged
<1>6. CASE /\ thread' = [thread EXCEPT ![t].pc = "finish", ![t].status = "error"]
           /\ logs' = [logs EXCEPT ![logfile_number_].torn = TRUE]
  <2>1. thread'[t].pc = "finish" /\ thread'[t].status = "error"
    BY <1>0, <1>6 DEF ThreadType
  <2>2. GroupIsLogged'
    BY <2>1, LeaderWrites
  <2>3. /\ DOMAIN logs' = DOMAIN logs /\ logs'[logfile_number_] = torn
        /\ \A n \in DOMAIN logs : n # logfile_number_ => logs'[n] = logs[n]
    BY <1>2, <1>6
  <2>4. torn.recs = log.recs /\ torn.synced = log.synced
    BY <1>2 DEF LogType
  <2> HIDE DEF torn, group, added
  <2>5. Records(torn) = Records(log) /\ SyncedRecords(torn) = SyncedRecords(log)
    BY <2>4 DEF Records, SyncedRecords
  <2>6. \A n \in DOMAIN logs : Records(logs'[n]) = Records(logs[n]) /\ SyncedRecords(logs'[n]) = SyncedRecords(logs[n])
    BY <2>3, <2>5
  <2>7. AllRecords(logs') = AllRecords(logs)
    BY <2>3, <2>6 DEF AllRecords
  <2>8. mem' \subseteq Records(logs'[logfile_number_])
    BY <1>0, <1>2, <1>3, <2>6
  <2>9. Unique(AllRecords(logs') \cup InTables(tables)) /\ \A e \in AllRecords(logs') : e.seq <= versions.last_sequence_
    BY <1>3, <1>4, <2>7
  <2>10. GroupEntries(t)' = GroupEntries(t)
    BY <1>1 DEF group
  <2> HIDE DEF log
  <2> QED BY <1>0, <2>2, <2>3, <2>6, <2>8, <2>9, <2>10, WritesLogged
<1> QED BY <1>5, <1>6 DEF AddRecord


\* The log of a group is synced.
LEMMA WritesSynced ==
  ASSUME DBAssumption, QueueInv, QueueInv', FileInv, FileInv', WriteInv, NEW t \in Threads, SyncLog(t)
  PROVE  WriteInv'
<1> DEFINE log == logs[logfile_number_]
           new == [log EXCEPT !.synced = Len(log.recs)]
<1>0. /\ Running /\ Running' /\ thread[t].pc = "sync" /\ thread \in [Threads -> ThreadType]
      /\ UNCHANGED <<tables, manifest, msynced, mem, imm, logfile_number_, versions, bg, owed, durable>>
  BY DEF SyncLog, Running, memory, ghosts, QueueInv, QueueTypes
<1>1. /\ GroupEntries(t)' = GroupEntries(t)
      /\ \A u \in Threads : u # t => thread[u].pc \notin Logging /\ thread'[u].pc \notin Logging
  BY LeaderSteps
<1>2. /\ logs \in [DOMAIN logs -> LogType] /\ logfile_number_ \in DOMAIN logs
      /\ log \in LogType /\ log.synced <= Len(log.recs)
  BY <1>0 DEF FileInv, FileTypes, OpenFiles, LogNumbers
<1>3. /\ mem \subseteq Records(log) /\ Unique(AllRecords(logs) \cup InTables(tables))
      /\ GroupEntries(t) \subseteq Records(log)
  BY <1>0 DEF WriteInv, OpenWrites, MemoryIsLogged, SequencesAreUsed, GroupIsLogged
<1>4. \A e \in AllRecords(logs) : e.seq <= versions.last_sequence_ \/ e \in GroupEntries(t)
  <2> SUFFICES ASSUME NEW e \in AllRecords(logs) PROVE e.seq <= versions.last_sequence_ \/ e \in GroupEntries(t)
    OBVIOUS
  <2>1. e.seq <= versions.last_sequence_ \/ \E u \in Threads : thread[u].pc \in Logging /\ e \in GroupEntries(u)
    BY <1>0 DEF WriteInv, OpenWrites, SequencesAreUsed
  <2> QED BY <1>1, <2>1
<1>5. CASE /\ logs' = [logs EXCEPT ![logfile_number_].synced = Len(logs[logfile_number_].recs)]
           /\ thread' = [thread EXCEPT ![t].pc = "insert"]
  <2>1. /\ DOMAIN logs' = DOMAIN logs /\ logs'[logfile_number_] = new
        /\ \A n \in DOMAIN logs : n # logfile_number_ => logs'[n] = logs[n]
    BY <1>2, <1>5
  <2>2. Records(new) = Records(log) /\ SyncedRecords(new) = Records(log) /\ SyncedRecords(log) \subseteq Records(log)
    BY <1>2, LogSynced, SyncedIn
  <2>3. thread'[t].pc = "insert" /\ thread'[t].sync = thread[t].sync
    BY <1>0, <1>5 DEF ThreadType
  <2> HIDE DEF new, log
  <2>4. \A n \in DOMAIN logs : /\ Records(logs[n]) = Records(logs'[n])
                               /\ SyncedRecords(logs[n]) \subseteq SyncedRecords(logs'[n])
    BY <2>1, <2>2 DEF log
  <2>5. AllRecords(logs') = AllRecords(logs)
    BY <2>1, <2>4 DEF AllRecords
  <2>6. GroupIsLogged'
    <3>1. logs'[logfile_number_'] = new /\ mem' = mem
      BY <1>0, <2>1
    <3>2. GroupEntries(t) \subseteq Records(new) /\ GroupEntries(t) \subseteq SyncedRecords(new)
      BY <1>3, <2>2
    <3> QED BY <2>3, <3>1, <3>2, LeaderWrites
  <2>7. mem' \subseteq Records(logs'[logfile_number_])
    BY <1>0, <1>3, <2>1, <2>2
  <2>8. thread'[t].pc \in Logging
    BY <2>3 DEF Logging
  <2>9. Unique(AllRecords(logs') \cup InTables(tables))
    BY <1>3, <2>5
  <2> QED BY <1>0, <1>1, <1>4, <2>1, <2>4, <2>5, <2>6, <2>7, <2>8, <2>9, WritesLogged
<1>6. CASE thread' = [thread EXCEPT ![t].pc = "finish", ![t].status = "sync_error"] /\ UNCHANGED logs
  <2>1. thread'[t].pc = "finish" /\ thread'[t].status = "sync_error" /\ thread'[t].pc \in Logging
    BY <1>0, <1>6 DEF ThreadType, Logging
  <2>2. GroupIsLogged'
    BY <2>1, LeaderWrites
  <2>3. /\ DOMAIN logs' = DOMAIN logs
        /\ \A n \in DOMAIN logs : /\ Records(logs[n]) \subseteq Records(logs'[n])
                                  /\ SyncedRecords(logs[n]) \subseteq SyncedRecords(logs'[n])
        /\ mem' \subseteq Records(logs'[logfile_number_])
    BY <1>0, <1>3, <1>6
  <2>4. /\ Unique(AllRecords(logs') \cup InTables(tables))
        /\ \A e \in AllRecords(logs') : e.seq <= versions.last_sequence_ \/ e \in GroupEntries(t)
    BY <1>3, <1>4, <1>6
  <2> HIDE DEF log, new
  <2> QED BY <1>0, <1>1, <2>1, <2>2, <2>3, <2>4, WritesLogged
<1> QED BY <1>5, <1>6 DEF SyncLog

\* A group is put into the memtable.
LEMMA WritesInserted ==
  ASSUME DBAssumption, QueueInv, QueueInv', FileInv, FileInv', WriteInv, NEW t \in Threads, InsertInto(t)
  PROVE  WriteInv'
<1> DEFINE log == logs[logfile_number_]
<1>0. /\ Running /\ Running' /\ thread[t].pc = "insert" /\ thread \in [Threads -> ThreadType]
      /\ UNCHANGED <<logs, tables, manifest, msynced, imm, logfile_number_, versions, bg, owed, durable>>
      /\ mem' = mem \cup GroupEntries(t) /\ thread' = [thread EXCEPT ![t].pc = "finish"]
  BY DEF InsertInto, Running, files, ghosts, QueueInv, QueueTypes
<1>1. /\ GroupEntries(t)' = GroupEntries(t)
      /\ \A u \in Threads : u # t => thread[u].pc \notin Logging /\ thread'[u].pc \notin Logging
  BY LeaderSteps
<1>2. thread'[t].pc = "finish" /\ thread'[t].sync = thread[t].sync /\ thread'[t].pc \in Logging
  BY <1>0 DEF ThreadType, Logging
<1>3. /\ mem \subseteq Records(log) /\ Unique(AllRecords(logs) \cup InTables(tables))
      /\ GroupEntries(t) \subseteq Records(log)
      /\ thread[t].sync => GroupEntries(t) \subseteq SyncedRecords(log)
  BY <1>0 DEF WriteInv, OpenWrites, MemoryIsLogged, SequencesAreUsed, GroupIsLogged
<1>4. \A e \in AllRecords(logs) : e.seq <= versions.last_sequence_ \/ e \in GroupEntries(t)
  <2> SUFFICES ASSUME NEW e \in AllRecords(logs) PROVE e.seq <= versions.last_sequence_ \/ e \in GroupEntries(t)
    OBVIOUS
  <2>1. e.seq <= versions.last_sequence_ \/ \E u \in Threads : thread[u].pc \in Logging /\ e \in GroupEntries(u)
    BY <1>0 DEF WriteInv, OpenWrites, SequencesAreUsed
  <2> QED BY <1>1, <2>1
<1>5. GroupIsLogged'
  <2>1. logs'[logfile_number_'] = log /\ GroupEntries(t) \subseteq mem'
    BY <1>0
  <2> HIDE DEF log
  <2> QED BY <1>2, <1>3, <2>1, LeaderWrites
<1>6. /\ DOMAIN logs' = DOMAIN logs
      /\ \A n \in DOMAIN logs : /\ Records(logs[n]) \subseteq Records(logs'[n])
                                /\ SyncedRecords(logs[n]) \subseteq SyncedRecords(logs'[n])
      /\ mem \subseteq mem' /\ mem' \subseteq Records(logs'[logfile_number_])
  BY <1>0, <1>3
<1>7. /\ Unique(AllRecords(logs') \cup InTables(tables))
      /\ \A e \in AllRecords(logs') : e.seq <= versions.last_sequence_ \/ e \in GroupEntries(t)
  BY <1>0, <1>3, <1>4
<1> HIDE DEF log
<1> QED BY <1>0, <1>1, <1>2, <1>5, <1>6, <1>7, WritesLogged

\* The entries that a Write with sync adds to those that are durable: the group was synced.
LEMMA SyncedGroup ==
  ASSUME QueueInv, DBAssumption, NEW t \in Threads, thread[t].pc \in Leading, NEW e \in GroupEntries(t),
         NEW u \in Threads, thread[u].sync, thread[u].batch = e.id
  PROVE  thread[t].sync
<1>1. PICK n \in DOMAIN writers_ :
           /\ GroupWriters(t) = {i \in 1..n : thread[writers_[i]].batch # Nil}
           /\ \A i \in 1..n : thread[writers_[i]].sync => thread[t].sync
  BY GroupPlaces
<1>2. PICK i \in GroupWriters(t) :
        e = Entry(versions.last_sequence_ + Cardinality(GroupWriters(t) \cap 1..i), thread[writers_[i]].batch)
  BY DEF GroupEntries
<1>3. e.id = thread[writers_[i]].batch
  BY <1>2 DEF Entry
<1>4. i \in 1..n /\ thread[writers_[i]].batch # Nil /\ writers_[i] \in Threads
  <2>1. writers_ \in Seq(Threads)
    BY DEF QueueInv, QueueTypes
  <2>2. \A k \in 1..n : writers_[k] \in Threads
    BY <2>1, QueuePlaces
  <2> QED BY <1>1, <2>2
<1>5. u = writers_[i]
  BY <1>3, <1>4 DEF QueueInv, BatchesDiffer
<1> QED BY <1>1, <1>4, <1>5

\* The end of a Write.
LEMMA WritesFinished ==
  ASSUME DBAssumption, QueueInv, FileInv, FileInv', WriteInv, NEW t \in Threads, FinishWrite(t)
  PROVE  WriteInv'
<1> DEFINE group == GroupEntries(t)
           size == Cardinality(GroupWriters(t))
           log == logs[logfile_number_]
           old == logs[versions.log_number_]
           current == HeldIn(tables, Files(versions.current))
           fresh == {e \in group : \E u \in Threads : thread[u].sync /\ thread[u].batch = e.id}
<1>0. /\ Running /\ Running' /\ thread[t].pc = "finish" /\ thread \in [Threads -> ThreadType]
      /\ UNCHANGED <<logs, tables, manifest, msynced, mem, imm, logfile_number_, bg>>
      /\ versions' = [versions EXCEPT !.last_sequence_ = @ + size]
  BY DEF FinishWrite, Running, files, QueueInv, QueueTypes
<1>1. /\ versions \in [current : VersionType, log_number_ : Nat, next_file_number_ : Nat, last_sequence_ : Nat]
      /\ thread[t].pc \in Leading /\ thread[t].pc \in Logging /\ thread[t].pc \in AtFront
      /\ logfile_number_ \in DOMAIN logs /\ log \in LogType /\ log.synced <= Len(log.recs)
  BY <1>0 DEF FileInv, FileTypes, OpenFiles, LogNumbers, Leading, Logging, AtFront
<1>2. /\ versions'.current = versions.current /\ versions'.log_number_ = versions.log_number_
      /\ versions'.last_sequence_ = versions.last_sequence_ + size /\ size \in Nat
      /\ versions.last_sequence_ \in Nat /\ versions'.last_sequence_ \in Nat
      /\ versions.last_sequence_ <= versions'.last_sequence_
  <2>1. size \in Nat
    BY <1>1, GroupSize
  <2> HIDE DEF size
  <2> QED BY <1>0, <1>1, <2>1
<1>3. \A u \in Threads : thread'[u].pc \notin Logging
  <2>1. PICK status \in {"error", "ok"}, th \in {thread, RecordError(thread)} : Pop(t, thread[t].last, status, th)
    BY DEF FinishWrite
  <2>2. th \in [Threads -> ThreadType] /\ \A u \in Threads : Wakes(thread[u], th[u])
    BY <1>0, <2>1, RecordErrorWakes DEF Wakes
  <2>3. thread[t].pc \in AtFront /\ status \in {"ok", "error"}
    BY <1>1, <2>1
  <2> HIDE DEF group, size, log, old, current, fresh
  <2>4. \A last : Pop(t, last, status, th) => \A u \in Threads : thread'[u].pc \notin Logging
    BY <2>2, <2>3, NoneLogsThen
  <2> QED BY <2>1, <2>4
<1>4. OpenWrites /\ durable \subseteq owed /\ ManifestSequences
  BY <1>0 DEF WriteInv
<1>5. /\ mem \subseteq Records(log) /\ UNION imm \subseteq Records(old)
      /\ durable \subseteq (mem \cap SyncedRecords(log)) \cup ((UNION imm) \cap SyncedRecords(old)) \cup current
      /\ owed \subseteq mem \cup (UNION imm) \cup current
  BY <1>4 DEF OpenWrites, MemoryIsLogged, DurableIsSynced
<1>6. /\ owed' \subseteq mem \cup (UNION imm) \cup current /\ durable' \subseteq owed'
      /\ durable' \subseteq (mem \cap SyncedRecords(log)) \cup ((UNION imm) \cap SyncedRecords(old)) \cup current
  <2>1. CASE thread[t].status # "ok"
    <3>1. owed' = owed /\ durable' = durable
      BY <2>1 DEF FinishWrite
    <3> QED BY <1>4, <1>5, <3>1
  <2>2. CASE thread[t].status = "ok"
    <3>1. owed' = owed \cup group /\ durable' = durable \cup fresh
      BY <2>2 DEF FinishWrite
    <3>2. group \subseteq mem /\ (thread[t].sync => group \subseteq SyncedRecords(log))
      BY <1>0, <1>4, <2>2 DEF OpenWrites, GroupIsLogged
    <3>3. fresh \subseteq mem \cap SyncedRecords(log)
      BY <1>1, <3>2, SyncedGroup
    <3>4. fresh \subseteq group
      OBVIOUS
    <3> HIDE DEF group, fresh, log, old, current
    <3> QED BY <1>4, <1>5, <3>1, <3>2, <3>3, <3>4
  <2> QED BY <2>1, <2>2
<1>7. MemoryIsLogged' /\ DurableIsSynced' /\ owed' \subseteq mem' \cup (UNION imm') \cup HeldIn(tables', Files(versions'.current))
  BY <1>0, <1>2, <1>5, <1>6 DEF MemoryIsLogged, DurableIsSynced
<1>8. (\A n : Named(n)' = Named(n)) /\ Left' = Left
  BY <1>0, ManifestStays
<1>9. LogsAreReplayed' /\ ManifestSequences'
  BY <1>0, <1>2, <1>4, <1>8 DEF OpenWrites, LogsAreReplayed, ManifestSequences
<1>10. GroupIsLogged'
  BY <1>3 DEF GroupIsLogged, Logging
<1>11. \A n \in Left : manifest[n].seq \in Nat /\ manifest[Len(manifest)].seq \in Nat
  <2>1. \A n \in Left : manifest[n] \in EditType /\ manifest[Len(manifest)] \in EditType
    BY DEF FileInv, FileTypes, Left
  <2> QED BY <2>1 DEF EditType
<1>12. \A e \in AllRecords(logs) \cup InTables(tables) \cup UNION imm : e.seq \in Nat
  <2>1. /\ logs \in [DOMAIN logs -> LogType] /\ tables \in [DOMAIN tables -> SUBSET Entries] /\ imm \in SUBSET SUBSET Entries
    BY DEF FileInv, FileTypes
  <2>2. \A n \in DOMAIN logs : Records(logs[n]) \subseteq Entries
    BY <2>1 DEF Records, LogType
  <2> QED BY <2>1, <2>2 DEF AllRecords, InTables, HeldIn, Entries
<1>13. SequencesAreUsed'
  <2>0. SequencesAreUsed
    BY <1>4 DEF OpenWrites
  <2>1. Unique(AllRecords(logs') \cup InTables(tables'))
    BY <1>0, <2>0 DEF SequencesAreUsed
  <2>2. \A e \in AllRecords(logs) \cup InTables(tables) \cup UNION imm : e.seq <= versions.last_sequence_ => e.seq <= versions'.last_sequence_
    BY <1>2, <1>12
  <2>3. UpTo(UNION imm', versions'.last_sequence_) /\ UpTo(InTables(tables'), versions'.last_sequence_)
    BY <1>0, <2>0, <2>2 DEF SequencesAreUsed, UpTo
  <2>4. ASSUME NEW e \in AllRecords(logs)
        PROVE  e.seq <= versions'.last_sequence_
    <3>1. e.seq <= versions.last_sequence_ \/ \E u \in Threads : thread[u].pc \in Logging /\ e \in GroupEntries(u)
      BY <2>0 DEF SequencesAreUsed
    <3>2. CASE e.seq <= versions.last_sequence_
      BY <2>2, <3>2
    <3>3. CASE \E u \in Threads : thread[u].pc \in Logging /\ e \in GroupEntries(u)
      <4>1. e \in GroupEntries(t)
        BY <1>1, <3>3, OnlyOneLogs
      <4>2. e.seq <= versions.last_sequence_ + size
        BY <1>1, <1>2, <4>1, GroupIsNew
      <4> QED BY <1>2, <4>2
    <3> QED BY <3>1, <3>2, <3>3
  <2>5. \A n \in Left : manifest[n].seq <= versions'.last_sequence_
    <3> SUFFICES ASSUME NEW n \in Left PROVE manifest[n].seq <= versions'.last_sequence_
      OBVIOUS
    <3>1. manifest[n].seq <= versions.last_sequence_
      BY <2>0 DEF SequencesAreUsed
    <3> QED BY <1>2, <1>11, <3>1
  <2> QED BY <1>0, <1>8, <2>1, <2>3, <2>4, <2>5 DEF SequencesAreUsed
<1>14. EditSequences'
  <2>1. bg.edit.seq \in Nat
    BY DEF FileInv, FileTypes, BgType, EditType
  <2>2. EditSequences
    BY <1>4 DEF OpenWrites
  <2>3. bg.edit.seq <= versions.last_sequence_ => bg.edit.seq <= versions'.last_sequence_
    BY <1>2, <2>1
  <2> QED BY <1>0, <2>2, <2>3 DEF EditSequences, InManifest
<1> QED BY <1>0, <1>6, <1>7, <1>9, <1>10, <1>13, <1>14, RunningWrites DEF OpenWrites


\* No write is lost in a step of a client.
LEMMA WritesClientStep ==
  ASSUME DBAssumption, QueueInv, QueueInv', FileInv, FileInv', WriteInv, NEW t \in Threads,
         ThreadStep(t) \/ CompactRange(t) \/ \E sync \in Syncs : Write(t, sync)
  PROVE  WriteInv'
<1>1. CASE \/ Woken(t) \/ RoomFails(t) \/ Delay(t) \/ WaitForRoom(t) \/ BeginLogging(t)
           \/ WaitForFlush(t) \/ ManualCompaction(t) \/ CompactRange(t) \/ \E sync \in Syncs : Write(t, sync)
  BY <1>1, WritesQuietStep
<1>2. CASE SwitchMemTable(t)
  BY <1>2, WritesSwitched
<1>3. CASE AddRecord(t)
  BY <1>3, WritesAdded
<1>4. CASE SyncLog(t)
  BY <1>4, WritesSynced
<1>5. CASE InsertInto(t)
  BY <1>5, WritesInserted
<1>6. CASE FinishWrite(t)
  BY <1>6, WritesFinished
<1> QED BY <1>1, <1>2, <1>3, <1>4, <1>5, <1>6 DEF ThreadStep

-------------------------------------------------------------------------------
(* Writes: the background thread *)

\* An edit that is made has the last sequence number.
LEMMA EditMade ==
  ASSUME FileInv, FileInv', WriteInv, Running, Running', UNCHANGED <<tables, manifest, versions>>,
         bg'.pc = "manifest", bg'.edit.seq = versions.last_sequence_
  PROVE  EditSequences'
<1>1. SequencesAreUsed
  BY DEF WriteInv, OpenWrites
<1>2. Added(bg'.edit) \subseteq DOMAIN tables
  BY DEF FileInv, OpenFiles, EditIsRight, InManifest
<1>3. UpTo(HeldIn(tables, Added(bg'.edit)), versions.last_sequence_)
  <2>1. HeldIn(tables, Added(bg'.edit)) \subseteq InTables(tables)
    BY <1>2, HeldUnion DEF InTables
  <2>2. UpTo(InTables(tables), versions.last_sequence_)
    BY <1>1 DEF SequencesAreUsed
  <2> QED BY <2>1, <2>2 DEF UpTo
<1>4. manifest[Len(manifest)].seq <= versions.last_sequence_
  <2>1. Len(manifest) \in Left
    BY DEF FileInv, FileTypes, Left
  <2> QED BY <1>1, <2>1 DEF SequencesAreUsed
<1>5. versions.last_sequence_ <= versions.last_sequence_
  <2>1. versions.last_sequence_ \in Nat
    BY DEF FileInv, FileTypes
  <2> QED BY <2>1
<1>6. UpTo(HeldIn(tables', Added(bg'.edit)), bg'.edit.seq) /\ bg'.edit.seq <= versions'.last_sequence_
      /\ manifest'[Len(manifest')].seq <= bg'.edit.seq
  BY <1>3, <1>4, <1>5
<1> QED BY <1>6 DEF EditSequences

\* Steps of the background thread that leave the files.
LEMMA WritesWithFiles ==
  ASSUME DBAssumption, QueueInv, QueueInv', FileInv, FileInv', WriteInv, Running, Running', BackgroundStep,
         UNCHANGED <<logs, tables, manifest, msynced, mem, imm, logfile_number_, owed, durable>>,
         versions'.current = versions.current, versions'.log_number_ = versions.log_number_,
         versions'.last_sequence_ = versions.last_sequence_,
         EditSequences' \/ bg'.pc \notin {"manifest", "install"}
  PROVE  WriteInv'
<1>1. GroupsStay
  BY BackgroundGroups
<1>2. EditSequences'
  BY DEF EditSequences, InManifest
<1> QED BY <1>1, <1>2, WritesKept

\* A table is made that the current version and the MANIFEST do not have.
LEMMA WritesTable ==
  ASSUME DBAssumption, QueueInv, QueueInv', FileInv, FileInv', ManifestInv, WriteInv, Running, Running', BackgroundStep,
         UNCHANGED <<logs, manifest, msynced, mem, imm, logfile_number_, owed, durable>>,
         versions'.current = versions.current, versions'.log_number_ = versions.log_number_,
         versions'.last_sequence_ = versions.last_sequence_, bg'.pc \notin {"manifest", "install"},
         NEW g, \A n \in Left : g \notin Named(n), g \notin Files(versions.current),
         \A f \in DOMAIN tables : f # g => f \in DOMAIN tables' /\ tables'[f] = tables[f],
         \A f \in DOMAIN tables' : f = g \/ f \in DOMAIN tables,
         g \in DOMAIN tables' => tables'[g] \subseteq InTables(tables) \cup UNION imm
  PROVE  WriteInv'
<1>1. GroupsStay
  BY BackgroundGroups
<1>2. \A n \in Left : Named(n) \subseteq DOMAIN tables
  BY ManifestInvFacts
<1>3. Files(versions.current) \subseteq DOMAIN tables
  BY DEF FileInv, OpenFiles, InUse
<1>4. \A S : S \subseteq DOMAIN tables /\ g \notin S => HeldIn(tables', S) = HeldIn(tables, S)
  BY DEF HeldIn
<1>5. HeldIn(tables', Files(versions.current)) = HeldIn(tables, Files(versions.current))
  BY <1>3, <1>4
<1>6. \A n \in Left : HeldIn(tables', Named(n)) = HeldIn(tables, Named(n))
  BY <1>2, <1>4
<1>7. InTables(tables') \subseteq InTables(tables) \cup UNION imm
  <2> SUFFICES ASSUME NEW f \in DOMAIN tables' PROVE tables'[f] \subseteq InTables(tables) \cup UNION imm
    BY DEF InTables, HeldIn
  <2>1. CASE f = g
    BY <2>1
  <2>2. CASE f # g
    BY <2>2 DEF InTables, HeldIn
  <2> QED BY <2>1, <2>2
<1>8. EditSequences'
  BY DEF EditSequences, InManifest
<1> QED BY <1>1, <1>5, <1>6, <1>7, <1>8, WritesKept

\* Tables that are written before an edit names them.
LEMMA WritesBuilt ==
  ASSUME DBAssumption, QueueInv, QueueInv', FileInv, FileInv', ManifestInv, WriteInv, BackgroundStep,
         BuildTable \/ OpenCompactionOutputFile \/ FinishCompactionOutputFile
  PROVE  WriteInv'
<1>0. /\ versions \in [current : VersionType, log_number_ : Nat, next_file_number_ : Nat, last_sequence_ : Nat]
      /\ bg \in BgType
  BY DEF FileInv, FileTypes
<1>1. CASE BuildTable
  <2>1. /\ UNCHANGED <<logs, manifest, msynced, mem, imm, logfile_number_, versions, phase, owed, durable>>
        /\ Running /\ Running' /\ bg.pc = "build"
        /\ tables' = tables \/ tables' = With(tables, bg.out, UNION imm)
        /\ bg' \in {[bg EXCEPT !.pc = "built", !.status = s] : s \in {"ok", "error"}}
    BY <1>1 DEF BuildTable, AtBackground, memory, ghosts, Running
  <2>2. bg'.pc = "built"
    BY <1>0, <2>1 DEF BgType
  <2>3. bg.out \notin DOMAIN tables
    BY <2>1 DEF FileInv, OpenFiles, FlushIsRight
  <2>4. /\ \A f \in DOMAIN tables : f # bg.out => f \in DOMAIN tables' /\ tables'[f] = tables[f]
        /\ \A f \in DOMAIN tables' : f = bg.out \/ f \in DOMAIN tables
        /\ bg.out \in DOMAIN tables' => tables'[bg.out] \subseteq InTables(tables) \cup UNION imm
    BY <2>1, <2>3 DEF With
  <2>5. (\A n \in Left : bg.out \notin Named(n)) /\ bg.out \notin Files(versions.current)
    BY <2>1, <2>3, ManifestInvFacts DEF FileInv, OpenFiles, InUse
  <2> QED BY <2>1, <2>2, <2>4, <2>5, WritesTable
<1>2. CASE OpenCompactionOutputFile
  <2> DEFINE number == versions.next_file_number_
  <2>1. /\ UNCHANGED <<logs, manifest, msynced, mem, imm, logfile_number_, phase, owed, durable>>
        /\ Running /\ Running' /\ bg.pc = "compact"
        /\ versions' = [versions EXCEPT !.next_file_number_ = @ + 1]
        /\ tables' = tables \/ tables' = With(tables, number, {})
    BY <1>2 DEF OpenCompactionOutputFile, AtBackground, ghosts, Running
  <2>2. /\ versions'.current = versions.current /\ versions'.log_number_ = versions.log_number_
        /\ versions'.last_sequence_ = versions.last_sequence_
    BY <1>0, <2>1
  <2>3. bg'.pc \notin {"manifest", "install"}
    BY <1>0, <1>2 DEF OpenCompactionOutputFile, BgType
  <2>4. number \notin DOMAIN tables
    BY <1>0, <2>1 DEF FileInv, OpenFiles, NumbersAreOld
  <2> HIDE DEF number
  <2>5. /\ \A f \in DOMAIN tables : f # number => f \in DOMAIN tables' /\ tables'[f] = tables[f]
        /\ \A f \in DOMAIN tables' : f = number \/ f \in DOMAIN tables
        /\ number \in DOMAIN tables' => tables'[number] \subseteq InTables(tables) \cup UNION imm
    BY <2>1, <2>4 DEF With
  <2>6. (\A n \in Left : number \notin Named(n)) /\ number \notin Files(versions.current)
    BY <2>1, <2>4, ManifestInvFacts DEF FileInv, OpenFiles, InUse
  <2> QED BY <2>1, <2>2, <2>3, <2>5, <2>6, WritesTable
<1>3. CASE FinishCompactionOutputFile
  <2>1. /\ UNCHANGED <<logs, manifest, msynced, mem, imm, logfile_number_, versions, phase, owed, durable>>
        /\ Running /\ Running' /\ bg.pc = "writing"
        /\ tables' = tables \/ tables' = [tables EXCEPT ![bg.output] = UNION {tables[f] : f \in bg.inputs}]
    BY <1>3 DEF FinishCompactionOutputFile, AtBackground, memory, ghosts, Running
  <2>2. bg'.pc \notin {"manifest", "install"}
    BY <1>0, <1>3 DEF FinishCompactionOutputFile, BgType
  <2>3. (\A n \in Left : bg.output \notin Named(n)) /\ bg.output \notin Files(versions.current) /\ bg.output \in DOMAIN tables
    BY <2>1 DEF FileInv, OpenFiles, CompactionIsRight, Writing
  <2>4. bg.inputs \subseteq DOMAIN tables
    BY <2>1 DEF FileInv, OpenFiles, CompactionIsRight, InUse
  <2>5. UNION {tables[f] : f \in bg.inputs} \subseteq InTables(tables)
    BY <2>4 DEF InTables, HeldIn
  <2>6. tables[bg.output] \subseteq InTables(tables)
    BY <2>3 DEF InTables, HeldIn
  <2>7. /\ \A f \in DOMAIN tables : f # bg.output => f \in DOMAIN tables' /\ tables'[f] = tables[f]
        /\ \A f \in DOMAIN tables' : f = bg.output \/ f \in DOMAIN tables
        /\ bg.output \in DOMAIN tables' => tables'[bg.output] \subseteq InTables(tables) \cup UNION imm
    BY <2>1, <2>3, <2>5, <2>6
  <2> QED BY <2>1, <2>2, <2>3, <2>7, WritesTable
<1> QED BY <1>1, <1>2, <1>3


\* The steps that only change what the background thread does, or the numbers.
LEMMA WritesBackground ==
  ASSUME DBAssumption, QueueInv, QueueInv', FileInv, FileInv', WriteInv, BackgroundStep,
         \/ NoBackgroundWork \/ NothingToCompact \/ TrivialMove \/ PickCompaction \/ AbandonCompaction
         \/ Flush \/ FlushInCompaction \/ FlushBuilt \/ FinishCompaction
  PROVE  WriteInv'
<1>0. /\ versions \in [current : VersionType, log_number_ : Nat, next_file_number_ : Nat, last_sequence_ : Nat]
      /\ bg \in BgType
  BY DEF FileInv, FileTypes
<1>1. CASE NoBackgroundWork \/ NothingToCompact
  <2>1. /\ UNCHANGED <<files, memory, ghosts, phase>> /\ Running /\ \E th : EndCall(th)
    BY <1>1 DEF NoBackgroundWork, NothingToCompact, AtPick, AtBackground
  <2>2. UNCHANGED <<logs, tables, manifest, msynced, mem, imm, logfile_number_, versions, owed, durable>> /\ Running'
    BY <2>1 DEF files, memory, ghosts, Running
  <2>3. bg'.pc \notin {"manifest", "install"}
    BY <2>1, EndIsIdle DEF BgIdle
  <2> QED BY <2>1, <2>2, <2>3, WritesWithFiles
<1>2. CASE PickCompaction
  <2>1. /\ UNCHANGED <<files, memory, ghosts, phase>> /\ Running
    BY <1>2 DEF PickCompaction, AtPick, AtBackground
  <2>2. UNCHANGED <<logs, tables, manifest, msynced, mem, imm, logfile_number_, versions, owed, durable>> /\ Running'
    BY <2>1 DEF files, memory, ghosts, Running
  <2>3. bg'.pc \notin {"manifest", "install"}
    <3>1. PICK pick \in Picks :
            bg' = [bg EXCEPT !.pc = "compact", !.inputs = Files(pick), !.is_manual = is_manual,
                             !.inputVersion = versions.current]
      BY <1>2 DEF PickCompaction
    <3>2. bg'.pc = "compact"
      BY <1>0, <3>1 DEF BgType
    <3> QED BY <3>2
  <2> QED BY <2>1, <2>2, <2>3, WritesWithFiles
<1>3. CASE AbandonCompaction
  <2>1. /\ UNCHANGED <<files, memory, ghosts, phase>> /\ Running
    BY <1>3 DEF AbandonCompaction, shutting_down_, Running
  <2>2. UNCHANGED <<logs, tables, manifest, msynced, mem, imm, logfile_number_, versions, owed, durable>> /\ Running'
    BY <2>1 DEF files, memory, ghosts, Running
  <2>3. bg'.pc \notin {"manifest", "install"}
    BY <1>0, <1>3 DEF AbandonCompaction, BgType
  <2> QED BY <2>1, <2>2, <2>3, WritesWithFiles
<1>4. CASE Flush \/ FlushInCompaction
  <2>1. PICK caller : BeginFlush(caller) /\ Running
    BY <1>4 DEF Flush, FlushInCompaction, AtBackground
  <2>2. /\ UNCHANGED <<logs, tables, manifest, msynced, mem, imm, logfile_number_, owed, durable>> /\ Running'
        /\ versions' = [versions EXCEPT !.next_file_number_ = @ + 1]
    BY <2>1 DEF BeginFlush, files, ghosts, Running
  <2>3. /\ versions'.current = versions.current /\ versions'.log_number_ = versions.log_number_
        /\ versions'.last_sequence_ = versions.last_sequence_
    BY <1>0, <2>2
  <2>4. bg'.pc \notin {"manifest", "install"}
    BY <1>0, <2>1 DEF BeginFlush, BgType
  <2> QED BY <2>1, <2>2, <2>3, <2>4, WritesWithFiles
<1>5. CASE FlushBuilt
  <2>1. /\ UNCHANGED <<logs, tables, manifest, msynced, mem, imm, logfile_number_, versions, phase, owed, durable>>
        /\ Running /\ Running' /\ bg.pc = "built"
    BY <1>5 DEF FlushBuilt, AtBackground, files, ghosts, Running
  <2>2. CASE bg.status = "error" \/ shutting_down_
    <3>1. FlushReturns /\ Flushing
      BY <1>5, <2>1, <2>2 DEF FlushBuilt, Flushing
    <3>2. bg'.pc \notin {"manifest", "install"}
      BY <2>1, <3>1, IdleOrCalled
    <3> QED BY <2>1, <3>2, WritesWithFiles
  <2>3. CASE ~(bg.status = "error" \/ shutting_down_)
    <3> DEFINE file == IF UNION imm = {} THEN {} ELSE {bg.out}
               edit(l0) == Edit(l0, file \ l0, {}, logfile_number_, versions.next_file_number_, versions.last_sequence_)
    <3>1. PICK l0 \in {{}, file} : bg' = [bg EXCEPT !.pc = "manifest", !.edit = edit(l0)]
      BY <1>5, <2>3 DEF FlushBuilt
    <3>2. edit(l0).seq = versions.last_sequence_
      BY DEF Edit
    <3> HIDE DEF edit
    <3>3. bg'.pc = "manifest" /\ bg'.edit = edit(l0)
      BY <1>0, <3>1 DEF BgType
    <3>4. EditSequences'
      BY <2>1, <3>2, <3>3, EditMade
    <3> QED BY <2>1, <3>4, WritesWithFiles
  <2> QED BY <2>2, <2>3
<1>6. CASE TrivialMove
  <2>1. /\ UNCHANGED <<files, memory, ghosts, phase>> /\ Running
    BY <1>6 DEF TrivialMove, AtPick, AtBackground
  <2>2. UNCHANGED <<logs, tables, manifest, msynced, mem, imm, logfile_number_, versions, owed, durable>> /\ Running'
    BY <2>1 DEF files, memory, ghosts, Running
  <2> DEFINE edit(f) == Edit({}, {f}, {f}, versions.log_number_, versions.next_file_number_, versions.last_sequence_)
  <2>3. PICK f \in versions.current.l0 : bg' = [bg EXCEPT !.pc = "manifest", !.edit = edit(f)]
    BY <1>6 DEF TrivialMove
  <2>4. edit(f).seq = versions.last_sequence_
    BY DEF Edit
  <2> HIDE DEF edit
  <2>5. bg'.pc = "manifest" /\ bg'.edit = edit(f)
    BY <1>0, <2>3 DEF BgType
  <2>6. EditSequences'
    BY <2>1, <2>2, <2>4, <2>5, EditMade
  <2> QED BY <2>1, <2>2, <2>6, WritesWithFiles
<1>7. CASE FinishCompaction /\ bg.status # "error"
  <2>1. /\ UNCHANGED <<files, memory, ghosts, phase>> /\ Running
    BY <1>7 DEF FinishCompaction, AtBackground
  <2>2. UNCHANGED <<logs, tables, manifest, msynced, mem, imm, logfile_number_, versions, owed, durable>> /\ Running'
    BY <2>1 DEF files, memory, ghosts, Running
  <2> DEFINE edit == Edit({}, {bg.output}, bg.inputs, versions.log_number_, versions.next_file_number_, versions.last_sequence_)
  <2>3. bg' = [bg EXCEPT !.pc = "manifest", !.edit = edit]
    BY <1>7 DEF FinishCompaction
  <2>4. edit.seq = versions.last_sequence_
    BY DEF Edit
  <2> HIDE DEF edit
  <2>5. bg'.pc = "manifest" /\ bg'.edit = edit
    BY <1>0, <2>3 DEF BgType
  <2>6. EditSequences'
    BY <2>1, <2>2, <2>4, <2>5, EditMade
  <2> QED BY <2>1, <2>2, <2>6, WritesWithFiles
<1>8. CASE FinishCompaction /\ bg.status = "error"
  <2>1. /\ CompactionEnds /\ Running /\ UNCHANGED <<logs, tables, manifest, msynced, mem, imm, logfile_number_, versions>>
        /\ UNCHANGED <<phase, ghosts>>
    BY <1>8 DEF FinishCompaction, AtBackground, CompactionEnds
  <2>2. UNCHANGED <<owed, durable>> /\ Running'
    BY <2>1 DEF ghosts, Running
  <2>3. bg'.pc \notin {"manifest", "install"}
    BY <2>1, CompactionEndsIdle DEF BgIdle
  <2> QED BY <2>1, <2>2, <2>3, WritesWithFiles
<1> QED BY <1>1, <1>2, <1>3, <1>4, <1>5, <1>6, <1>7, <1>8

\* An edit is written to the MANIFEST.
LEMMA WritesEdited ==
  ASSUME DBAssumption, QueueInv, QueueInv', FileInv, FileInv', ManifestInv, WriteInv, BackgroundStep, WriteManifest
  PROVE  WriteInv'
<1> DEFINE last == Len(manifest)
           added == Added(bg.edit)
<1>0. /\ UNCHANGED <<logs, tables, mem, imm, logfile_number_, versions, phase, owed, durable>>
      /\ Running /\ Running' /\ bg.pc = "manifest"
      /\ bg' = [bg EXCEPT !.pc = "install"] \/ bg' = [bg EXCEPT !.pc = "install", !.status = "error"]
  BY DEF WriteManifest, AtBackground, memory, ghosts, Running
<1>1. bg'.pc = "install" /\ bg'.edit = bg.edit /\ bg' \in BgType /\ bg \in BgType
  <2>1. bg \in BgType
    BY DEF FileInv, FileTypes
  <2>2. bg'.pc = "install" /\ bg'.edit = bg.edit
    BY <1>0, <2>1 DEF BgType
  <2> QED BY <2>1, <2>2 DEF FileInv, FileTypes
<1>2. /\ \A n \in Left' : \/ n \in Left /\ Named(n)' = Named(n) /\ manifest'[n] = manifest[n]
                          \/ /\ manifest'[n] = bg.edit
                             /\ Named(n)' = (Named(last) \ bg.edit.deleted) \cup added
      /\ last \in Left
  BY ManifestWritten
<1>3. OpenWrites /\ ManifestSequences /\ FlushIsRight /\ CompactionIsRight
  BY <1>0 DEF WriteInv, FileInv, OpenFiles
<1>4. LogsAreReplayed'
  <2> SUFFICES ASSUME NEW n \in Left'
               PROVE  \/ manifest'[n].log <= versions.log_number_
                      \/ imm # {} /\ manifest'[n].log <= logfile_number_ /\ UNION imm \subseteq HeldIn(tables, Named(n)')
    BY <1>0 DEF LogsAreReplayed
  <2>1. CASE n \in Left /\ Named(n)' = Named(n) /\ manifest'[n] = manifest[n]
    BY <1>3, <2>1 DEF OpenWrites, LogsAreReplayed
  <2>2. CASE manifest'[n] = bg.edit /\ Named(n)' = (Named(last) \ bg.edit.deleted) \cup added
    <3>1. CASE bg.out = Nil
      <4>1. bg.edit.log = versions.log_number_ /\ versions.log_number_ \in Nat
        BY <1>0, <1>3, <3>1 DEF CompactionIsRight, InManifest, FileInv, FileTypes
      <4> QED BY <2>2, <4>1
    <3>2. CASE bg.out # Nil
      <4>1. bg.edit.log = logfile_number_ /\ logfile_number_ \in Nat /\ imm # {}
        BY <1>0, <1>3, <3>2 DEF FlushIsRight, Flushing, InManifest, FileInv, FileTypes
      <4>2. UNION imm \subseteq HeldIn(tables, added)
        <5>1. UNION imm # {} => added = {bg.out} /\ tables[bg.out] = UNION imm
          BY <1>0, <1>3, <3>2 DEF FlushIsRight, InManifest
        <5> HIDE DEF added
        <5> QED BY <5>1 DEF HeldIn
      <4>3. HeldIn(tables, added) \subseteq HeldIn(tables, Named(n)')
        <5> HIDE DEF added
        <5>1. added \subseteq Named(n)'
          BY <2>2
        <5> QED BY <5>1, HeldUnion
      <4>4. manifest'[n].log <= logfile_number_
        BY <2>2, <4>1
      <4> HIDE DEF added, last
      <4> QED BY <4>1, <4>2, <4>3, <4>4
    <3> QED BY <3>1, <3>2
  <2> QED BY <1>2, <2>1, <2>2
<1>5. /\ UpTo(HeldIn(tables, added), bg.edit.seq) /\ bg.edit.seq <= versions.last_sequence_
      /\ manifest[last].seq <= bg.edit.seq
  BY <1>0, <1>3 DEF OpenWrites, EditSequences, InManifest
<1>6. \A n \in Left' : manifest'[n].seq <= versions'.last_sequence_
  BY <1>0, <1>2, <1>3, <1>5 DEF OpenWrites, SequencesAreUsed
<1>7. ManifestSequences'
  <2> SUFFICES ASSUME NEW n \in Left' PROVE UpTo(HeldIn(tables, Named(n)'), manifest'[n].seq)
    BY <1>0 DEF ManifestSequences
  <2>1. CASE n \in Left /\ Named(n)' = Named(n) /\ manifest'[n] = manifest[n]
    BY <1>3, <2>1 DEF ManifestSequences
  <2>2. CASE manifest'[n] = bg.edit /\ Named(n)' = (Named(last) \ bg.edit.deleted) \cup added
    <3>1. UpTo(HeldIn(tables, Named(last)), manifest[last].seq)
      BY <1>2, <1>3 DEF ManifestSequences
    <3>2. HeldIn(tables, Named(n)') \subseteq HeldIn(tables, Named(last)) \cup HeldIn(tables, added)
      BY <2>2 DEF HeldIn
    <3>3. \A e \in HeldIn(tables, Named(last)) : e.seq \in Nat
      <4>1. Named(last) \subseteq DOMAIN tables /\ tables \in [DOMAIN tables -> SUBSET Entries]
        BY <1>2, ManifestInvFacts DEF FileInv, FileTypes
      <4> HIDE DEF last
      <4> QED BY <4>1 DEF HeldIn, Entries
    <3>4. manifest[last].seq \in Nat /\ bg.edit.seq \in Nat
      <4>1. manifest[last] \in EditType
        BY <1>2 DEF FileInv, FileTypes, Left
      <4> QED BY <1>1, <4>1 DEF BgType, EditType
    <3>5. UpTo(HeldIn(tables, Named(last)), bg.edit.seq)
      <4> SUFFICES ASSUME NEW e \in HeldIn(tables, Named(last)) PROVE e.seq <= bg.edit.seq
        BY DEF UpTo
      <4>1. e.seq <= manifest[last].seq /\ e.seq \in Nat
        BY <3>1, <3>3 DEF UpTo
      <4> QED BY <1>5, <3>4, <4>1
    <3> HIDE DEF added, last
    <3> QED BY <1>5, <2>2, <3>2, <3>5 DEF UpTo
  <2> QED BY <1>2, <2>1, <2>2
<1>8. EditSequences'
  BY <1>0, <1>1, <1>5 DEF EditSequences
<1>9. GroupsStay
  BY <1>0, BackgroundGroups
<1> QED BY <1>0, <1>4, <1>6, <1>7, <1>8, <1>9, OpenWritesKept


\* Obsolete files are deleted when a version is installed.
LEMMA WritesDeleted ==
  ASSUME DBAssumption, QueueInv, QueueInv', FileInv, FileInv', ManifestInv', WriteInv, Running, Running', BackgroundStep,
         UNCHANGED <<manifest, msynced, mem, logfile_number_, owed, durable>>,
         versions'.last_sequence_ = versions.last_sequence_, bg'.pc \notin {"manifest", "install"},
         \A n \in DOMAIN logs' : n \in DOMAIN logs /\ logs'[n] = logs[n],
         \A f \in DOMAIN tables' : f \in DOMAIN tables /\ tables'[f] = tables[f],
         HeldIn(tables, Files(versions.current)) \subseteq HeldIn(tables, Files(versions'.current)),
         \/ imm' = imm /\ versions'.log_number_ = versions.log_number_
         \/ /\ imm' = {} /\ versions'.log_number_ = logfile_number_
            /\ UNION imm \subseteq HeldIn(tables, Files(versions'.current))
  PROVE  WriteInv'
<1>1. GroupsStay
  BY BackgroundGroups
<1>2. EditSequences'
  BY DEF EditSequences, InManifest
<1>3. (\A n : Named(n)' = Named(n)) /\ Left' = Left
  BY ManifestStays
<1>4. \A S : S \subseteq DOMAIN tables' => HeldIn(tables', S) = HeldIn(tables, S)
  BY DEF HeldIn
<1>5. \A n \in Left : HeldIn(tables', Named(n)) = HeldIn(tables, Named(n))
  <2>1. \A n \in Left : Named(n) \subseteq DOMAIN tables'
    BY <1>3, ManifestInvFactsNext
  <2> QED BY <1>4, <2>1
<1>6. HeldIn(tables', Files(versions'.current)) = HeldIn(tables, Files(versions'.current))
  <2>1. Files(versions'.current) \subseteq DOMAIN tables'
    BY DEF FileInv, OpenFiles, InUse, Files
  <2> QED BY <1>4, <2>1
<1>7. InTables(tables') \subseteq InTables(tables) \cup UNION imm
  BY DEF InTables, HeldIn
<1> QED BY <1>1, <1>2, <1>5, <1>6, <1>7, WritesKept

\* The table of a memtable replaces it.
LEMMA WritesFlushInstalled ==
  ASSUME DBAssumption, QueueInv, QueueInv', FileInv, FileInv', ManifestInv', WriteInv, BackgroundStep, InstallFlush
  PROVE  WriteInv'
<1>1. FileTypes
  BY DEF FileInv
<1>2. /\ UNCHANGED <<manifest, msynced, mem, logfile_number_, phase, pending_outputs_, owed, durable>>
      /\ Running /\ Running' /\ bg.pc = "install" /\ bg.out # Nil /\ InstallVersion /\ FlushReturns
      /\ bg_error_' = (bg_error_ \/ bg.status = "error")
      /\ imm' = IF bg.status = "error" THEN imm ELSE {}
      /\ IF bg_error_' THEN UNCHANGED <<logs, tables>>
         ELSE DeleteObsoleteFiles(versions'.current, bg, pending_outputs_, versions'.log_number_, tables)
  BY DEF InstallFlush, AtBackground, ghosts, Running
<1>3. bg'.pc \notin {"manifest", "install"}
  <2>1. Flushing
    BY <1>2 DEF Flushing, InManifest
  <2> QED BY <1>2, <2>1, IdleOrCalled
<1> DEFINE kept == Files(versions'.current) \cup Pins(bg) \cup pending_outputs_
<1>4. FilesLeft(kept, versions'.log_number_)
  BY <1>1, <1>2, UnchangedLeft, DeletedLeft
<1> HIDE DEF kept
<1>5. /\ \A n \in DOMAIN logs' : n \in DOMAIN logs /\ logs'[n] = logs[n]
      /\ \A f \in DOMAIN tables' : f \in DOMAIN tables /\ tables'[f] = tables[f]
  BY <1>4 DEF FilesLeft
<1>6. /\ versions'.last_sequence_ = versions.last_sequence_
      /\ bg.status = "error" => versions' = versions
      /\ bg.status # "error" =>
           /\ versions'.log_number_ = bg.edit.log
           /\ Files(versions'.current) = (Files(versions.current) \ bg.edit.deleted) \cup Added(bg.edit)
  BY <1>2, VersionInstalled DEF InManifest
<1>7. CASE bg.status = "error"
  <2>1. versions' = versions /\ imm' = imm
    BY <1>2, <1>6, <1>7
  <2> QED BY <1>2, <1>3, <1>5, <2>1, WritesDeleted
<1>8. CASE bg.status # "error"
  <2>1. /\ bg.edit.deleted = {} /\ bg.edit.log = logfile_number_
        /\ UNION imm = {} => Added(bg.edit) = {}
        /\ UNION imm # {} => Added(bg.edit) = {bg.out} /\ tables[bg.out] = UNION imm
    BY <1>2 DEF FileInv, OpenFiles, FlushIsRight, InManifest
  <2>2. UNION imm \subseteq HeldIn(tables, Added(bg.edit))
    BY <2>1 DEF HeldIn
  <2>3. Files(versions'.current) = Files(versions.current) \cup Added(bg.edit)
    BY <1>6, <1>8, <2>1
  <2>4. /\ HeldIn(tables, Files(versions.current)) \subseteq HeldIn(tables, Files(versions'.current))
        /\ UNION imm \subseteq HeldIn(tables, Files(versions'.current))
    BY <2>2, <2>3, HeldUnion
  <2>5. imm' = {} /\ versions'.log_number_ = logfile_number_
    BY <1>2, <1>6, <1>8, <2>1
  <2> QED BY <1>2, <1>3, <1>5, <1>6, <2>4, <2>5, WritesDeleted
<1> QED BY <1>7, <1>8

\* The output of a compaction replaces its inputs.
LEMMA WritesCompactionInstalled ==
  ASSUME DBAssumption, QueueInv, QueueInv', FileInv, FileInv', ManifestInv', WriteInv, BackgroundStep, InstallCompaction
  PROVE  WriteInv'
<1>1. FileTypes
  BY DEF FileInv
<1>2. /\ UNCHANGED <<manifest, msynced, mem, imm, logfile_number_, phase, owed, durable>>
      /\ Running /\ Running' /\ bg.pc = "install" /\ bg.out = Nil /\ InstallVersion /\ CompactionEnds
      /\ \/ UNCHANGED <<logs, tables>>
         \/ DeleteObsoleteFiles(versions'.current, BackgroundOff, pending_outputs_', versions'.log_number_, tables)
  BY DEF InstallCompaction, AtBackground, CompactionEnds, ghosts, Running
<1>3. bg'.pc \notin {"manifest", "install"}
  BY <1>2, CompactionEndsIdle DEF BgIdle
<1> DEFINE kept == Files(versions'.current) \cup Pins(BackgroundOff) \cup pending_outputs_'
<1>4. FilesLeft(kept, versions'.log_number_)
  BY <1>1, <1>2, UnchangedLeft, DeletedLeft
<1> HIDE DEF kept
<1>5. /\ \A n \in DOMAIN logs' : n \in DOMAIN logs /\ logs'[n] = logs[n]
      /\ \A f \in DOMAIN tables' : f \in DOMAIN tables /\ tables'[f] = tables[f]
  BY <1>4 DEF FilesLeft
<1>6. /\ versions'.last_sequence_ = versions.last_sequence_
      /\ bg.status = "error" => versions' = versions
      /\ bg.status # "error" =>
           /\ versions'.log_number_ = bg.edit.log
           /\ Files(versions'.current) = (Files(versions.current) \ bg.edit.deleted) \cup Added(bg.edit)
  BY <1>2, VersionInstalled DEF InManifest
<1>7. CASE bg.status = "error"
  <2>1. versions' = versions
    BY <1>6, <1>7
  <2> QED BY <1>2, <1>3, <1>5, <2>1, WritesDeleted
<1>8. CASE bg.status # "error"
  <2>1. /\ bg.edit.log = versions.log_number_
        /\ HeldIn(tables, bg.edit.deleted) \subseteq HeldIn(tables, Added(bg.edit))
    BY <1>2 DEF FileInv, OpenFiles, CompactionIsRight, EditIsRight, InManifest, Held, HeldIn
  <2>2. HeldIn(tables, Files(versions.current)) \subseteq HeldIn(tables, Files(versions'.current))
    BY <1>6, <1>8, <2>1, HeldEdited
  <2>3. versions'.log_number_ = versions.log_number_
    BY <1>6, <1>8, <2>1
  <2> QED BY <1>2, <1>3, <1>5, <1>6, <2>2, <2>3, WritesDeleted
<1> QED BY <1>7, <1>8

\* No write is lost in a step of the background thread.
LEMMA WritesBackgroundStep ==
  ASSUME DBAssumption, QueueInv, QueueInv', FileInv, FileInv', ManifestInv, ManifestInv', WriteInv, BackgroundStep
  PROVE  WriteInv'
<1>1. CASE \/ NoBackgroundWork \/ NothingToCompact \/ TrivialMove \/ PickCompaction \/ AbandonCompaction
           \/ Flush \/ FlushInCompaction \/ FlushBuilt \/ FinishCompaction
  BY <1>1, WritesBackground
<1>2. CASE BuildTable \/ OpenCompactionOutputFile \/ FinishCompactionOutputFile
  BY <1>2, WritesBuilt
<1>3. CASE WriteManifest
  BY <1>3, WritesEdited
<1>4. CASE InstallFlush
  BY <1>4, WritesFlushInstalled
<1>5. CASE InstallCompaction
  BY <1>5, WritesCompactionInstalled
<1> QED BY <1>1, <1>2, <1>3, <1>4, <1>5 DEF BackgroundStep


-------------------------------------------------------------------------------
(* Writes: crashes and recovery *)

\* Whatever a crash of the process leaves, it has what was written, but for what no reader finds.
LEMMA WritesOnDisk ==
  ASSUME FileInv, ManifestInv, WriteInv
  PROVE  /\ OnDisk(owed \ Unrecoverable(Len(manifest)), durable \ Unrecoverable(msynced))
         /\ ManifestSequences /\ durable \subseteq owed
<1>0. ManifestSequences /\ durable \subseteq owed /\ (~Running => DiskWrites)
  BY DEF WriteInv
<1>1. ASSUME Running, NEW n \in Left
      PROVE  /\ owed \ Unrecoverable(n) \subseteq Found(n)
             /\ durable \ Unrecoverable(msynced) \subseteq FoundSynced(n) /\ Unique(Found(n))
  <2> DEFINE from == manifest[n].log
             log == logs[logfile_number_]
             old == logs[versions.log_number_]
             named == HeldIn(tables, Named(n))
             current == HeldIn(tables, Files(versions.current))
             lost == UNION {logs[m].unread : m \in DOMAIN logs}
  <2>0. OpenWrites
    BY <1>1 DEF WriteInv
  <2>1. /\ logfile_number_ \in DOMAIN logs /\ versions.log_number_ \in DOMAIN logs
        /\ versions.log_number_ <= logfile_number_
        /\ from \in Nat /\ logfile_number_ \in Nat /\ versions.log_number_ \in Nat
    <3>1. manifest[n] \in EditType
      BY DEF FileInv, FileTypes, Left
    <3>2. LogNumbers /\ logfile_number_ \in Nat /\ DOMAIN logs \subseteq Nat
      BY <1>1 DEF FileInv, FileTypes, OpenFiles
    <3> QED BY <3>1, <3>2 DEF LogNumbers, EditType
  <2>2. current \subseteq named /\ Named(n) \subseteq DOMAIN tables
    BY <1>1, ManifestInvFacts
  <2>3. /\ mem \subseteq Records(log) /\ UNION imm \subseteq Records(old)
        /\ durable \subseteq (mem \cap SyncedRecords(log)) \cup ((UNION imm) \cap SyncedRecords(old)) \cup current
        /\ owed \subseteq mem \cup (UNION imm) \cup current
    BY <2>0 DEF OpenWrites, MemoryIsLogged, DurableIsSynced
  <2>4. from <= logfile_number_ /\ (from <= versions.log_number_ \/ UNION imm \subseteq named)
    <3>1. \/ from <= versions.log_number_
          \/ imm # {} /\ from <= logfile_number_ /\ UNION imm \subseteq named
      BY <2>0 DEF OpenWrites, LogsAreReplayed
    <3> HIDE DEF from, named
    <3> QED BY <2>1, <3>1
  <2>5. /\ Readable(log) \subseteq RecordsFrom(logs, from) /\ ReadableSynced(log) \subseteq SyncedFrom(logs, from)
        /\ from <= versions.log_number_ =>
             Readable(old) \subseteq RecordsFrom(logs, from) /\ ReadableSynced(old) \subseteq SyncedFrom(logs, from)
    <3>1. \A m \in DOMAIN logs : m >= from =>
            Readable(logs[m]) \subseteq RecordsFrom(logs, from) /\ ReadableSynced(logs[m]) \subseteq SyncedFrom(logs, from)
      BY DEF RecordsFrom, SyncedFrom
    <3> HIDE DEF from
    <3> QED BY <2>1, <2>4, <3>1
  <2>6. RecordsFrom(logs, from) \subseteq AllRecords(logs)
    BY DEF RecordsFrom, AllRecords, Readable
  <2>7. named \subseteq InTables(tables)
    BY <2>2, HeldUnion DEF InTables
  <2>8. Found(n) = named \cup RecordsFrom(logs, from) /\ FoundSynced(n) = named \cup SyncedFrom(logs, from)
    BY DEF Found, FoundSynced
  <2>9. Unique(AllRecords(logs) \cup InTables(tables))
    BY <2>0 DEF OpenWrites, SequencesAreUsed
  <2>10. /\ Records(log) \subseteq Readable(log) \cup lost /\ SyncedRecords(log) \subseteq ReadableSynced(log) \cup lost
         /\ Records(old) \subseteq Readable(old) \cup lost /\ SyncedRecords(old) \subseteq ReadableSynced(old) \cup lost
    BY <2>1 DEF Readable, ReadableSynced
  <2>11. Unrecoverable(n) = lost \ named /\ Unrecoverable(msynced) = lost \ HeldIn(tables, Named(msynced))
    BY DEF Unrecoverable, Held, HeldIn, Named
  <2>12. HeldIn(tables, Named(msynced)) \subseteq named
    BY ManifestInvFacts
  <2> HIDE DEF from, log, old, named, current, lost
  <2>13. owed \ Unrecoverable(n) \subseteq Found(n)
    BY <2>2, <2>3, <2>4, <2>5, <2>8, <2>10, <2>11
  <2>14. durable \ Unrecoverable(msynced) \subseteq FoundSynced(n)
    BY <2>2, <2>3, <2>4, <2>5, <2>8, <2>10, <2>11, <2>12
  <2>15. Unique(Found(n))
    BY <2>6, <2>7, <2>8, <2>9 DEF Unique
  <2> QED BY <2>13, <2>15, <2>14
<1>2. CASE Running
  BY <1>0, <1>1, <1>2 DEF OnDisk
<1>3. CASE ~Running
  BY <1>0, <1>3 DEF DiskWrites, OnDisk
<1> QED BY <1>2, <1>3

\* Facts on what is on disk for the next state.
LEMMA FoundNext ==
  ASSUME NEW n
  PROVE  /\ Found(n)' = HeldIn(tables', Named(n)') \cup RecordsFrom(logs', manifest'[n].log)
         /\ FoundSynced(n)' = HeldIn(tables', Named(n)') \cup SyncedFrom(logs', manifest'[n].log)
BY DEF Found, FoundSynced

\* What a recovery finds depends on what is on disk alone.
LEMMA DiskStays ==
  ASSUME FileInv, OnDisk(owed', durable'), ManifestSequences, durable' \subseteq owed',
         UNCHANGED <<manifest, msynced>>,
         \A n \in Left : HeldIn(tables', Named(n)) = HeldIn(tables, Named(n)),
         \A log \in Nat : /\ RecordsFrom(logs', log) = RecordsFrom(logs, log)
                          /\ SyncedFrom(logs', log) = SyncedFrom(logs, log)
  PROVE  /\ DiskWrites' /\ ManifestSequences' /\ durable' \subseteq owed'
         /\ \A n \in Left : Found(n)' = Found(n)
<1>1. (\A n : Named(n)' = Named(n)) /\ Left' = Left
  BY ManifestStays
<1>2. \A n \in Left : manifest[n].log \in Nat
  <2>1. \A n \in Left : manifest[n] \in EditType
    BY DEF FileInv, FileTypes, Left
  <2> QED BY <2>1 DEF EditType
<1>3. \A n \in Left : Found(n)' = Found(n) /\ FoundSynced(n)' = FoundSynced(n)
  <2> SUFFICES ASSUME NEW n \in Left PROVE Found(n)' = Found(n) /\ FoundSynced(n)' = FoundSynced(n)
    OBVIOUS
  <2>1. /\ Found(n)' = HeldIn(tables', Named(n)') \cup RecordsFrom(logs', manifest'[n].log)
        /\ FoundSynced(n)' = HeldIn(tables', Named(n)') \cup SyncedFrom(logs', manifest'[n].log)
    BY FoundNext
  <2>2. Found(n) = HeldIn(tables, Named(n)) \cup RecordsFrom(logs, manifest[n].log)
        /\ FoundSynced(n) = HeldIn(tables, Named(n)) \cup SyncedFrom(logs, manifest[n].log)
    BY DEF Found, FoundSynced
  <2> QED BY <1>1, <1>2, <2>1, <2>2
<1>4. DiskWrites'
  BY <1>1, <1>3 DEF DiskWrites, OnDisk
<1>5. ManifestSequences'
  BY <1>1 DEF ManifestSequences
<1> QED BY <1>3, <1>4, <1>5

\* A process that stops loses no write that a reader finds.
LEMMA WritesGone ==
  ASSUME FileInv, ManifestInv, WriteInv, Stops
  PROVE  WriteInv'
<1>1. /\ UNCHANGED <<logs, tables, manifest, msynced>> /\ phase' = "closed"
      /\ owed' = owed \ Unrecoverable(Len(manifest)) /\ durable' = durable \ Unrecoverable(msynced)
  BY DEF Stops, Gone, files
<1>2. OnDisk(owed', durable') /\ ManifestSequences /\ durable \subseteq owed
  BY <1>1, WritesOnDisk
<1>3. durable' \subseteq owed'
  <2>1. Len(manifest) \in Left
    BY DEF FileInv, FileTypes, Left
  <2>2. HeldIn(tables, Named(msynced)) \subseteq HeldIn(tables, Named(Len(manifest)))
    BY <2>1, ManifestInvFacts
  <2>3. Unrecoverable(Len(manifest)) \subseteq Unrecoverable(msynced)
    BY <2>2 DEF Unrecoverable, Held, HeldIn, Named
  <2> QED BY <1>1, <1>2, <2>3
<1>4. DiskWrites' /\ ManifestSequences' /\ durable' \subseteq owed'
  BY <1>1, <1>2, <1>3, DiskStays
<1> QED BY <1>1, <1>4 DEF WriteInv, Running

\* A crash of the machine.
LEMMA WritesCrashed ==
  ASSUME DBAssumption, FileInv, ManifestInv, WriteInv, MachineCrashes
  PROVE  WriteInv'
<1>1. PICK n \in Left : /\ Len(manifest') = n /\ Left' = {n} /\ manifest'[n] = manifest[n] /\ Named(n)' = Named(n)
  BY CrashLeaves
<1>2. /\ tables' = tables /\ durable' = durable \ Unrecoverable(msynced) /\ phase' = "closed"
      /\ owed' = owed \cap (durable' \cup Held(Files(VersionOf(manifest, msynced))))
  BY DEF MachineCrashes, Gone
<1>3. (\A k \in Left : durable' \subseteq FoundSynced(k) /\ Unique(Found(k))) /\ ManifestSequences /\ durable \subseteq owed
  BY <1>2, WritesOnDisk DEF OnDisk
<1>4. /\ DOMAIN logs' = DOMAIN logs
      /\ \A m \in DOMAIN logs : /\ ReadableSynced(logs[m]) \subseteq ReadableSynced(logs'[m])
                                /\ ReadableSynced(logs'[m]) = Readable(logs'[m])
                                /\ Readable(logs'[m]) \subseteq Readable(logs[m])
  <2>1. /\ logs' \in [DOMAIN logs' -> LogType] /\ DOMAIN logs' = DOMAIN logs /\ logs \in [DOMAIN logs -> LogType]
        /\ \A m \in DOMAIN logs :
              /\ logs'[m].synced = Len(logs'[m].recs) /\ Len(logs'[m].recs) <= Len(logs[m].recs)
              /\ logs[m].synced <= Len(logs'[m].recs)
              /\ \A i \in 1..Len(logs'[m].recs) : logs'[m].recs[i] = logs[m].recs[i]
              /\ logs'[m].unread = logs[m].unread
    BY CrashLeaves DEF FileInv, FileTypes
  <2> SUFFICES ASSUME NEW m \in DOMAIN logs
               PROVE  /\ ReadableSynced(logs[m]) \subseteq ReadableSynced(logs'[m])
                      /\ ReadableSynced(logs'[m]) = Readable(logs'[m])
                      /\ Readable(logs'[m]) \subseteq Readable(logs[m])
    BY <2>1
  <2> DEFINE old == logs[m]
             new == logs'[m]
  <2>2. old \in LogType /\ new \in LogType
    BY <2>1
  <2>3. /\ new.synced = Len(new.recs) /\ Len(new.recs) <= Len(old.recs) /\ old.synced <= Len(new.recs)
        /\ \A i \in 1..Len(new.recs) : new.recs[i] = old.recs[i]
        /\ new.unread = old.unread
    BY <2>1
  <2> HIDE DEF old, new
  <2>4. /\ old.recs \in Seq(SUBSET Entries) /\ new.recs \in Seq(SUBSET Entries) /\ old.synced \in Nat
    BY <2>2 DEF LogType
  <2>5. /\ DOMAIN new.recs = 1..Len(new.recs) /\ DOMAIN new.recs \subseteq DOMAIN old.recs
        /\ 1..old.synced \subseteq 1..new.synced /\ 1..new.synced = DOMAIN new.recs
        /\ \A i \in 1..old.synced : new.recs[i] = old.recs[i]
    BY <2>3, <2>4
  <2>6. SyncedRecords(old) \subseteq SyncedRecords(new)
    BY <2>5 DEF SyncedRecords
  <2>7. SyncedRecords(new) = Records(new)
    BY <2>5 DEF SyncedRecords, Records
  <2>8. Records(new) \subseteq Records(old)
    BY <2>3, <2>5 DEF Records
  <2>9. /\ ReadableSynced(old) \subseteq ReadableSynced(new)
        /\ ReadableSynced(new) = Readable(new) /\ Readable(new) \subseteq Readable(old)
    BY <2>3, <2>6, <2>7, <2>8 DEF Readable, ReadableSynced
  <2> QED BY <2>9 DEF old, new
<1>5. \A log \in Nat : /\ SyncedFrom(logs, log) \subseteq SyncedFrom(logs', log)
                       /\ SyncedFrom(logs', log) = RecordsFrom(logs', log)
                       /\ RecordsFrom(logs', log) \subseteq RecordsFrom(logs, log)
  BY <1>4 DEF SyncedFrom, RecordsFrom
<1> DEFINE from == manifest[n].log
           named == HeldIn(tables, Named(n))
<1>6. /\ Found(n)' = named \cup RecordsFrom(logs', from) /\ FoundSynced(n)' = named \cup SyncedFrom(logs', from)
      /\ Found(n) = named \cup RecordsFrom(logs, from) /\ FoundSynced(n) = named \cup SyncedFrom(logs, from)
  BY <1>1, <1>2, FoundNext DEF Found, FoundSynced
<1>7. from \in Nat
  <2>1. manifest[n] \in EditType
    BY DEF FileInv, FileTypes, Left
  <2> QED BY <2>1 DEF EditType
<1>8. durable' \subseteq FoundSynced(n) /\ Unique(Found(n))
  BY <1>3
<1>9. Held(Files(VersionOf(manifest, msynced))) \subseteq named
  <2>1. HeldIn(tables, Named(msynced)) \subseteq HeldIn(tables, Named(n))
    BY ManifestInvFacts
  <2> QED BY <2>1 DEF Held, HeldIn, Named
<1> HIDE DEF from, named
<1>10. owed' \subseteq Found(n)' /\ durable' \subseteq FoundSynced(n)' /\ Unique(Found(n)') /\ durable' \subseteq owed'
  <2>1. owed' \subseteq Found(n)' /\ durable' \subseteq FoundSynced(n)' /\ durable' \subseteq owed'
    BY <1>2, <1>3, <1>5, <1>6, <1>7, <1>8, <1>9
  <2>2. Found(n)' \subseteq Found(n)
    BY <1>5, <1>6, <1>7
  <2> QED BY <1>8, <2>1, <2>2 DEF Unique
<1>11. \A k : k = n => Found(k)' = Found(n)' /\ FoundSynced(k)' = FoundSynced(n)' /\ Named(k)' = Named(n)
  BY <1>1
<1>12. DiskWrites'
  BY <1>1, <1>10, <1>11 DEF DiskWrites, OnDisk
<1>13. ManifestSequences'
  <2>1. UpTo(HeldIn(tables, Named(n)), manifest[n].seq)
    BY <1>3 DEF ManifestSequences
  <2> QED BY <1>1, <1>2, <1>11, <2>1 DEF ManifestSequences
<1> QED BY <1>2, <1>10, <1>12, <1>13 DEF WriteInv, Running


\* DB::Open reads the MANIFEST.
LEMMA WritesRecover ==
  ASSUME DBAssumption, FileInv, ManifestInv, WriteInv, LossInv, Recover
  PROVE  WriteInv'
<1> DEFINE last == Len(manifest)
           v == VersionOf(manifest, last)
<1>1. /\ UNCHANGED <<logs, tables, manifest, msynced, owed, durable, dropped>>
      /\ phase = "closed" /\ phase' = "recovering"
      /\ versions' = [current |-> v, log_number_ |-> manifest[last].log, next_file_number_ |-> manifest[last].next + 1,
                      last_sequence_ |-> manifest[last].seq]
      /\ bg' = [bg EXCEPT !.logs = {n \in DOMAIN logs : n >= manifest[last].log}]
  BY DEF Recover, files, ghosts
<1>2. DiskWrites /\ ManifestSequences /\ durable \subseteq owed
  BY <1>1 DEF WriteInv, Running
<1>3. DiskWrites' /\ ManifestSequences' /\ durable' \subseteq owed' /\ (\A n \in Left : Found(n)' = Found(n))
  BY <1>1, <1>2, DiskStays DEF DiskWrites
<1>4. (\A n : Named(n)' = Named(n)) /\ Left' = Left
  BY <1>1, ManifestStays
<1>5. bg'.logs = {n \in DOMAIN logs : n >= manifest[last].log} /\ bg'.edit.l0 = {}
  <2>1. bg \in BgType /\ bg = BackgroundOff
    BY <1>1 DEF FileInv, FileTypes
  <2>2. bg.edit.l0 = {}
    BY <2>1 DEF BackgroundOff, NoEdit, Edit
  <2> HIDE DEF last
  <2> QED BY <1>1, <2>1, <2>2 DEF BgType
<1>6. Files(versions'.current) = Named(last) /\ versions'.last_sequence_ = manifest[last].seq
  BY <1>1 DEF Named, Files
<1>7. last \in Left
  BY DEF FileInv, FileTypes, Left
<1>8. Found(last) = HeldIn(tables, Named(last)) \cup UNION {Readable(logs[m]) : m \in bg'.logs}
  BY <1>5 DEF Found, RecordsFrom
<1>9. UpTo(HeldIn(tables, Named(last)), manifest[last].seq)
  BY <1>2, <1>7 DEF ManifestSequences
<1>10. HeldIn(tables, {}) = {}
  BY DEF HeldIn
<1> HIDE DEF v
<1>11. \A n \in Left : n = last =>
         Found(n)' = ((HeldIn(tables', Files(versions'.current)) \cup HeldIn(tables', bg'.edit.l0)) \cup dropped')
                      \cup UNION {Readable(logs'[m]) : m \in bg'.logs}
  <2>0. dropped' = {}
    BY <1>1 DEF LossInv
  <2>1. HeldIn(tables', bg'.edit.l0) = {} /\ HeldIn(tables', Files(versions'.current)) = HeldIn(tables, Named(last))
    BY <1>1, <1>5, <1>6, <1>10
  <2>2. logs' = logs
    BY <1>1
  <2>3. \A n \in Left : n = last => Found(n)' = Found(last)
    BY <1>3
  <2> HIDE DEF last
  <2> QED BY <1>8, <2>0, <2>1, <2>2, <2>3
<1>12. UpTo(HeldIn(tables', Files(versions'.current)) \cup HeldIn(tables', bg'.edit.l0), versions'.last_sequence_)
  BY <1>1, <1>5, <1>6, <1>9, <1>10
<1>13. RecoveredWrites'
  BY <1>1, <1>4, <1>11, <1>12 DEF RecoveredWrites
<1> QED BY <1>1, <1>3, <1>13 DEF WriteInv, Running

\* It makes a table of a log.
LEMMA WritesReplayed ==
  ASSUME DBAssumption, FileInv, ManifestInv, WriteInv, RecoverLogFile
  PROVE  WriteInv'
<1> DEFINE last == Len(manifest)
           number == versions.next_file_number_
           held == HeldIn(tables, Files(versions.current)) \cup HeldIn(tables, bg.edit.l0)
           heldNext == HeldIn(tables', Files(versions'.current)) \cup HeldIn(tables', bg'.edit.l0)
<1>1. PICK n \in bg.logs : \E k \in 0..Len(logs[n].recs) : Replays(n, k)
  BY LogReplayed
<1>2. PICK k \in 0..Len(logs[n].recs) : Replays(n, k)
  BY <1>1
<1> DEFINE entries == ReplayedUpTo(n, k)
           made == {f \in {number} : entries # {}}
<1>3. /\ phase = "recovering" /\ phase' = "recovering"
      /\ UNCHANGED <<logs, manifest, msynced, owed, durable>>
      /\ dropped' = dropped \cup (Replayed(n) \ entries)
      /\ DOMAIN tables' = DOMAIN tables \cup made
      /\ \A f \in made : tables'[f] = entries
      /\ \A f \in DOMAIN tables : f \notin made => tables'[f] = tables[f]
      /\ bg'.logs = bg.logs \ {n}
      /\ bg'.edit.l0 = bg.edit.l0 \cup made
      /\ versions' \in [current : VersionType, log_number_ : Nat, next_file_number_ : Nat, last_sequence_ : Nat]
      /\ versions'.current = versions.current
      /\ versions.last_sequence_ <= versions'.last_sequence_
      /\ \A e \in entries : e.seq <= versions'.last_sequence_
  BY <1>2 DEF Replays
<1>4. DiskWrites /\ ManifestSequences /\ durable \subseteq owed
  BY <1>3 DEF WriteInv, Running
<1>5. RecoveredWrites /\ RecoveredFiles /\ RecoveringFiles /\ FileTypes
  BY <1>3 DEF WriteInv, FileInv
<1>6. last \in Left
  BY DEF FileInv, FileTypes, Left
<1>7. ASSUME NEW i \in Left PROVE number \notin Named(i) /\ Named(i) \subseteq DOMAIN tables
  <2>1. (\A f \in Named(i) : f < manifest[i].next) /\ manifest[i].next <= manifest[last].next
    BY DEF FileInv, ManifestNumbers
  <2>2. manifest[last].next < number
    BY <1>5 DEF RecoveredFiles
  <2>3. manifest[i] \in EditType /\ manifest[last] \in EditType /\ number \in Nat
    BY DEF FileInv, FileTypes, Left
  <2>4. Named(i) \subseteq DOMAIN tables /\ DOMAIN tables \subseteq Nat
    BY ManifestInvFacts DEF FileInv, FileTypes
  <2> QED BY <2>1, <2>2, <2>3, <2>4 DEF EditType
<1>8. number \notin bg.edit.l0 /\ bg.edit.l0 \subseteq DOMAIN tables
  <2>1. number \in Nat
    BY <1>5 DEF FileTypes
  <2> QED BY <1>5, <2>1 DEF RecoveredFiles
<1>9. Files(versions.current) = Named(last)
  BY <1>5 DEF RecoveredFiles
<1>10. Files(versions'.current) = Files(versions.current)
  BY <1>3 DEF Files
<1>11. entries \subseteq Readable(logs[n]) /\ Replayed(n) = Readable(logs[n])
  <2>1. n \in DOMAIN logs
    BY <1>5 DEF RecoveringFiles
  <2>2. logs[n].recs \in Seq(SUBSET Entries)
    BY <1>5, <2>1 DEF FileTypes, LogType
  <2>3. 1..k \subseteq 1..Len(logs[n].recs) /\ DOMAIN logs[n].recs = 1..Len(logs[n].recs)
    BY <1>2, <2>2
  <2> QED BY <2>3 DEF Replayed, ReplayedUpTo, Readable, Records
<1>12. \A S : S \subseteq DOMAIN tables /\ number \notin S => HeldIn(tables', S) = HeldIn(tables, S)
  BY <1>3 DEF HeldIn
<1>13. HeldIn(tables', made) = entries
  <2>1. \A f \in made : tables'[f] = entries
    BY <1>3
  <2>2. CASE entries = {}
    BY <2>2 DEF HeldIn
  <2>3. CASE entries # {}
    <3>1. made = {number}
      BY <2>3
    <3> HIDE DEF made, entries
    <3> QED BY <2>1, <3>1 DEF HeldIn
  <2> QED BY <2>2, <2>3
<1>14. \A i \in Left : HeldIn(tables', Named(i)) = HeldIn(tables, Named(i))
  BY <1>7, <1>12
<1>15. /\ DiskWrites' /\ ManifestSequences' /\ durable' \subseteq owed'
       /\ \A i \in Left : Found(i)' = Found(i)
  BY <1>3, <1>4, <1>14, DiskStays DEF DiskWrites
<1>16. heldNext = held \cup entries
  <2>1. HeldIn(tables', Files(versions'.current)) = HeldIn(tables, Files(versions.current))
    BY <1>6, <1>9, <1>10, <1>14
  <2>2. HeldIn(tables', bg'.edit.l0) = HeldIn(tables', bg.edit.l0) \cup HeldIn(tables', made)
    <3>1. bg'.edit.l0 = bg.edit.l0 \cup made
      BY <1>3
    <3> HIDE DEF made
    <3> QED BY <3>1, HeldUnion
  <2>3. HeldIn(tables', bg.edit.l0) = HeldIn(tables, bg.edit.l0)
    BY <1>8, <1>12
  <2> HIDE DEF made
  <2> QED BY <1>10, <1>13, <2>1, <2>2, <2>3
<1>17. Found(last) = (held \cup dropped) \cup UNION {Readable(logs[m]) : m \in bg.logs} /\ UpTo(held, versions.last_sequence_)
  BY <1>5, <1>6 DEF RecoveredWrites
<1>18. \A e \in held : e.seq \in Nat
  <2>1. Files(versions.current) \subseteq DOMAIN tables /\ bg.edit.l0 \subseteq DOMAIN tables
    BY <1>5 DEF RecoveredFiles
  <2>2. tables \in [DOMAIN tables -> SUBSET Entries]
    BY <1>5 DEF FileTypes
  <2> QED BY <2>1, <2>2 DEF HeldIn, Entries
<1>19. versions.last_sequence_ \in Nat /\ versions'.last_sequence_ \in Nat /\ versions.last_sequence_ <= versions'.last_sequence_
       /\ \A e \in entries : e.seq <= versions'.last_sequence_
  BY <1>3, <1>5 DEF FileTypes
<1>20. bg'.logs = bg.logs \ {n} /\ n \in bg.logs /\ logs' = logs
  BY <1>3
<1> HIDE DEF held, heldNext, made, number, entries
<1>21. UpTo(heldNext, versions'.last_sequence_)
  <2> SUFFICES ASSUME NEW e \in heldNext PROVE e.seq <= versions'.last_sequence_
    BY DEF UpTo
  <2>1. CASE e \in entries
    BY <1>19, <2>1
  <2>2. CASE e \in held
    <3>1. e.seq <= versions.last_sequence_ /\ e.seq \in Nat
      BY <1>17, <1>18, <2>2 DEF UpTo
    <3> QED BY <1>19, <3>1
  <2> QED BY <1>16, <2>1, <2>2
<1>22. (held \cup dropped) \cup UNION {Readable(logs[m]) : m \in bg.logs}
         = (heldNext \cup dropped') \cup UNION {Readable(logs'[m]) : m \in bg'.logs}
  <2>1. UNION {Readable(logs[m]) : m \in bg.logs} = Readable(logs[n]) \cup UNION {Readable(logs[m]) : m \in bg.logs \ {n}}
    BY <1>20
  <2>2. dropped' = dropped \cup (Readable(logs[n]) \ entries) /\ entries \subseteq Readable(logs[n])
    BY <1>3, <1>11
  <2> QED BY <1>16, <1>20, <2>1, <2>2
<1>23. (\A i : Named(i)' = Named(i)) /\ Left' = Left /\ manifest' = manifest
  BY <1>3, ManifestStays
<1>24. \A i \in Left : i = last => Found(i)' = (heldNext \cup dropped') \cup UNION {Readable(logs'[m]) : m \in bg'.logs}
  BY <1>15, <1>17, <1>22
<1>25. RecoveredWrites'
  BY <1>21, <1>23, <1>24 DEF RecoveredWrites, heldNext
<1> QED BY <1>3, <1>15, <1>25 DEF WriteInv, Running

\* It makes a new log.
LEMMA WritesNewLog ==
  ASSUME DBAssumption, FileInv, ManifestInv, WriteInv, OpenNewLog
  PROVE  WriteInv'
<1> DEFINE last == Len(manifest)
           number == versions.next_file_number_
           none == NewLog
           edit == Edit(bg.edit.l0, {}, {}, number, number + 1, versions.last_sequence_)
<1>1. /\ UNCHANGED <<tables, manifest, msynced, owed, durable, dropped>>
      /\ phase = "recovering" /\ bg.logs = {} /\ phase' = "installing"
      /\ logs' = With(logs, number, none)
      /\ versions' = [versions EXCEPT !.next_file_number_ = number + 1]
      /\ bg' = [bg EXCEPT !.edit = edit]
  BY DEF OpenNewLog, ghosts
<1>2. DiskWrites /\ ManifestSequences /\ durable \subseteq owed
  BY <1>1 DEF WriteInv, Running
<1>3. RecoveredWrites /\ RecoveringFiles /\ FileTypes
  BY <1>1 DEF WriteInv, FileInv
<1>4. number \in Nat /\ number \notin DOMAIN logs
  <2>1. number \in Nat
    BY <1>3 DEF FileTypes
  <2> QED BY <1>1, <1>3, <2>1 DEF RecoveringFiles
<1>5. versions'.current = versions.current /\ versions'.last_sequence_ = versions.last_sequence_
  BY <1>1, <1>3 DEF FileTypes
<1>6. bg'.logs = {} /\ bg'.edit.l0 = bg.edit.l0
  <2>1. edit.l0 = bg.edit.l0
    BY DEF Edit
  <2>2. bg \in BgType
    BY <1>3 DEF FileTypes
  <2> HIDE DEF edit
  <2> QED BY <1>1, <2>1, <2>2 DEF BgType
<1>7. /\ DOMAIN logs' = DOMAIN logs \cup {number} /\ logs'[number] = none
      /\ \A m \in DOMAIN logs : logs'[m] = logs[m]
  <2> HIDE DEF number, none
  <2>1. logs' = [y \in DOMAIN logs \cup {number} |-> IF y = number THEN none ELSE logs[y]]
    BY <1>1 DEF With
  <2> QED BY <1>4, <2>1
<1>8. Readable(none) = {} /\ ReadableSynced(none) = {}
  BY DEF Readable, ReadableSynced, Records, SyncedRecords, NewLog
<1>9. ASSUME NEW log \in Nat
      PROVE  RecordsFrom(logs', log) = RecordsFrom(logs, log) /\ SyncedFrom(logs', log) = SyncedFrom(logs, log)
  <2> HIDE DEF number, none
  <2>1. RecordsFrom(logs', log) = RecordsFrom(logs, log)
    BY <1>7, <1>8 DEF RecordsFrom
  <2>2. SyncedFrom(logs', log) = SyncedFrom(logs, log)
    BY <1>7, <1>8 DEF SyncedFrom
  <2> QED BY <2>1, <2>2
<1>10. /\ DiskWrites' /\ ManifestSequences' /\ durable' \subseteq owed'
       /\ \A k \in Left : Found(k)' = Found(k)
  BY <1>1, <1>2, <1>9, DiskStays DEF DiskWrites
<1>11. (\A k : Named(k)' = Named(k)) /\ Left' = Left /\ manifest' = manifest
  BY <1>1, ManifestStays
<1> DEFINE held == HeldIn(tables, Files(versions.current)) \cup HeldIn(tables, bg.edit.l0)
           heldNext == HeldIn(tables', Files(versions'.current)) \cup HeldIn(tables', bg'.edit.l0)
<1>12. heldNext = held
  BY <1>1, <1>5, <1>6
<1>13. last \in Left
  BY DEF FileInv, FileTypes, Left
<1>14. Found(last) = (held \cup dropped) \cup UNION {Readable(logs[m]) : m \in bg.logs} /\ UpTo(held, versions.last_sequence_)
  BY <1>3, <1>13 DEF RecoveredWrites
<1>15. Found(last) = held \cup dropped
  BY <1>1, <1>14
<1> HIDE DEF held, heldNext
<1>16. \A k \in Left : k = last => Found(k)' = (heldNext \cup dropped') \cup UNION {Readable(logs'[m]) : m \in bg'.logs}
  BY <1>1, <1>6, <1>10, <1>12, <1>15
<1>17. UpTo(heldNext, versions'.last_sequence_)
  BY <1>5, <1>12, <1>14
<1>18. RecoveredWrites'
  BY <1>11, <1>16, <1>17 DEF RecoveredWrites, heldNext
<1> QED BY <1>1, <1>10, <1>18 DEF WriteInv, Running


\* It installs the version that has the tables made of the logs.
LEMMA WritesOpened ==
  ASSUME DBAssumption, FileInv, ManifestInv, WriteInv, Install
  PROVE  WriteInv'
<1> DEFINE last == Len(manifest)
           held == HeldIn(tables, Files(versions.current)) \cup HeldIn(tables, bg.edit.l0)
           currentNext == HeldIn(tables', Files(versions'.current))
<1>1. /\ UNCHANGED <<mem, imm, logfile_number_, thread>>
      /\ owed' = owed \ (dropped \ Held(Files(versions'.current)))
      /\ durable' = durable \ (dropped \ Held(Files(versions'.current)))
      /\ phase = "installing" /\ phase' = "open"
      /\ FileTypes /\ NothingInMemory /\ RecoveredFiles /\ InstallingFiles
      /\ Len(manifest') = 1 /\ Left' = {1}
      /\ manifest'[1].log = bg.edit.log /\ manifest'[1].seq = bg.edit.seq
      /\ Named(1)' = Files(versions'.current)
      /\ Files(versions'.current) = Files(versions.current) \cup bg.edit.l0
      /\ versions'.log_number_ = logfile_number_ /\ versions'.last_sequence_ = versions.last_sequence_
      /\ FilesLeft(Files(versions'.current), logfile_number_)
      /\ DOMAIN tables' \subseteq Files(versions'.current)
      /\ DOMAIN logs' = {logfile_number_}
      /\ \E p \in BgIdle : bg' = [BackgroundOff EXCEPT !.pc = p]
  BY Opened
<1>2. DiskWrites /\ ManifestSequences /\ durable \subseteq owed
  BY <1>1 DEF WriteInv, Running
<1>3. RecoveredWrites
  BY <1>1 DEF WriteInv
<1>4. last \in Left
  BY DEF FileInv, FileTypes, Left
<1>5. /\ bg.logs = {} /\ bg.edit.log = logfile_number_ /\ bg.edit.seq = versions.last_sequence_
      /\ logfile_number_ \in DOMAIN logs /\ logs[logfile_number_].recs = << >>
      /\ logfile_number_ \in Nat /\ versions.last_sequence_ \in Nat
  BY <1>1 DEF InstallingFiles, FileTypes
<1>6. mem' = {} /\ imm' = {} /\ \A t \in Threads : thread'[t].pc = "idle"
  BY <1>1 DEF NothingInMemory, Idle
<1>7. Found(last) = held \cup dropped /\ UpTo(held, versions.last_sequence_)
  BY <1>3, <1>4, <1>5 DEF RecoveredWrites
<1>8. owed \subseteq held \cup dropped /\ Unique(held)
  <2>1. owed \subseteq Found(last) /\ Unique(Found(last))
    BY <1>2, <1>4 DEF DiskWrites, OnDisk
  <2> HIDE DEF held
  <2> QED BY <1>7, <2>1 DEF Unique
<1>9. currentNext = held /\ Held(Files(versions'.current)) = held
  <2>1. Files(versions'.current) \subseteq DOMAIN tables
    BY <1>1 DEF RecoveredFiles
  <2>2. \A f \in Files(versions'.current) : tables'[f] = tables[f]
    BY <1>1, <2>1 DEF FilesLeft
  <2>3. HeldIn(tables', Files(versions'.current)) = HeldIn(tables, Files(versions'.current))
    BY <2>2 DEF HeldIn
  <2>4. HeldIn(tables, Files(versions.current) \cup bg.edit.l0) = held
    BY HeldUnion
  <2>5. Held(Files(versions'.current)) = HeldIn(tables, Files(versions'.current))
    BY DEF Held, HeldIn
  <2> HIDE DEF held
  <2> QED BY <1>1, <2>3, <2>4, <2>5
<1>10. AllRecords(logs') = {}
  <2>1. logs'[logfile_number_] = logs[logfile_number_]
    BY <1>1 DEF FilesLeft
  <2>2. Records(logs[logfile_number_]) = {}
    BY <1>5 DEF Records
  <2> QED BY <1>1, <2>1, <2>2 DEF AllRecords
<1>11. InTables(tables') \subseteq held
  <2>1. InTables(tables') \subseteq currentNext
    BY <1>1, HeldUnion DEF InTables
  <2> HIDE DEF held, currentNext
  <2> QED BY <1>9, <2>1
<1>12. bg'.pc \notin {"manifest", "install"}
  <2>1. PICK p \in BgIdle : bg' = [BackgroundOff EXCEPT !.pc = p]
    BY <1>1
  <2>2. p \in BgPCs
    BY DEF BgPCs, BgIdle
  <2> QED BY <2>1, <2>2, IdleBackground DEF BgIdle
<1>13. logfile_number_ <= logfile_number_ /\ versions.last_sequence_ <= versions.last_sequence_
  BY <1>5
<1> HIDE DEF held, currentNext, last
<1>14. LogsAreReplayed'
  BY <1>1, <1>5, <1>13 DEF LogsAreReplayed
<1>15. MemoryIsLogged' /\ GroupIsLogged'
  BY <1>6 DEF MemoryIsLogged, GroupIsLogged
<1>16. DurableIsSynced' /\ owed' \subseteq mem' \cup (UNION imm') \cup HeldIn(tables', Files(versions'.current))
  <2>1. durable' \subseteq currentNext /\ owed' \subseteq currentNext
    BY <1>1, <1>2, <1>8, <1>9
  <2> QED BY <2>1 DEF DurableIsSynced, currentNext
<1>17. SequencesAreUsed'
  <2>1. Unique(AllRecords(logs') \cup InTables(tables'))
    BY <1>8, <1>10, <1>11 DEF Unique
  <2>2. UpTo(UNION imm', versions'.last_sequence_) /\ UpTo(InTables(tables'), versions'.last_sequence_)
    BY <1>1, <1>6, <1>7, <1>11 DEF UpTo
  <2>3. \A n \in Left' : manifest'[n].seq <= versions'.last_sequence_
    BY <1>1, <1>5, <1>13
  <2> QED BY <1>10, <2>1, <2>2, <2>3 DEF SequencesAreUsed
<1>18. EditSequences'
  BY <1>12 DEF EditSequences, InManifest
<1>19. ManifestSequences'
  <2>1. \A k : k = 1 => Named(k)' = Files(versions'.current)
    BY <1>1
  <2>2. UpTo(HeldIn(tables', Files(versions'.current)), versions.last_sequence_)
    BY <1>7, <1>9 DEF currentNext
  <2> QED BY <1>1, <1>5, <2>1, <2>2 DEF ManifestSequences
<1>20. Running' /\ durable' \subseteq owed'
  BY <1>1, <1>2 DEF Running
<1> QED BY <1>14, <1>15, <1>16, <1>17, <1>18, <1>19, <1>20, RunningWrites DEF OpenWrites

\* No write is lost in any step.
LEMMA WriteNext ==
  ASSUME DBAssumption, QueueInv, QueueInv', FileInv, FileInv', ManifestInv, ManifestInv', WriteInv, LossInv, [Next]_vars
  PROVE  WriteInv'
<1>1. CASE \E t \in Threads : ThreadStep(t) \/ CompactRange(t) \/ \E sync \in Syncs : Write(t, sync)
  BY <1>1, WritesClientStep
<1>2. CASE BackgroundStep
  BY <1>2, WritesBackgroundStep
<1>3. CASE RefVersion \/ UnrefVersion \/ Close \/ UNCHANGED vars
  <2>1. /\ UNCHANGED <<logs, tables, manifest, msynced, mem, imm, logfile_number_, versions, owed, durable>>
        /\ UNCHANGED <<thread, writers_, bg, dropped>>
        /\ phase' = phase \/ (phase = "open" /\ phase' = "closing")
    BY <1>3 DEF RefVersion, UnrefVersion, Close, vars, files, memory, ghosts
  <2>2. CASE Running
    <3>1. GroupsStay
      <4>1. writers_ \in Seq(Threads)
        BY DEF QueueInv, QueueTypes
      <4> QED BY <2>1, <4>1, GroupsKept
    <3>2. EditSequences'
      BY <2>1, <2>2, EditSequencesStay DEF WriteInv, OpenWrites
    <3>3. Running'
      BY <2>1, <2>2 DEF Running
    <3> QED BY <2>1, <2>2, <3>1, <3>2, <3>3, WritesKept
  <2>3. CASE ~Running
    <3>1. DiskWrites /\ ManifestSequences /\ durable \subseteq owed
      BY <2>3 DEF WriteInv
    <3>2. DiskWrites' /\ ManifestSequences' /\ durable' \subseteq owed' /\ \A n \in Left : Found(n)' = Found(n)
      BY <2>1, <3>1, DiskStays DEF DiskWrites
    <3>3. (\A n : Named(n)' = Named(n)) /\ Left' = Left
      BY <2>1, ManifestStays
    <3>4. phase' = phase
      BY <2>1, <2>3 DEF Running
    <3>5. RecoveredWrites => RecoveredWrites'
      BY <2>1, <3>2, <3>3 DEF RecoveredWrites
    <3> QED BY <2>3, <3>2, <3>4, <3>5 DEF WriteInv, Running
  <2> QED BY <2>2, <2>3
<1>4. CASE Closed \/ ProcessStops \/ OpenFails
  BY <1>4, WritesGone DEF Closed, ProcessStops, OpenFails
<1> QED BY <1>1, <1>2, <1>3, <1>4, WritesCrashed, WritesRecover, WritesReplayed, WritesNewLog, WritesOpened DEF Next

\* A new database has no writes.
LEMMA WriteInit ==
  ASSUME DBAssumption, Init
  PROVE  WriteInv
<1> DEFINE edit == Edit({}, {}, {}, 3, 4, 0)
           none == NewLog
<1>1. edit.l0 = {} /\ edit.deep = {} /\ edit \in EditType /\ edit.log = 3 /\ edit.seq = 0
  BY DEF Edit, EditType
<1>2. Records(none) = {} /\ SyncedRecords(none) = {}
  BY DEF Records, SyncedRecords, NewLog
<1> HIDE DEF edit, none
<1>3. manifest = <<edit>> /\ msynced = 1 /\ Len(manifest) = 1 /\ Left = {1}
  BY DEF Init, Left, edit
<1>4. Named(1) = {}
  <2>1. VersionOf(<<edit>>, 1) = [l0 |-> edit.l0, deep |-> edit.deep]
    BY <1>1, VersionOfSnapshot
  <2> QED BY <1>1, <1>3, <2>1 DEF Named, Files
<1>5. HeldIn(tables, {}) = {} /\ InTables(tables) = {} /\ AllRecords(logs) = {}
  <2>1. logs = [n \in {3} |-> none] /\ DOMAIN tables = {}
    BY DEF Init, none
  <2> QED BY <1>2, <2>1 DEF HeldIn, InTables, AllRecords
<1>6. /\ mem = {} /\ imm = {} /\ owed = {} /\ durable = {} /\ versions.log_number_ = 3 /\ versions.last_sequence_ = 0
      /\ bg.pc = "off" /\ phase = "open" /\ \A t \in Threads : thread[t].pc = "idle"
  BY OffIsIdle DEF Init, Idle
<1>7. ManifestSequences
  BY <1>3, <1>4, <1>5 DEF ManifestSequences, UpTo
<1>8. LogsAreReplayed /\ MemoryIsLogged /\ GroupIsLogged /\ DurableIsSynced /\ EditSequences
  BY <1>1, <1>3, <1>6 DEF LogsAreReplayed, MemoryIsLogged, GroupIsLogged, DurableIsSynced, EditSequences, InManifest
<1>9. SequencesAreUsed
  BY <1>1, <1>3, <1>5, <1>6 DEF SequencesAreUsed, Unique, UpTo
<1> QED BY <1>6, <1>7, <1>8, <1>9 DEF WriteInv, OpenWrites, Running

-------------------------------------------------------------------------------
(* What is lost *)

\* A fault is counted, and no step takes one back.
FaultsKept == count'.faults = 0 => count.faults = 0

\* Every log is as readable as it was, or as a new one.
LogsStayWhole ==
  \A n \in DOMAIN logs' :
    \/ ~logs'[n].torn /\ logs'[n].unread = {}
    \/ n \in DOMAIN logs /\ logs'[n].torn = logs[n].torn /\ logs'[n].unread = logs[n].unread

LEMMA FaultCounts ==
  ASSUME QueueTypes, Fault
  PROVE  FaultsKept /\ count'.faults # 0
<1>1. count.faults \in Nat /\ count'.faults = count.faults + 1
  BY DEF QueueTypes, Fault
<1> QED BY <1>1 DEF FaultsKept

LEMMA LossKept ==
  ASSUME LossInv, FaultsKept, LogsStayWhole,
         \/ dropped' = {}
         \/ dropped' = dropped /\ (phase' \in {"recovering", "installing"} \/ phase \notin {"recovering", "installing"})
  PROVE  LossInv'
BY DEF LossInv, OnlyFaultsLose, FaultsKept, LogsStayWhole

LEMMA NewLogIsWhole == ~NewLog.torn /\ NewLog.unread = {}
BY DEF NewLog

\* Only a log that is torn gets records that nobody finds.
LEMMA LossClientStep ==
  ASSUME QueueInv, FileTypes, LossInv, NEW t \in Threads,
         ThreadStep(t) \/ CompactRange(t) \/ \E sync \in Syncs : Write(t, sync)
  PROVE  LossInv'
<1>1. QueueTypes /\ count.faults \in Nat /\ count \in [batches : 0..MaxBatches, faults : Nat, crashes : Nat, ranges : Nat]
      /\ logs \in [DOMAIN logs -> LogType]
  BY DEF QueueInv, QueueTypes, FileTypes
<1>2. phase \notin {"recovering", "installing"} /\ dropped' = dropped /\ dropped = {}
  BY DEF LossInv, ThreadStep, Running, AtRoom, Enqueue, Write, CompactRange, Woken, RoomFails, Delay, WaitForRoom,
         SwitchMemTable, BeginLogging, AddRecord, SyncLog, InsertInto, FinishWrite, WaitForFlush, ManualCompaction, ghosts
<1>3. CASE Woken(t) \/ RoomFails(t) \/ Delay(t) \/ WaitForRoom(t) \/ BeginLogging(t) \/ InsertInto(t)
           \/ FinishWrite(t) \/ WaitForFlush(t) \/ ManualCompaction(t)
  <2>1. logs' = logs /\ (count' = count \/ Fault)
    BY <1>3 DEF Woken, RoomFails, Delay, WaitForRoom, BeginLogging, InsertInto, FinishWrite, WaitForFlush,
                ManualCompaction, files
  <2>2. FaultsKept
    BY <1>1, <2>1, FaultCounts DEF FaultsKept
  <2> QED BY <1>2, <2>1, <2>2, LossKept DEF LogsStayWhole
<1>4. CASE CompactRange(t) \/ \E sync \in Syncs : Write(t, sync)
  <2>1. logs' = logs /\ (count' = [count EXCEPT !.batches = @ + 1] \/ count' = [count EXCEPT !.ranges = @ + 1])
    BY <1>4 DEF CompactRange, Write, Enqueue, files
  <2>2. FaultsKept
    BY <1>1, <2>1 DEF FaultsKept
  <2> QED BY <1>2, <2>1, <2>2, LossKept DEF LogsStayWhole
<1>5. CASE SwitchMemTable(t)
  <2>1. logs' = With(logs, versions.next_file_number_, NewLog) /\ count' = count
    BY <1>5 DEF SwitchMemTable
  <2>2. LogsStayWhole
    BY <2>1, NewLogIsWhole DEF LogsStayWhole, With
  <2> QED BY <1>2, <2>1, <2>2, LossKept DEF FaultsKept
<1>6. CASE AddRecord(t)
  <2>1. CASE Fault
    BY <1>1, <1>2, <2>1, FaultCounts DEF LossInv, OnlyFaultsLose
  <2>2. CASE ~Fault
    <3>1. PICK lost \in {{}} \cup (IF logs[logfile_number_].torn THEN {GroupEntries(t)} ELSE {}) :
            logs' = [logs EXCEPT ![logfile_number_].recs = Append(@, GroupEntries(t)),
                                 ![logfile_number_].unread = @ \cup lost]
      BY <1>6, <2>2 DEF AddRecord
    <3>2. count' = count
      BY <1>6, <2>2 DEF AddRecord
    <3>3. \A n \in DOMAIN logs' : /\ n \in DOMAIN logs /\ logs'[n].torn = logs[n].torn
                                  /\ n # logfile_number_ => logs'[n].unread = logs[n].unread
                                  /\ n = logfile_number_ => logs'[n].unread = logs[n].unread \cup lost
      BY <1>1, <3>1 DEF LogType
    <3>4. \A n \in DOMAIN logs : n = logfile_number_ /\ ~logs[n].torn => lost = {}
      BY <3>1
    <3>5. OnlyFaultsLose'
      <4> SUFFICES ASSUME count'.faults = 0, NEW n \in DOMAIN logs' PROVE ~logs'[n].torn /\ logs'[n].unread = {}
        BY <1>2 DEF OnlyFaultsLose
      <4>1. n \in DOMAIN logs /\ ~logs[n].torn /\ logs[n].unread = {}
        BY <3>2, <3>3 DEF LossInv, OnlyFaultsLose
      <4> QED BY <3>3, <3>4, <4>1
    <3> QED BY <1>2, <3>5 DEF LossInv
  <2> QED BY <2>1, <2>2
<1>7. CASE SyncLog(t)
  <2>1. logs' = logs \/ logs' = [logs EXCEPT ![logfile_number_].synced = Len(logs[logfile_number_].recs)]
    BY <1>7 DEF SyncLog
  <2>2. count' = count \/ Fault
    BY <1>7 DEF SyncLog
  <2>3. FaultsKept
    BY <1>1, <2>2, FaultCounts DEF FaultsKept
  <2>4. LogsStayWhole
    <3> SUFFICES ASSUME NEW n \in DOMAIN logs'
                 PROVE  n \in DOMAIN logs /\ logs'[n].torn = logs[n].torn /\ logs'[n].unread = logs[n].unread
      BY DEF LogsStayWhole
    <3>1. n \in DOMAIN logs /\ logs[n] \in LogType
      BY <1>1, <2>1
    <3>2. logs'[n] = logs[n] \/ logs'[n] = [logs[n] EXCEPT !.synced = Len(logs[logfile_number_].recs)]
      BY <2>1, <3>1
    <3> QED BY <3>1, <3>2 DEF LogType
  <2> QED BY <1>2, <2>3, <2>4, LossKept
<1> QED BY <1>3, <1>4, <1>5, <1>6, <1>7 DEF ThreadStep

\* The background thread changes no log, it may delete some.
LEMMA LossBackgroundStep ==
  ASSUME QueueInv, FileTypes, LossInv, BackgroundStep
  PROVE  LossInv'
<1>1. QueueTypes
  BY DEF QueueInv
<1>2. CASE NoBackgroundWork \/ Flush \/ FlushInCompaction \/ BuildTable \/ FlushBuilt \/ WriteManifest
           \/ NothingToCompact \/ TrivialMove \/ PickCompaction \/ OpenCompactionOutputFile
           \/ FinishCompactionOutputFile \/ AbandonCompaction
  <2>1. logs' = logs /\ (count' = count \/ Fault) /\ dropped' = dropped /\ phase' = phase
    BY <1>2 DEF NoBackgroundWork, Flush, FlushInCompaction, BeginFlush, BuildTable, FlushBuilt, WriteManifest,
                NothingToCompact, TrivialMove, PickCompaction, OpenCompactionOutputFile,
                FinishCompactionOutputFile, AbandonCompaction, files, ghosts
  <2>2. FaultsKept
    BY <1>1, <2>1, FaultCounts DEF FaultsKept
  <2> QED BY <2>1, <2>2, LossKept DEF LogsStayWhole
<1>3. CASE InstallFlush \/ FinishCompaction \/ InstallCompaction
  <2>1. count' = count /\ dropped' = dropped /\ phase' = phase
    BY <1>3 DEF InstallFlush, FinishCompaction, InstallCompaction, CompactionEnds, ghosts
  <2>2. logs' = logs \/ \E log : logs' = Restricted(logs, {n \in DOMAIN logs : n >= log})
    BY <1>3 DEF InstallFlush, FinishCompaction, InstallCompaction, CompactionEnds, DeleteObsoleteFiles, files
  <2>3. LogsStayWhole
    BY <2>2 DEF LogsStayWhole, Restricted
  <2> QED BY <2>1, <2>3, LossKept DEF FaultsKept
<1> QED BY <1>2, <1>3 DEF BackgroundStep

\* A step that loses a write has a fault, or one was before.
LEMMA LossNext ==
  ASSUME QueueInv, FileInv, LossInv, [Next]_vars
  PROVE  LossInv'
<1>1. QueueTypes /\ FileTypes /\ logs \in [DOMAIN logs -> LogType]
      /\ count \in [batches : 0..MaxBatches, faults : Nat, crashes : Nat, ranges : Nat]
  BY DEF QueueInv, QueueTypes, FileInv, FileTypes
<1>2. CASE \E t \in Threads : ThreadStep(t) \/ CompactRange(t) \/ \E sync \in Syncs : Write(t, sync)
  BY <1>1, <1>2, LossClientStep
<1>3. CASE BackgroundStep
  BY <1>1, <1>3, LossBackgroundStep
<1>4. CASE RefVersion \/ UnrefVersion \/ Close \/ Recover \/ UNCHANGED vars
  <2>1. logs' = logs /\ dropped' = dropped
    BY <1>4 DEF RefVersion, UnrefVersion, Close, Recover, vars, files, ghosts
  <2>2. count' = count \/ count' = [count EXCEPT !.crashes = @ + 1]
    BY <1>4 DEF RefVersion, UnrefVersion, Close, Recover, vars
  <2>3. phase' = phase \/ phase' = "recovering" \/ phase = "open"
    BY <1>4 DEF RefVersion, UnrefVersion, Close, Recover, vars
  <2>4. FaultsKept
    BY <1>1, <2>2 DEF FaultsKept
  <2> QED BY <2>1, <2>3, <2>4, LossKept DEF LogsStayWhole
<1>5. CASE Closed \/ ProcessStops \/ OpenFails
  <2>1. logs' = logs /\ dropped' = {}
    BY <1>5 DEF Closed, ProcessStops, OpenFails, Stops, Gone, files
  <2>2. count' = count \/ count' = [count EXCEPT !.crashes = @ + 1] \/ Fault
    BY <1>5 DEF Closed, ProcessStops, OpenFails
  <2>3. FaultsKept
    BY <1>1, <2>2, FaultCounts DEF FaultsKept
  <2> QED BY <2>1, <2>3, LossKept DEF LogsStayWhole
<1>6. CASE MachineCrashes
  <2>1. dropped' = {} /\ count' = [count EXCEPT !.crashes = @ + 1]
    BY <1>6 DEF MachineCrashes, Gone
  <2>2. PICK cut : logs' = [n \in DOMAIN logs |->
                              [logs[n] EXCEPT !.recs = SubSeq(@, 1, cut[n]), !.synced = cut[n]]]
    BY <1>6 DEF MachineCrashes
  <2>3. LogsStayWhole
    BY <1>1, <2>2 DEF LogsStayWhole, LogType
  <2>4. FaultsKept
    BY <1>1, <2>1 DEF FaultsKept
  <2> QED BY <2>1, <2>3, <2>4, LossKept
<1>7. CASE RecoverLogFile
  <2>1. logs' = logs /\ phase' = "recovering"
    BY <1>7 DEF RecoverLogFile
  <2>2. PICK n \in bg.logs : \E read \in 0..Len(logs[n].recs) :
          /\ IF read = Len(logs[n].recs) THEN UNCHANGED count ELSE Fault
          /\ dropped' = dropped \cup (Replayed(n) \ ReplayedUpTo(n, read))
    BY <1>7 DEF RecoverLogFile
  <2>3. PICK read \in 0..Len(logs[n].recs) :
          /\ IF read = Len(logs[n].recs) THEN UNCHANGED count ELSE Fault
          /\ dropped' = dropped \cup (Replayed(n) \ ReplayedUpTo(n, read))
    BY <2>2
  <2>4. CASE read = Len(logs[n].recs)
    <3>1. count' = count /\ dropped' = dropped
      BY <2>3, <2>4 DEF Replayed
    <3> QED BY <2>1, <3>1, LossKept DEF LogsStayWhole, FaultsKept
  <2>5. CASE read # Len(logs[n].recs)
    <3>1. count'.faults # 0
      BY <1>1, <2>3, <2>5, FaultCounts
    <3> QED BY <2>1, <3>1 DEF LossInv, OnlyFaultsLose
  <2> QED BY <2>4, <2>5
<1>8. CASE OpenNewLog
  <2>1. logs' = With(logs, versions.next_file_number_, NewLog) /\ count' = count /\ dropped' = dropped
        /\ phase' = "installing"
    BY <1>8 DEF OpenNewLog, ghosts
  <2>2. LogsStayWhole
    BY <2>1, NewLogIsWhole DEF LogsStayWhole, With
  <2> QED BY <2>1, <2>2, LossKept DEF FaultsKept
<1>9. CASE Install
  <2>1. count' = count /\ dropped' = {}
    BY <1>9 DEF Install
  <2>2. logs' = Restricted(logs, {n \in DOMAIN logs : n >= bg.edit.log})
    BY <1>9 DEF Install, DeleteObsoleteFiles
  <2>3. LogsStayWhole
    BY <2>2 DEF LogsStayWhole, Restricted
  <2> QED BY <2>1, <2>3, LossKept DEF FaultsKept
<1> QED BY <1>2, <1>3, <1>4, <1>5, <1>6, <1>7, <1>8, <1>9 DEF Next

LEMMA LossInit ==
  ASSUME Init
  PROVE  LossInv
<1>1. dropped = {} /\ logs = [n \in {3} |-> NewLog]
  BY DEF Init
<1> QED BY <1>1, NewLogIsWhole DEF LossInv, OnlyFaultsLose

\* What a recovery could not read is in logs that it names.
LEMMA DroppedTypes ==
  ASSUME FileInv, ManifestInv, WriteInv, LossInv
  PROVE  dropped \subseteq Entries
<1>1. CASE phase \notin {"recovering", "installing"}
  BY <1>1 DEF LossInv
<1>2. CASE phase \in {"recovering", "installing"}
  <2> DEFINE last == Len(manifest)
  <2>1. last \in Left /\ tables \in [DOMAIN tables -> SUBSET Entries] /\ logs \in [DOMAIN logs -> LogType]
    BY DEF FileInv, FileTypes, Left
  <2>2. Named(last) \subseteq DOMAIN tables
    BY <2>1, ManifestInvFacts
  <2>3. dropped \subseteq Found(last)
    BY <1>2, <2>1 DEF WriteInv, RecoveredWrites
  <2>4. HeldIn(tables, Named(last)) \subseteq Entries
    BY <2>1, <2>2 DEF HeldIn
  <2>5. ASSUME NEW n \in DOMAIN logs PROVE Readable(logs[n]) \subseteq Entries
    <3>1. logs[n].recs \in Seq(SUBSET Entries)
      BY <2>1 DEF LogType
    <3> QED BY <3>1 DEF Readable, Records
  <2>6. RecordsFrom(logs, manifest[last].log) \subseteq Entries
    BY <2>5 DEF RecordsFrom
  <2> QED BY <2>3, <2>4, <2>6 DEF Found
<1> QED BY <1>1, <1>2

-------------------------------------------------------------------------------
(* The theorems *)

\* The invariant, of which the theorems are consequences.
LEMMA InvariantIsKept ==
  ASSUME DBAssumption
  PROVE  Spec => [](QueueInv /\ FileInv /\ ManifestInv /\ WriteInv /\ LossInv)
<1>1. Init => FileInv /\ ManifestInv /\ WriteInv /\ LossInv
  BY FileInit, ManifestInit, WriteInit, LossInit
<1>2. QueueInv /\ QueueInv' /\ FileInv /\ ManifestInv /\ WriteInv /\ LossInv /\ [Next]_vars
        => FileInv' /\ ManifestInv' /\ WriteInv' /\ LossInv'
  BY FileNext, ManifestNext, WriteNext, LossNext
<1>3. Spec => []QueueInv
  BY QueueIsRight
<1> QED BY <1>1, <1>2, <1>3, PTL DEF Spec

\* The state of the database keeps its types: logs hold records that are sets of entries, no more of
\* a log is synced than there is, and numbers of files are numbers.
THEOREM TypesAreRight == DBAssumption => (Spec => []TypeOK)
<1> SUFFICES ASSUME DBAssumption PROVE Spec => []TypeOK
  OBVIOUS
<1>1. QueueInv /\ FileInv /\ ManifestInv /\ WriteInv /\ LossInv => TypeOK
  <2> SUFFICES ASSUME QueueInv, FileInv, ManifestInv, WriteInv, LossInv PROVE TypeOK
    OBVIOUS
  <2>1. /\ writers_ \in Seq(Threads) /\ bg_error_ \in BOOLEAN /\ manual_compaction_ \in Threads \cup {Nil}
        /\ phase \in {"open", "closing", "closed", "recovering", "installing"}
    BY DEF QueueInv, QueueTypes
  <2>2. ASSUME NEW n \in DOMAIN logs
        PROVE  /\ logs[n].recs \in Seq(SUBSET Entries) /\ logs[n].synced \in 0..Len(logs[n].recs)
               /\ logs[n].torn \in BOOLEAN /\ logs[n].unread \subseteq Entries
    <3>1. logs[n] \in LogType /\ logs[n].synced <= Len(logs[n].recs)
      BY DEF FileInv, FileTypes
    <3> QED BY <3>1 DEF LogType
  <2>3. /\ DOMAIN logs \subseteq Numbers /\ DOMAIN tables \subseteq Numbers /\ msynced \in 1..Len(manifest)
        /\ \A f \in DOMAIN tables : tables[f] \subseteq Entries
        /\ mem \subseteq Entries /\ UNION imm \subseteq Entries /\ durable \subseteq Entries /\ owed \subseteq Entries
    BY DEF FileInv, FileTypes, Numbers
  <2>4. dropped \subseteq Entries
    BY DroppedTypes
  <2> QED BY <2>1, <2>2, <2>3, <2>4 DEF TypeOK
<1> QED BY <1>1, InvariantIsKept, PTL

\* What acknowledged writes may rely on (see WritesSurvive): through group commit, switches of memtables,
\* compactions, file errors, crashes and recoveries, for any number of threads and of crashes, they are
\* found, but for what a recovery could not read of its log, or could not find behind a failed append.
\* Neither happens as long as no operation on a file fails.
THEOREM WritesAreKept == DBAssumption => (Spec => [](WritesSurvive /\ OnlyFaultsLose))
<1> SUFFICES ASSUME DBAssumption PROVE Spec => [](WritesSurvive /\ OnlyFaultsLose)
  OBVIOUS
<1>1. WriteInv /\ LossInv => WritesSurvive /\ OnlyFaultsLose
  BY DEF WriteInv, OpenWrites, LossInv, WritesSurvive, Contents, Held, HeldIn
<1> QED BY <1>1, InvariantIsKept, PTL

\* No two writes have the same sequence number, in memory, in tables and in the logs that a recovery
\* reads.
THEOREM SequencesDiffer == DBAssumption => (Spec => []OneWritePerSequence)
<1> SUFFICES ASSUME DBAssumption PROVE Spec => []OneWritePerSequence
  OBVIOUS
<1>1. FileInv /\ WriteInv => OneWritePerSequence
  <2> SUFFICES ASSUME FileInv, WriteInv, Running
               PROVE  LET seen == Contents \cup UNION {Replayed(n) : n \in {m \in DOMAIN logs : m >= versions.log_number_}}
                      IN  \A e, f \in seen : e.seq = f.seq => e = f
    BY DEF OneWritePerSequence
  <2> DEFINE all == AllRecords(logs) \cup InTables(tables)
  <2>1. OpenWrites /\ Unique(all)
    BY DEF WriteInv, OpenWrites, SequencesAreUsed
  <2>2. versions.log_number_ \in DOMAIN logs /\ logfile_number_ \in DOMAIN logs /\ Files(versions.current) \subseteq DOMAIN tables
    BY DEF FileInv, OpenFiles, LogNumbers, InUse
  <2>3. mem \subseteq AllRecords(logs) /\ UNION imm \subseteq AllRecords(logs)
    BY <2>1, <2>2, RecordsIn DEF OpenWrites, MemoryIsLogged
  <2>4. Held(Files(versions.current)) \subseteq InTables(tables)
    BY <2>2 DEF Held, InTables, HeldIn
  <2>5. UNION {Replayed(n) : n \in {m \in DOMAIN logs : m >= versions.log_number_}} \subseteq AllRecords(logs)
    <3> SUFFICES ASSUME NEW n \in DOMAIN logs PROVE Replayed(n) \subseteq AllRecords(logs)
      OBVIOUS
    <3>1. logs[n].recs \in Seq(SUBSET Entries)
      BY DEF FileInv, FileTypes, LogType
    <3>2. Records(logs[n]) \subseteq AllRecords(logs)
      BY RecordsIn
    <3> QED BY <3>1, <3>2 DEF Replayed, ReplayedUpTo, Records
  <2>6. Contents \cup UNION {Replayed(n) : n \in {m \in DOMAIN logs : m >= versions.log_number_}} \subseteq all
    BY <2>3, <2>4, <2>5 DEF Contents
  <2> QED BY <2>1, <2>6 DEF Unique
<1> QED BY <1>1, InvariantIsKept, PTL

===============================================================================

--------------------------------- MODULE DBImpl ---------------------------------
(***************************************************************************)
(* The control of a leveldb database (db/db_impl.cc, the file bookkeeping  *)
(* of db/version_set.cc): the queue of writers and its group commit, the   *)
(* switch of memtables, the background thread, manual compactions, the     *)
(* deletion of obsolete files, crashes and recovery.                       *)
(*                                                                         *)
(* An action is what a thread does between two places where it releases    *)
(* mutex_, or what it does while it does not hold it.  Of the data we keep *)
(* which batches are where: a batch is a number id that is never used      *)
(* again, written under a sequence number.  Tables are level-0 tables or   *)
(* deeper ones; which keys they hold is left to the module Levels.         *)
(***************************************************************************)
EXTENDS Integers, Sequences, FiniteSets

CONSTANTS
  Threads,                   \* client threads
  MaxBatches,                \* batches written in all
  WriteBufferSize,           \* entries that a memtable has room for
  kL0_CompactionTrigger, kL0_SlowdownWritesTrigger, kL0_StopWritesTrigger,
  MaxFaults,                 \* operations on files that fail
  MaxCrashes,                \* times that the database goes down
  CompactRanges,             \* how often clients call CompactRange
  Syncs,                     \* the values of WriteOptions::sync that clients use
  Reads,                     \* whether a client reads
  Nil

DBAssumption ==
  /\ MaxBatches \in Nat /\ WriteBufferSize \in Nat \ {0}
  /\ kL0_CompactionTrigger \in Nat \ {0}
  /\ kL0_CompactionTrigger <= kL0_SlowdownWritesTrigger
  /\ kL0_SlowdownWritesTrigger <= kL0_StopWritesTrigger
  /\ MaxFaults \in Nat /\ MaxCrashes \in Nat /\ CompactRanges \in Nat
  /\ Syncs \subseteq BOOLEAN /\ Reads \in BOOLEAN
  /\ Nil \notin Threads /\ Nil \notin Nat /\ Nil \notin {"compact", "writing"}

VARIABLES
  logs,       \* log files, see NewLog
  tables,     \* table files: [number -> set of entries]
  manifest,   \* the edits in the MANIFEST
  msynced,    \* how many of them are synced
  mem, imm,   \* mem_, a set of entries, and imm_: the set of memtables to be compacted, one or none
  logfile_number_,
  versions,   \* VersionSet: current, log_number_, next_file_number_, last_sequence_
  pending_outputs_,
  bg_error_,
  writers_,   \* the queue of threads in Write
  thread,     \* what every client thread does
  bg,         \* what the background thread does
  manual_compaction_,
  pinned,     \* the versions that readers have a reference to, each a set of files
  phase,      \* "open", "closing", "closed", or in DB::Open "recovering", "installing"
  count,      \* how many batches, faults, crashes and compactions there have been
  owed,       \* the entries whose Write returned ok, and that no crash may have lost
  durable,    \* those written with sync
  dropped     \* the entries in logs that the recovery under way could not read

files == <<logs, tables, manifest, msynced>>
memory == <<mem, imm, logfile_number_, versions, pending_outputs_>>
ghosts == <<owed, durable, dropped>>
vars == <<files, memory, bg_error_, writers_, thread, bg, manual_compaction_, pinned,
          phase, count, ghosts>>

Entry(seq, id) == [seq |-> seq, id |-> id]
Restricted(f, S) == [x \in DOMAIN f \cap S |-> f[x]]
With(f, x, v) == [y \in DOMAIN f \cup {x} |-> IF y = x THEN v ELSE f[y]]

Files(v) == v.l0 \cup v.deep
NoFiles == [l0 |-> {}, deep |-> {}]
Edit(l0, deep, deleted, log, next, seq) ==
  [l0 |-> l0, deep |-> deep, deleted |-> deleted, log |-> log, next |-> next, seq |-> seq]

\* VersionSet::Builder: the version after an edit.  A file that is moved is
\* deleted from level 0 and added below.
Apply(v, edit) ==
  [l0   |-> (v.l0 \ edit.deleted) \cup edit.l0,
   deep |-> (v.deep \ edit.deleted) \cup edit.deep]

\* A log: its records, each a set of entries, how many of them are synced, whether an append
\* to it failed, and the entries in records that no reader finds because of that.
NewLog == [recs |-> << >>, synced |-> 0, torn |-> FALSE, unread |-> {}]

Idle == [pc |-> "idle", sync |-> FALSE, batch |-> Nil, force |-> FALSE,
         allow_delay |-> FALSE, done |-> FALSE, status |-> "ok", last |-> Nil]
NoEdit == Edit({}, {}, {}, 0, 0, 0)
BackgroundOff == [pc |-> "off", out |-> Nil, output |-> Nil, inputs |-> {}, inputVersion |-> NoFiles,
                  is_manual |-> FALSE, edit |-> NoEdit, status |-> "ok", caller |-> Nil, logs |-> {}]

\* DB::Open of a new database (NewDB): log 3, MANIFEST 2.
Init ==
  /\ logs = [n \in {3} |-> NewLog]
  /\ tables = [n \in {} |-> {}]
  /\ manifest = <<Edit({}, {}, {}, 3, 4, 0)>> /\ msynced = 1
  /\ mem = {} /\ imm = {} /\ logfile_number_ = 3
  /\ versions = [current |-> NoFiles, log_number_ |-> 3, next_file_number_ |-> 4, last_sequence_ |-> 0]
  /\ pending_outputs_ = {}
  /\ bg_error_ = FALSE
  /\ writers_ = << >>
  /\ thread = [t \in Threads |-> Idle]
  /\ bg = BackgroundOff
  /\ manual_compaction_ = Nil
  /\ pinned = {}
  /\ phase = "open"
  /\ count = [batches |-> 0, faults |-> 0, crashes |-> 0, ranges |-> 0]
  /\ owed = {} /\ durable = {} /\ dropped = {}

-------------------------------------------------------------------------------
(* Conditions and signals *)

Running == phase \in {"open", "closing"}
shutting_down_ == phase = "closing"
NeedsCompaction(v) == Cardinality(v.l0) >= kL0_CompactionTrigger

\* MaybeScheduleCompaction, with the state that it finds.
MaybeSchedule(b, memtable, manual, v, error) ==
  IF /\ b.pc = "off" /\ ~shutting_down_ /\ ~error
     /\ memtable # {} \/ manual # Nil \/ NeedsCompaction(v)
  THEN [b EXCEPT !.pc = "scheduled"]
  ELSE b

\* background_work_finished_signal_.SignalAll: who waits looks again.
Resumed == [room_wait |-> "room", flush_wait |-> "flush", manual_wait |-> "manual"]
SignalAll(threads) ==
  [t \in Threads |-> IF threads[t].pc \in DOMAIN Resumed
                     THEN [threads[t] EXCEPT !.pc = Resumed[@]] ELSE threads[t]]

\* w.cv.Signal
Signal(w) == IF w.pc = "cv_wait" THEN [w EXCEPT !.pc = "woken"] ELSE w

\* RecordBackgroundError
RecordError(threads) == IF bg_error_ THEN threads ELSE SignalAll(threads)

\* A fault of the file system that the bound allows.
Fault == count.faults < MaxFaults /\ count' = [count EXCEPT !.faults = @ + 1]

\* DeleteObsoleteFiles with the version v: tables that no version or pending output
\* has and logs before log are deleted, unless there was a background error.
Pins(b) == (UNION pinned) \cup Files(b.inputVersion)

\* Variant: the inputs of the compaction and the versions of readers do not count.
DeleteObsoleteUnpinned(v, b, pending, log, onDisk) ==
  /\ tables' = Restricted(onDisk, Files(v) \cup pending)
  /\ logs' = Restricted(logs, {n \in DOMAIN logs : n >= log})

DeleteObsoleteFiles(v, b, pending, log, onDisk) ==
  /\ tables' = Restricted(onDisk, Files(v) \cup Pins(b) \cup pending)
  /\ logs' = Restricted(logs, {n \in DOMAIN logs : n >= log})

-------------------------------------------------------------------------------
(* Write *)

\* A thread calls Write; batch is the batch or Nil (CompactRange).
Enqueue(t, sync, batch) ==
  /\ phase = "open" /\ thread[t].pc = "idle"
  /\ writers_' = Append(writers_, t)
  /\ thread' = [thread EXCEPT ![t] =
       [Idle EXCEPT !.pc = IF writers_ = << >> THEN "room" ELSE "cv_wait",
                    !.sync = sync, !.batch = batch,
                    !.force = batch = Nil, !.allow_delay = batch # Nil]]
  /\ UNCHANGED <<files, memory, bg_error_, bg, manual_compaction_, pinned, phase, ghosts>>

Write(t, sync) ==
  /\ count.batches < MaxBatches
  /\ count' = [count EXCEPT !.batches = @ + 1]
  /\ Enqueue(t, sync, count.batches + 1)

\* CompactRange: TEST_CompactMemTable, then TEST_CompactRange of level 0.
CompactRange(t) ==
  /\ count.ranges < CompactRanges
  /\ count' = [count EXCEPT !.ranges = @ + 1]
  /\ Enqueue(t, FALSE, Nil)

\* What a thread does when its Write is over.
Returns(w, status) ==
  IF w.batch # Nil THEN Idle
  ELSE [Idle EXCEPT !.pc = IF status = "ok" THEN "flush" ELSE "manual"]

\* A thread woken on its condition variable.
Woken(t) ==
  /\ Running /\ thread[t].pc = "woken"
  /\ thread' = [thread EXCEPT ![t] =
       IF @.done THEN Returns(@, @.status)
       ELSE [@ EXCEPT !.pc = IF Head(writers_) = t THEN "room" ELSE "cv_wait"]]
  /\ UNCHANGED <<files, memory, bg_error_, writers_, bg, manual_compaction_, pinned,
                 phase, count, ghosts>>

\* The tail of Write: the writers up to last get the status, the new head is woken.
Pop(t, last, status, threads) ==
  \E n \in DOMAIN writers_ :
    LET group == {writers_[i] : i \in 1..n}
        rest == SubSeq(writers_, n + 1, Len(writers_)) IN
    /\ writers_[n] = last
    /\ writers_' = rest
    /\ thread' = [u \in Threads |->
         CASE u = t -> Returns(threads[u], status)
           [] u # t /\ u \in group -> Signal([threads[u] EXCEPT !.done = TRUE, !.status = status])
           [] u \notin group /\ rest # << >> /\ u = Head(rest) -> Signal(threads[u])
           [] OTHER -> threads[u]]

HasRoom(t) == ~thread[t].force /\ Cardinality(mem) < WriteBufferSize
Delayed(t) == thread[t].allow_delay /\ Cardinality(versions.current.l0) >= kL0_SlowdownWritesTrigger
AtRoom(t) == Running /\ thread[t].pc = "room"

\* MakeRoomForWrite fails with the background error, or because there is no new log;
\* the writer returns alone.
RoomFails(t) ==
  /\ AtRoom(t)
  /\ \/ bg_error_ /\ UNCHANGED count
     \/ ~bg_error_ /\ ~Delayed(t) /\ ~HasRoom(t) /\ imm = {}
        /\ Cardinality(versions.current.l0) < kL0_StopWritesTrigger /\ Fault
  /\ Pop(t, t, "error", thread)
  /\ UNCHANGED <<files, memory, bg_error_, bg, manual_compaction_, pinned, phase, ghosts>>

\* The delay of a millisecond, once per write.
Delay(t) ==
  /\ AtRoom(t) /\ ~bg_error_ /\ Delayed(t)
  /\ thread' = [thread EXCEPT ![t].allow_delay = FALSE]
  /\ UNCHANGED <<files, memory, bg_error_, writers_, bg, manual_compaction_, pinned,
                 phase, count, ghosts>>

\* The writer waits for the background thread.
WaitForRoom(t) ==
  /\ AtRoom(t) /\ ~bg_error_ /\ ~Delayed(t) /\ ~HasRoom(t)
  /\ imm # {} \/ Cardinality(versions.current.l0) >= kL0_StopWritesTrigger
  /\ thread' = [thread EXCEPT ![t].pc = "room_wait"]
  /\ UNCHANGED <<files, memory, bg_error_, writers_, bg, manual_compaction_, pinned,
                 phase, count, ghosts>>

\* Variant: the switch does not schedule the background thread.
SwitchMemTableSilently(t) ==
  /\ AtRoom(t) /\ ~bg_error_ /\ ~Delayed(t) /\ ~HasRoom(t)
  /\ imm = {} /\ Cardinality(versions.current.l0) < kL0_StopWritesTrigger
  /\ logs' = With(logs, versions.next_file_number_, NewLog)
  /\ logfile_number_' = versions.next_file_number_
  /\ versions' = [versions EXCEPT !.next_file_number_ = @ + 1]
  /\ imm' = {mem} /\ mem' = {}
  /\ thread' = [thread EXCEPT ![t].force = FALSE]
  /\ UNCHANGED <<tables, manifest, msynced, pending_outputs_, bg, bg_error_, writers_,
                 manual_compaction_, pinned, phase, count, ghosts>>

\* A new log and a new memtable.
SwitchMemTable(t) ==
  /\ AtRoom(t) /\ ~bg_error_ /\ ~Delayed(t) /\ ~HasRoom(t)
  /\ imm = {} /\ Cardinality(versions.current.l0) < kL0_StopWritesTrigger
  /\ logs' = With(logs, versions.next_file_number_, NewLog)
  /\ logfile_number_' = versions.next_file_number_
  /\ versions' = [versions EXCEPT !.next_file_number_ = @ + 1]
  /\ imm' = {mem} /\ mem' = {}
  /\ thread' = [thread EXCEPT ![t].force = FALSE]
  /\ bg' = MaybeSchedule(bg, imm', manual_compaction_, versions.current, bg_error_)
  /\ UNCHANGED <<tables, manifest, msynced, pending_outputs_, bg_error_, writers_,
                 manual_compaction_, pinned, phase, count, ghosts>>

\* Variant: a group takes all writers there are.
BuildBatchGroupAll == {Len(writers_)}

\* BuildBatchGroup: how far the group may reach.  It ends before a sync write if its
\* leader is not one, and may end before any batch that makes it too big.
BuildBatchGroup ==
  {n \in DOMAIN writers_ :
     /\ \A i \in 1..n : thread[writers_[i]].sync => thread[writers_[1]].sync
     /\ n < Len(writers_) =>
          \/ thread[writers_[n + 1]].sync /\ ~thread[writers_[1]].sync
          \/ thread[writers_[n + 1]].batch # Nil}

\* There is room: the leader of the group goes on to log it, without the mutex, or
\* has nothing to write.
BeginLogging(t) ==
  /\ AtRoom(t) /\ ~bg_error_ /\ ~Delayed(t) /\ HasRoom(t)
  /\ IF thread[t].batch = Nil
     THEN Pop(t, t, "ok", thread)
     ELSE /\ \E n \in BuildBatchGroup :
               thread' = [thread EXCEPT ![t].pc = "log", ![t].last = writers_[n]]
          /\ UNCHANGED writers_
  /\ UNCHANGED <<files, memory, bg_error_, bg, manual_compaction_, pinned, phase, count, ghosts>>

\* The places in the queue of the writers whose batches are in the group of t, and the
\* entries that these become: the group gets consecutive sequence numbers.
GroupWriters(t) ==
  LET n == CHOOSE i \in DOMAIN writers_ : writers_[i] = thread[t].last
  IN  {i \in 1..n : thread[writers_[i]].batch # Nil}

GroupEntries(t) ==
  {Entry(versions.last_sequence_ + Cardinality(GroupWriters(t) \cap 1..i), thread[writers_[i]].batch) :
     i \in GroupWriters(t)}

\* log_->AddRecord, in one record for the group.  If it fails, part of the record may be in the
\* file, and the writer moves on by all of it (log_writer.cc:106): nobody stops writing to that
\* log, and of every later record it is left open whether a reader will find it.
AddRecord(t) ==
  /\ Running /\ thread[t].pc = "log"
  /\ \/ /\ \E lost \in {{}} \cup (IF logs[logfile_number_].torn THEN {GroupEntries(t)} ELSE {}) :
             logs' = [logs EXCEPT ![logfile_number_].recs = Append(@, GroupEntries(t)),
                                  ![logfile_number_].unread = @ \cup lost]
        /\ thread' = [thread EXCEPT ![t].pc = IF thread[t].sync THEN "sync" ELSE "insert"]
        /\ UNCHANGED count
     \/ /\ Fault
        /\ thread' = [thread EXCEPT ![t].pc = "finish", ![t].status = "error"]
        /\ logs' = [logs EXCEPT ![logfile_number_].torn = TRUE]
  /\ UNCHANGED <<tables, manifest, msynced, memory, bg_error_, writers_, bg,
                 manual_compaction_, pinned, phase, ghosts>>

\* logfile_->Sync
SyncLog(t) ==
  /\ Running /\ thread[t].pc = "sync"
  /\ \/ /\ logs' = [logs EXCEPT ![logfile_number_].synced = Len(logs[logfile_number_].recs)]
        /\ thread' = [thread EXCEPT ![t].pc = "insert"]
        /\ UNCHANGED count
     \/ /\ Fault
        /\ thread' = [thread EXCEPT ![t].pc = "finish", ![t].status = "sync_error"]
        /\ UNCHANGED logs
  /\ UNCHANGED <<tables, manifest, msynced, memory, bg_error_, writers_, bg,
                 manual_compaction_, pinned, phase, ghosts>>

\* WriteBatchInternal::InsertInto
InsertInto(t) ==
  /\ Running /\ thread[t].pc = "insert"
  /\ mem' = mem \cup GroupEntries(t)
  /\ thread' = [thread EXCEPT ![t].pc = "finish"]
  /\ UNCHANGED <<files, imm, logfile_number_, versions, pending_outputs_, bg_error_, writers_,
                 bg, manual_compaction_, pinned, phase, count, ghosts>>

\* The leader has the mutex again.  The sequence numbers are used up also if the
\* write failed; a failed sync stops all writing.
FinishWrite(t) ==
  LET failed == thread[t].status # "ok"
      error == thread[t].status = "sync_error" IN
  /\ Running /\ thread[t].pc = "finish"
  /\ bg_error_' = (bg_error_ \/ error)
  /\ versions' = [versions EXCEPT !.last_sequence_ = @ + Cardinality(GroupWriters(t))]
  /\ Pop(t, thread[t].last, IF failed THEN "error" ELSE "ok",
         IF error THEN RecordError(thread) ELSE thread)
  /\ owed' = IF failed THEN owed ELSE owed \cup GroupEntries(t)
  /\ durable' = IF failed THEN durable
                ELSE durable \cup {e \in GroupEntries(t) : \E u \in Threads :
                                     thread[u].sync /\ thread[u].batch = e.id}
  /\ UNCHANGED <<files, mem, imm, logfile_number_, pending_outputs_, bg, manual_compaction_,
                 pinned, phase, count, dropped>>

-------------------------------------------------------------------------------
(* CompactRange after its Write *)

\* TEST_CompactMemTable waits until the memtable it switched is compacted.
WaitForFlush(t) ==
  /\ Running /\ thread[t].pc = "flush"
  /\ thread' = [thread EXCEPT ![t].pc =
       IF imm # {} /\ ~bg_error_ THEN "flush_wait" ELSE "manual"]
  /\ UNCHANGED <<files, memory, bg_error_, writers_, bg, manual_compaction_, pinned,
                 phase, count, ghosts>>

\* TEST_CompactRange: one iteration of its loop, or its end.
ManualCompaction(t) ==
  /\ Running /\ thread[t].pc = "manual"
  /\ IF thread[t].done \/ shutting_down_ \/ bg_error_
     THEN /\ manual_compaction_' = IF manual_compaction_ = t THEN Nil ELSE manual_compaction_
          /\ thread' = [thread EXCEPT ![t] = Idle]
          /\ UNCHANGED bg
     ELSE IF manual_compaction_ = Nil
     THEN /\ manual_compaction_' = t
          /\ bg' = MaybeSchedule(bg, imm, t, versions.current, bg_error_)
          /\ UNCHANGED thread
     ELSE /\ thread' = [thread EXCEPT ![t].pc = "manual_wait"]
          /\ UNCHANGED <<bg, manual_compaction_>>
  /\ UNCHANGED <<files, memory, bg_error_, writers_, pinned, phase, count, ghosts>>

-------------------------------------------------------------------------------
(* The background thread *)

AtBackground(pc) == Running /\ bg.pc = pc

\* The end of BackgroundCall: schedule again if there is more to do, and wake everyone.
EndCall(threads) ==
  /\ bg' = MaybeSchedule(BackgroundOff, imm', manual_compaction_', versions'.current, bg_error_')
  /\ thread' = SignalAll(threads)

\* BackgroundCall finds the database closing or broken.
NoBackgroundWork ==
  /\ AtBackground("scheduled") /\ (shutting_down_ \/ bg_error_)
  /\ UNCHANGED <<files, memory, bg_error_, writers_, manual_compaction_, pinned, phase, count, ghosts>>
  /\ EndCall(thread)

\* CompactMemTable up to where WriteLevel0Table unlocks the mutex.
BeginFlush(caller) ==
  /\ imm # {}
  /\ bg' = [bg EXCEPT !.pc = "build", !.out = versions.next_file_number_, !.caller = caller]
  /\ versions' = [versions EXCEPT !.next_file_number_ = @ + 1]
  /\ pending_outputs_' = pending_outputs_ \cup {versions.next_file_number_}
  /\ UNCHANGED <<files, mem, imm, logfile_number_, bg_error_, writers_, thread,
                 manual_compaction_, pinned, phase, count, ghosts>>

Flush == AtBackground("scheduled") /\ ~shutting_down_ /\ ~bg_error_ /\ BeginFlush(Nil)

\* DoCompactionWork puts the memtable first.
FlushInCompaction ==
  /\ Running /\ ~shutting_down_ /\ bg.pc \in {"compact", "writing"}
  /\ BeginFlush(bg.pc)

\* BuildTable; an empty memtable makes no file.
BuildTable ==
  /\ AtBackground("build")
  /\ bg' \in {[bg EXCEPT !.pc = "built", !.status = s] : s \in {"ok", "error"}}
  /\ IF bg'.status = "error" THEN Fault /\ UNCHANGED tables
     ELSE tables' = (IF UNION imm = {} THEN tables ELSE With(tables, bg.out, UNION imm)) /\ UNCHANGED count
  /\ UNCHANGED <<logs, manifest, msynced, memory, bg_error_, writers_, thread,
                 manual_compaction_, pinned, phase, ghosts>>

\* CompactMemTable returns, to BackgroundCompaction or to DoCompactionWork.
FlushReturns ==
  IF bg.caller = Nil THEN EndCall(thread)
  ELSE /\ bg' = [bg EXCEPT !.pc = bg.caller, !.out = Nil, !.caller = Nil, !.edit = NoEdit, !.status = "ok"]
       /\ thread' = SignalAll(thread)

\* The rest of WriteLevel0Table, and LogAndApply up to where it unlocks the mutex.
\* PickLevelForMemTableOutput may put the table below level 0.
FlushBuilt ==
  LET file == IF UNION imm = {} THEN {} ELSE {bg.out} IN
  /\ AtBackground("built")
  /\ pending_outputs_' = pending_outputs_ \ {bg.out}
  /\ UNCHANGED <<files, mem, imm, logfile_number_, versions, writers_, manual_compaction_, pinned,
                 phase, count, ghosts>>
  /\ IF bg.status = "error" \/ shutting_down_
     THEN bg_error_' = TRUE /\ FlushReturns
     ELSE /\ \E l0 \in {{}, file} :
               bg' = [bg EXCEPT !.pc = "manifest",
                                !.edit = Edit(l0, file \ l0, {}, logfile_number_,
                                              versions.next_file_number_, versions.last_sequence_)]
          /\ UNCHANGED <<bg_error_, thread>>

\* The write and the sync of the MANIFEST in LogAndApply; after a failed sync the
\* record may be there or not.
WriteManifest ==
  /\ AtBackground("manifest")
  /\ \/ /\ manifest' = Append(manifest, bg.edit) /\ msynced' = Len(manifest) + 1
        /\ bg' = [bg EXCEPT !.pc = "install"]
        /\ UNCHANGED count
     \/ /\ Fault
        /\ manifest' \in {manifest, Append(manifest, bg.edit)} /\ UNCHANGED msynced
        /\ bg' = [bg EXCEPT !.pc = "install", !.status = "error"]
  /\ UNCHANGED <<logs, tables, memory, bg_error_, writers_, thread, manual_compaction_, pinned,
                 phase, ghosts>>

\* The end of LogAndApply.
InstallVersion ==
  versions' = IF bg.status = "error" THEN versions
              ELSE [versions EXCEPT !.current = Apply(@, bg.edit), !.log_number_ = bg.edit.log]

\* Variant: obsolete files are deleted also after an error.
InstallFlushDeletes ==
  /\ AtBackground("install") /\ bg.out # Nil
  /\ InstallVersion
  /\ bg_error_' = (bg_error_ \/ bg.status = "error")
  /\ imm' = IF bg.status = "error" THEN imm ELSE {}
  /\ DeleteObsoleteFiles(versions'.current, bg, pending_outputs_, versions'.log_number_, tables)
  /\ UNCHANGED <<manifest, msynced, mem, logfile_number_, pending_outputs_, writers_,
                 manual_compaction_, pinned, phase, count, ghosts>>
  /\ FlushReturns

\* The end of CompactMemTable.
InstallFlush ==
  /\ AtBackground("install") /\ bg.out # Nil
  /\ InstallVersion
  /\ bg_error_' = (bg_error_ \/ bg.status = "error")
  /\ imm' = IF bg.status = "error" THEN imm ELSE {}
  /\ IF bg_error_' THEN UNCHANGED <<logs, tables>>
     ELSE DeleteObsoleteFiles(versions'.current, bg, pending_outputs_, versions'.log_number_, tables)
  /\ UNCHANGED <<manifest, msynced, mem, logfile_number_, pending_outputs_, writers_,
                 manual_compaction_, pinned, phase, count, ghosts>>
  /\ FlushReturns

\* The files that a compaction of level 0 may take: with them it takes from the level
\* below what overlaps.  Manual compactions have a range that may overlap nothing.
Picks ==
  {[l0 |-> S, deep |-> D] : S \in SUBSET versions.current.l0, D \in {{}, versions.current.deep}}

AtPick == AtBackground("scheduled") /\ ~shutting_down_ /\ ~bg_error_ /\ imm = {}
is_manual == manual_compaction_ # Nil

\* BackgroundCompaction has nothing to compact.
NothingToCompact ==
  /\ AtPick /\ (is_manual \/ ~NeedsCompaction(versions.current))
  /\ manual_compaction_' = Nil
  /\ UNCHANGED <<files, memory, bg_error_, writers_, pinned, phase, count, ghosts>>
  /\ EndCall(IF is_manual THEN [thread EXCEPT ![manual_compaction_].done = TRUE] ELSE thread)

\* BackgroundCompaction moves one file down without rewriting it.
TrivialMove ==
  /\ AtPick /\ ~is_manual /\ NeedsCompaction(versions.current)
  /\ \E f \in versions.current.l0 :
       bg' = [bg EXCEPT !.pc = "manifest",
                        !.edit = Edit({}, {f}, {f}, versions.log_number_,
                                      versions.next_file_number_, versions.last_sequence_)]
  /\ UNCHANGED <<files, memory, bg_error_, writers_, thread, manual_compaction_, pinned, phase,
                 count, ghosts>>

\* BackgroundCompaction picks inputs and unlocks the mutex in DoCompactionWork.
PickCompaction ==
  /\ AtPick /\ (is_manual \/ NeedsCompaction(versions.current))
  /\ \E pick \in Picks :
       /\ pick.l0 # {}
       /\ bg' = [bg EXCEPT !.pc = "compact", !.inputs = Files(pick), !.is_manual = is_manual,
                           !.inputVersion = versions.current]
  /\ UNCHANGED <<files, memory, bg_error_, writers_, thread, manual_compaction_, pinned, phase,
                 count, ghosts>>

\* OpenCompactionOutputFile: the number under the mutex, then the file.
OpenCompactionOutputFile ==
  /\ AtBackground("compact") /\ ~shutting_down_
  /\ versions' = [versions EXCEPT !.next_file_number_ = @ + 1]
  /\ pending_outputs_' = pending_outputs_ \cup {versions.next_file_number_}
  /\ \/ /\ tables' = With(tables, versions.next_file_number_, {})
        /\ bg' = [bg EXCEPT !.pc = "writing", !.output = versions.next_file_number_]
        /\ UNCHANGED count
     \/ /\ Fault
        /\ bg' = [bg EXCEPT !.pc = "finish", !.output = versions.next_file_number_, !.status = "error"]
        /\ UNCHANGED tables
  /\ UNCHANGED <<logs, manifest, msynced, mem, imm, logfile_number_, bg_error_, writers_, thread,
                 manual_compaction_, pinned, phase, ghosts>>

\* FinishCompactionOutputFile: the output holds what the inputs hold.
FinishCompactionOutputFile ==
  /\ AtBackground("writing") /\ ~shutting_down_
  /\ \/ /\ tables' = [tables EXCEPT ![bg.output] = UNION {tables[f] : f \in bg.inputs}]
        /\ bg' = [bg EXCEPT !.pc = "finish"]
        /\ UNCHANGED count
     \/ /\ Fault
        /\ bg' = [bg EXCEPT !.pc = "finish", !.status = "error"]
        /\ UNCHANGED tables
  /\ UNCHANGED <<logs, manifest, msynced, memory, bg_error_, writers_, thread,
                 manual_compaction_, pinned, phase, ghosts>>

\* DoCompactionWork stops because the database is being closed.
AbandonCompaction ==
  /\ shutting_down_ /\ bg.pc \in {"compact", "writing"}
  /\ bg' = [bg EXCEPT !.pc = "finish", !.status = "error"]
  /\ UNCHANGED <<files, memory, bg_error_, writers_, thread, manual_compaction_, pinned, phase,
                 count, ghosts>>

\* BackgroundCompaction after the compaction: CleanupCompaction, ReleaseInputs,
\* DeleteObsoleteFiles (not after a move) and the manual compaction, which it takes
\* to be still there.
CompactionEnds ==
  LET m == manual_compaction_ IN
  /\ pending_outputs_' = pending_outputs_ \ {bg.output}
  /\ bg_error_' = (bg_error_ \/ bg.status = "error")
  /\ IF bg_error_' \/ bg.inputs = {} THEN UNCHANGED <<logs, tables>>
     ELSE DeleteObsoleteFiles(versions'.current, BackgroundOff, pending_outputs_',
                              versions'.log_number_, tables)
  /\ UNCHANGED <<manifest, msynced, mem, imm, logfile_number_, writers_, pinned, phase, count, ghosts>>
  /\ IF bg.is_manual /\ m = Nil
     THEN bg' = [BackgroundOff EXCEPT !.pc = "trap"] /\ UNCHANGED <<thread, manual_compaction_>>
     ELSE /\ manual_compaction_' = IF bg.is_manual THEN Nil ELSE m
          /\ EndCall(IF bg.is_manual /\ bg.status = "error" THEN [thread EXCEPT ![m].done = TRUE]
                     ELSE thread)

\* The end of DoCompactionWork: InstallCompactionResults up to where LogAndApply
\* unlocks the mutex.
FinishCompaction ==
  /\ AtBackground("finish")
  /\ IF bg.status = "error"
     THEN UNCHANGED versions /\ CompactionEnds
     ELSE /\ bg' = [bg EXCEPT !.pc = "manifest",
                              !.edit = Edit({}, {bg.output}, bg.inputs, versions.log_number_,
                                            versions.next_file_number_, versions.last_sequence_)]
          /\ UNCHANGED <<files, memory, bg_error_, writers_, thread, manual_compaction_, pinned,
                         phase, count, ghosts>>

InstallCompaction ==
  /\ AtBackground("install") /\ bg.out = Nil
  /\ InstallVersion
  /\ CompactionEnds

-------------------------------------------------------------------------------
(* Readers *)

\* Get and NewInternalIterator hold a reference to the current version while they
\* read without the mutex.
RefVersion ==
  /\ Reads /\ phase = "open" /\ pinned = {}
  /\ pinned' = {Files(versions.current)}
  /\ UNCHANGED <<files, memory, bg_error_, writers_, thread, bg, manual_compaction_, phase, count, ghosts>>

UnrefVersion ==
  /\ pinned # {}
  /\ pinned' = {}
  /\ UNCHANGED <<files, memory, bg_error_, writers_, thread, bg, manual_compaction_, phase, count, ghosts>>

-------------------------------------------------------------------------------
(* Closing, crashing and opening *)

\* ~DBImpl, once nobody uses the database.
Close ==
  /\ phase = "open" /\ count.crashes < MaxCrashes /\ pinned = {}
  /\ \A t \in Threads : thread[t].pc = "idle"
  /\ phase' = "closing" /\ count' = [count EXCEPT !.crashes = @ + 1]
  /\ UNCHANGED <<files, memory, bg_error_, writers_, thread, bg, manual_compaction_, pinned, ghosts>>

\* All that is not in files is gone.
Gone ==
  /\ mem' = {} /\ imm' = {} /\ logfile_number_' = 0 /\ pending_outputs_' = {}
  /\ versions' = [current |-> NoFiles, log_number_ |-> 0, next_file_number_ |-> 0, last_sequence_ |-> 0]
  /\ bg_error_' = FALSE /\ writers_' = << >> /\ thread' = [t \in Threads |-> Idle]
  /\ bg' = BackgroundOff /\ manual_compaction_' = Nil /\ pinned' = {} /\ phase' = "closed"
  /\ dropped' = {}

\* The version after the first n of the edits of a MANIFEST: a file is there if an edit
\* added it and no later one deleted it.
Deleted(edits, i, n) == UNION {edits[j].deleted : j \in i..n}
VersionOf(edits, n) ==
  [l0   |-> UNION {edits[i].l0 \ Deleted(edits, i + 1, n) : i \in 1..n},
   deep |-> UNION {edits[i].deep \ Deleted(edits, i + 1, n) : i \in 1..n}]
Held(S) == UNION {tables[f] : f \in S}

\* The entries in logs that nobody will read, unless they are in tables after n edits.
Unrecoverable(n) ==
  (UNION {logs[m].unread : m \in DOMAIN logs}) \ Held(Files(VersionOf(manifest, n)))

\* Nobody has the database open any more: the files are as it left them.
Stops ==
  /\ Gone /\ UNCHANGED files
  /\ owed' = owed \ Unrecoverable(Len(manifest)) /\ durable' = durable \ Unrecoverable(msynced)

Closed ==
  /\ phase = "closing" /\ bg.pc = "off"
  /\ Stops /\ UNCHANGED count

ProcessStops ==
  /\ phase # "closed" /\ count.crashes < MaxCrashes
  /\ count' = [count EXCEPT !.crashes = @ + 1]
  /\ Stops

\* The machine crashes: of every log, and of the MANIFEST, what was not synced may be
\* lost.  What was written with sync or is in tables of the version on disk may not.
MachineCrashes ==
  /\ count.crashes < MaxCrashes
  /\ count' = [count EXCEPT !.crashes = @ + 1]
  /\ \E cut \in [DOMAIN logs -> 0..MaxBatches] :
       /\ \A n \in DOMAIN logs : cut[n] \in logs[n].synced..Len(logs[n].recs)
       /\ logs' = [n \in DOMAIN logs |->
                     [logs[n] EXCEPT !.recs = SubSeq(@, 1, cut[n]), !.synced = cut[n]]]
  /\ \E n \in msynced..Len(manifest) : manifest' = SubSeq(manifest, 1, n) /\ msynced' = n
  /\ durable' = durable \ Unrecoverable(msynced)
  /\ owed' = owed \cap (durable' \cup Held(Files(VersionOf(manifest, msynced))))
  /\ Gone /\ UNCHANGED tables

\* What a reader finds in a log file, in its first k records and in all of it.
ReplayedUpTo(n, k) == (UNION {logs[n].recs[i] : i \in 1..k}) \ logs[n].unread
Replayed(n) == ReplayedUpTo(n, Len(logs[n].recs))

\* DB::Open: VersionSet::Recover, and the list of the logs from the one on that the
\* MANIFEST names; it may know of only some of them.  A manifest file takes the first number.
Recover ==
  LET last == manifest[Len(manifest)]
      v == VersionOf(manifest, Len(manifest)) IN
  /\ phase = "closed" /\ Files(v) \subseteq DOMAIN tables
  /\ phase' = "recovering"
  /\ versions' = [current |-> v, log_number_ |-> last.log, next_file_number_ |-> last.next + 1,
                  last_sequence_ |-> last.seq]
  /\ bg' = [bg EXCEPT !.logs = {n \in DOMAIN logs : n >= last.log}]
  /\ UNCHANGED <<files, mem, imm, logfile_number_, pending_outputs_, bg_error_, writers_, thread,
                 manual_compaction_, pinned, count, ghosts>>

\* RecoverLogFile of the oldest log that is left makes a table of what it reads; the number
\* of the log is marked as used, and the last sequence number is the greatest there is.  If the
\* log cannot be opened, or not read to its end, the error is ignored: the rest is dropped.
RecoverLogFile ==
  /\ phase = "recovering"
  /\ \E n \in bg.logs : \E read \in 0..Len(logs[n].recs) :
       LET entries == ReplayedUpTo(n, read)
           table == entries # {}
           next == versions.next_file_number_ + (IF table THEN 1 ELSE 0) IN
       /\ \A m \in bg.logs : n <= m
       /\ IF read = Len(logs[n].recs) THEN UNCHANGED count ELSE Fault
       /\ dropped' = dropped \cup (Replayed(n) \ entries)
       /\ tables' = IF table THEN With(tables, versions.next_file_number_, entries) ELSE tables
       /\ bg' = [bg EXCEPT !.logs = @ \ {n},
                           !.edit.l0 = IF table THEN @ \cup {versions.next_file_number_} ELSE @]
       /\ \E max_sequence \in {versions.last_sequence_} \cup {e.seq : e \in entries} :
            /\ versions.last_sequence_ <= max_sequence /\ \A e \in entries : e.seq <= max_sequence
            /\ versions' = [versions EXCEPT !.next_file_number_ = IF next <= n THEN n + 1 ELSE next,
                                            !.last_sequence_ = max_sequence]
  /\ UNCHANGED <<logs, manifest, msynced, mem, imm, logfile_number_, pending_outputs_, bg_error_,
                 writers_, thread, manual_compaction_, pinned, phase, owed, durable>>

\* DB::Open makes a new log when all are replayed.
OpenNewLog ==
  LET number == versions.next_file_number_ IN
  /\ phase = "recovering" /\ bg.logs = {}
  /\ phase' = "installing"
  /\ logs' = With(logs, number, NewLog)
  /\ logfile_number_' = number
  /\ versions' = [versions EXCEPT !.next_file_number_ = number + 1]
  /\ bg' = [bg EXCEPT !.edit = Edit(@.l0, {}, {}, number, number + 1, versions.last_sequence_)]
  /\ UNCHANGED <<tables, manifest, msynced, mem, imm, pending_outputs_, bg_error_, writers_, thread,
                 manual_compaction_, pinned, count, ghosts>>

\* The rest of DB::Open: a new MANIFEST with a snapshot of the version, which becomes
\* current when it is synced; then obsolete files are deleted, with the logs that were dropped.
Install ==
  LET v == Apply(versions.current, bg.edit)
      lost == dropped \ Held(Files(v)) IN
  /\ phase = "installing"
  /\ phase' = "open"
  /\ manifest' = <<Edit(v.l0, v.deep, {}, bg.edit.log, bg.edit.next, bg.edit.seq)>> /\ msynced' = 1
  /\ versions' = [versions EXCEPT !.current = v, !.log_number_ = bg.edit.log]
  /\ DeleteObsoleteFiles(v, BackgroundOff, {}, bg.edit.log, tables)
  /\ bg' = MaybeSchedule(BackgroundOff, imm, Nil, v, FALSE)
  /\ owed' = owed \ lost /\ durable' = durable \ lost /\ dropped' = {}
  /\ UNCHANGED <<mem, imm, logfile_number_, pending_outputs_, bg_error_, writers_, thread,
                 manual_compaction_, pinned, count>>

\* DB::Open fails: it cannot write the table of the log that is next, the new log or the MANIFEST.
OpenFails ==
  /\ \/ phase = "recovering" /\ bg.logs = {}
     \/ phase = "recovering" /\ \E n \in bg.logs : Replayed(n) # {} /\ \A m \in bg.logs : n <= m
     \/ phase = "installing"
  /\ Fault /\ Stops

-------------------------------------------------------------------------------
ThreadStep(t) ==
  \/ Woken(t) \/ RoomFails(t) \/ Delay(t) \/ WaitForRoom(t) \/ SwitchMemTable(t)
  \/ BeginLogging(t) \/ AddRecord(t) \/ SyncLog(t) \/ InsertInto(t) \/ FinishWrite(t)
  \/ WaitForFlush(t) \/ ManualCompaction(t)

BackgroundStep ==
  \/ NoBackgroundWork \/ Flush \/ FlushInCompaction \/ BuildTable \/ FlushBuilt \/ WriteManifest
  \/ InstallFlush \/ NothingToCompact \/ TrivialMove \/ PickCompaction
  \/ OpenCompactionOutputFile \/ FinishCompactionOutputFile \/ AbandonCompaction
  \/ FinishCompaction \/ InstallCompaction

Next ==
  \/ \E t \in Threads : ThreadStep(t) \/ CompactRange(t) \/ \E sync \in Syncs : Write(t, sync)
  \/ BackgroundStep
  \/ RefVersion \/ UnrefVersion
  \/ Close \/ Closed \/ ProcessStops \/ MachineCrashes \/ Recover
  \/ RecoverLogFile \/ OpenNewLog \/ Install \/ OpenFails

\* Threads that can go on do, and so does the background thread.
Fairness ==
  /\ \A t \in Threads : WF_vars(ThreadStep(t))
  /\ WF_vars(BackgroundStep)
  /\ WF_vars(Closed)

Spec == Init /\ [][Next]_vars /\ Fairness

-------------------------------------------------------------------------------
(* Properties *)

Entries == [seq : Nat, id : 1..MaxBatches]
Numbers == Nat

TypeOK ==
  /\ \A n \in DOMAIN logs :
       /\ logs[n].recs \in Seq(SUBSET Entries) /\ logs[n].synced \in 0..Len(logs[n].recs)
       /\ logs[n].torn \in BOOLEAN /\ logs[n].unread \subseteq Entries
  /\ DOMAIN logs \subseteq Numbers /\ DOMAIN tables \subseteq Numbers
  /\ \A f \in DOMAIN tables : tables[f] \subseteq Entries
  /\ msynced \in 1..Len(manifest)
  /\ mem \subseteq Entries /\ UNION imm \subseteq Entries
  /\ writers_ \in Seq(Threads) /\ bg_error_ \in BOOLEAN
  /\ manual_compaction_ \in Threads \cup {Nil}
  /\ phase \in {"open", "closing", "closed", "recovering", "installing"}
  /\ durable \subseteq Entries /\ owed \subseteq Entries /\ dropped \subseteq Entries

\* What a reader of the current version, of imm_ and of mem_ finds.
Contents == mem \cup (UNION imm) \cup Held(Files(versions.current))

\* What acknowledged writes may rely on.  While the database is open, everything that a Write
\* returned ok for is in mem_, imm_ or a table of the current version: through switches of
\* memtables, compactions, failing file operations, closing, and process crashes; and through
\* machine crashes if it was written with sync or had been flushed.  Two faults are excepted,
\* because the code ignores them: a record written to a log after a failed append may be lost with
\* the memtable, and so may what a recovery cannot read, whose log is then deleted.
WritesSurvive == Running => owed \subseteq Contents

\* Nothing but a fault of the file system loses a write that is in a log.
OnlyFaultsLose ==
  count.faults = 0 =>
    dropped = {} /\ \A n \in DOMAIN logs : ~logs[n].torn /\ logs[n].unread = {}

\* Whatever part of the MANIFEST a crash leaves, the tables that it names exist, so
\* DB::Open never finds "missing files".
ManifestNamesFiles ==
  \A n \in msynced..Len(manifest) : Files(VersionOf(manifest, n)) \subseteq DOMAIN tables

\* DeleteObsoleteFiles never takes a file away from a reader, from the compaction that
\* reads or writes it, or from the current version.
FilesInUseExist ==
  Running => Pins(bg) \cup Files(versions.current) \cup bg.inputs \subseteq DOMAIN tables

\* Two writes never get the same sequence number: neither in memory nor in the tables
\* and logs that a recovery would merge, also after writes that failed and crashes.
OneWritePerSequence ==
  Running =>
    LET seen == Contents \cup UNION {Replayed(n) : n \in {m \in DOMAIN logs : m >= versions.log_number_}}
    IN  \A e, f \in seen : e.seq = f.seq => e = f

\* A thread is in a call; the destructor is running, or has returned.
InCall(t) == thread[t].pc # "idle"
IsClosing == phase = "closing"
IsClosed  == phase = "closed"

===============================================================================

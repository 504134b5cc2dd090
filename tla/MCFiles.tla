------------------------------- MODULE MCFiles --------------------------------
(*****************************************************************************)
(* The files of a database for TLC: the log format of db/log_writer.cc and   *)
(* db/log_reader.cc, the files, locks and limits of util/env_posix.cc, and   *)
(* the two tools that work on a whole directory, DestroyDB and RepairDB.     *)
(*                                                                           *)
(* A behaviour is one of one part, which keeps the variables of its module   *)
(* in the first of v1, v2, ... and leaves the others alone.                  *)
(*****************************************************************************)
EXTENDS Integers, TLC

CONSTANTS p1, p2, p3, t1, t2, t3, t4

\* Databases for RepairDB: the entries of each table and log.  The numbers follow the
\* order in which leveldb makes files: a log gets its number before the table made of
\* it, and the newer log has the larger number.
OneTable  == 5 :> {1, 2}
TwoTables == 5 :> {1, 2} @@ 7 :> {3}
OneLog    == 6 :> {4, 5}
TwoLogs   == 6 :> {3} @@ 8 :> {4}

VARIABLES part, v1, v2, v3, v4, v5, v6, v7, v8, v9, v10, v11, v12, v13, v14, v15

-------------------------------------------------------------------------------
Log == INSTANCE LogFile WITH kBlockSize <- 7, kHeaderSize <- 3, Sizes <- {0, 5, 10},
    MaxRecords <- 3, MaxFailures <- 0, MaxReads <- 1, InitialOffsets <- {0, 4, 6, 9}, file <- v1,
    synced <- v2, sizes <- v3, acked <- v4, durable <- v5, failures <- v6, zeroed <- v7,
    phase <- v8, block_offset_ <- v9, left <- v10, begin <- v11, reader <- v12, returned <- v13,
    reports <- v14, reads <- v15
LogReused == INSTANCE LogFile WITH kBlockSize <- 5, kHeaderSize <- 2, Sizes <- {4}, MaxRecords <- 3,
    MaxFailures <- 1, MaxReads <- 2, InitialOffsets <- {0}, file <- v1, synced <- v2, sizes <- v3,
    acked <- v4, durable <- v5, failures <- v6, zeroed <- v7, phase <- v8, block_offset_ <- v9,
    left <- v10, begin <- v11, reader <- v12, returned <- v13, reports <- v14, reads <- v15
TableFile == INSTANCE WritableFile WITH BufferSize <- 2, MaxAppend <- 5, MaxUnits <- 6,
    is_manifest_ <- FALSE, fd_ <- v1, buf_ <- v2, file <- v3, synced <- v4, dir <- v5,
    entries <- v6, appended <- v7, accepted <- v8, promised <- v9, failed <- v10
ManifestFile == INSTANCE WritableFile WITH BufferSize <- 2, MaxAppend <- 3, MaxUnits <- 4,
    is_manifest_ <- TRUE, fd_ <- v1, buf_ <- v2, file <- v3, synced <- v4, dir <- v5, entries <- v6,
    appended <- v7, accepted <- v8, promised <- v9, failed <- v10
Locks == INSTANCE FileLocks WITH Processes <- {p1, p2, p3}, Threads <- {t1}, owner <- v1,
    locks_ <- v2, pc <- v3, failed <- v4
Limits == INSTANCE ReadOnlyFiles WITH Threads <- {t1, t2, t3, t4}, MaxMmaps <- 1, MaxOpenFiles <- 1,
    acquires_allowed_ <- v1, pc <- v2, fds <- v3, maps <- v4
Destroyed == INSTANCE Destroy WITH Processes <- {p1, p2, p3}, Names <- {"current", "table"},
    MaxInodes <- 2, MaxDestroys <- 1, lockname <- v1, inodes <- v2, owner <- v3, files <- v4,
    pc <- v5, fd <- v6, listed <- v7, result <- v8, destroys <- v9
Repaired == INSTANCE Repair WITH Tables <- TwoTables, Logs <- OneLog, Damage <- {1, 3},
    MaxFaults <- 3, MaxRuns <- 2, dir <- v1, lost <- v2, manifest <- v3, pc <- v4, logs_ <- v5,
    table_numbers_ <- v6, tables_ <- v7, next_file_number_ <- v8, out <- v9, runs <- v10,
    mishap <- v11, damaged <- v12, max_sequence <- v13
RepairedAgain == INSTANCE Repair WITH Tables <- OneTable, Logs <- TwoLogs, Damage <- {1, 3},
    MaxFaults <- 0, MaxRuns <- 3, dir <- v1, lost <- v2, manifest <- v3, pc <- v4, logs_ <- v5,
    table_numbers_ <- v6, tables_ <- v7, next_file_number_ <- v8, out <- v9, runs <- v10,
    mishap <- v11, damaged <- v12, max_sequence <- v13

ASSUME LogAssumption == Log!LogAssumption /\ LogReused!LogAssumption
ASSUME FileAssumption ==
  /\ TableFile!WritableFileAssumption /\ ManifestFile!WritableFileAssumption
  /\ Limits!ReadOnlyFilesAssumption /\ Destroyed!DestroyAssumption
ASSUME RepairAssumption == Repaired!RepairAssumption /\ RepairedAgain!RepairAssumption

-------------------------------------------------------------------------------
\* The variables that the part does not need
after4 == <<v5, v6, v7, v8, v9, v10, v11, v12, v13, v14, v15>>
after9 == <<v10, v11, v12, v13, v14, v15>>
after10 == <<v11, v12, v13, v14, v15>>
after13 == <<v14, v15>>
vars == <<part, v1, v2, v3, v4, v5, v6, v7, v8, v9, v10, v11, v12, v13, v14, v15>>

Unused4 == v5 = 0 /\ v6 = 0 /\ v7 = 0 /\ v8 = 0 /\ v9 = 0 /\ v10 = 0 /\ v11 = 0 /\ v12 = 0 /\ v13 = 0 /\
    v14 = 0 /\ v15 = 0
Unused9 == v10 = 0 /\ v11 = 0 /\ v12 = 0 /\ v13 = 0 /\ v14 = 0 /\ v15 = 0
Unused10 == v11 = 0 /\ v12 = 0 /\ v13 = 0 /\ v14 = 0 /\ v15 = 0
Unused13 == v14 = 0 /\ v15 = 0

Init ==
  \/ part = "log" /\ Log!Init
  \/ part = "log_reused" /\ LogReused!Init
  \/ part = "table_file" /\ TableFile!Init /\ Unused10
  \/ part = "manifest_file" /\ ManifestFile!Init /\ Unused10
  \/ part = "locks" /\ Locks!Init /\ Unused4
  \/ part = "limits" /\ Limits!Init /\ Unused4
  \/ part = "destroy" /\ Destroyed!Init /\ Unused9
  \/ part = "repair" /\ Repaired!Init /\ Unused13
  \/ part = "repair_again" /\ RepairedAgain!Init /\ Unused13

Next ==
  \/ part = "log" /\ Log!Next /\ UNCHANGED part
  \/ part = "log_reused" /\ LogReused!ReuseNext /\ UNCHANGED part
  \/ part = "table_file" /\ TableFile!Next /\ UNCHANGED <<part, after10>>
  \/ part = "manifest_file" /\ ManifestFile!Next /\ UNCHANGED <<part, after10>>
  \/ part = "locks" /\ Locks!Next /\ UNCHANGED <<part, after4>>
  \/ part = "limits" /\ Limits!Next /\ UNCHANGED <<part, after4>>
  \/ part = "destroy" /\ Destroyed!Next /\ UNCHANGED <<part, after9>>
  \/ part = "repair" /\ Repaired!Next /\ UNCHANGED <<part, after13>>
  \/ part = "repair_again" /\ RepairedAgain!Next /\ UNCHANGED <<part, after13>>

Spec == Init /\ [][Next]_vars

-------------------------------------------------------------------------------
\* From whatever offset a log is read, and wherever the writer died, the reader returns
\* the complete records that start there, in order and with the contents that were added,
\* the acknowledged ones among them; a record that was cut off by a crash is taken for
\* the end of the log, not for damage; and a log that was reused after a failed write
\* never yields a record that nobody added.
LogIsRead ==
  /\ part = "log" => Log!RecordsAreReal /\ Log!ReadsFromOffset /\ Log!TornTailIsSilent
  /\ part = "log_reused" => LogReused!RecordsAreReal

\* What was appended and acknowledged is in the buffer or in the file, once and in order,
\* for appends of any size around that of the buffer; what was synced survives a crash of
\* the machine, and a MANIFEST is synced only after the names of the files it mentions.
FileIsKept ==
  /\ part = "table_file" => TableFile!FileIsKept
  /\ part = "manifest_file" => ManifestFile!FileIsKept

\* At most one process and thread holds the lock of a database, whoever dies or fails,
\* and a lock that nobody holds can be taken; threads that open files at once keep to the
\* limits on mappings and descriptors, and give back what they took when they fail.
LocksAndLimitsHold ==
  /\ part = "locks" => Locks!OneHolder /\ Locks!NoStuckLock
  /\ part = "limits" => Limits!WithinLimits /\ Limits!NothingLeaks

\* DestroyDB deletes no file of a database that a process has open.
DestroySparesOpen == [][part = "destroy" => Destroyed!SparesOpen]_vars

\* RepairDB destroys no entry that can be read, in any number of runs that may stop anywhere if
\* nothing fails, and in a first run also if operations fail, unless the archiving does (a later
\* run may replace what an earlier one archived).  The descriptor that it writes names tables
\* that are there, with their entries and with counters above everything they hold (unless a
\* scan could not read it all), and after runs without faults everything readable is in them.
RepairIsRight ==
  /\ part = "repair" => Repaired!NothingDestroyed /\ Repaired!DescriptorIsSound
  /\ part = "repair_again" => RepairedAgain!NothingDestroyed /\ RepairedAgain!DescriptorIsSound /\ RepairedAgain!EverythingReadable

===============================================================================

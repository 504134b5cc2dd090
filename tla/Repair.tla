--------------------------------- MODULE Repair ---------------------------------
(***************************************************************************)
(* RepairDB (db/repair.cc): logs become tables, tables are scanned, and a  *)
(* new descriptor is made of what was found.  It may meet errors, may be   *)
(* stopped between any two changes of the directory, and may be run again. *)
(*                                                                         *)
(* All entries are of one key and are known by their sequence numbers.  An *)
(* entry in a damaged part of a file is not readable, except that a log is *)
(* read without checksums: there, damage may pass for a large sequence     *)
(* number.  A read that fails is another matter: the run takes what it got *)
(* for all there is.                                                       *)
(***************************************************************************)
EXTENDS Integers, Sequences, FiniteSets, FiniteSetsExt, SequencesExt

CONSTANTS
  Tables, Logs,    \* what the directory holds: [file number -> entries]
  Damage,          \* the entries that may be damaged
  MaxFaults,       \* operations of the file system that fail
  MaxRuns          \* how often RepairDB is called

RepairAssumption ==
  /\ DOMAIN Tables \cup DOMAIN Logs \subseteq Nat \ {0} /\ DOMAIN Tables \cap DOMAIN Logs = {}
  /\ MaxFaults \in Nat /\ MaxRuns \in Nat

VARIABLES
  dir,       \* the tables and logs of the database
  lost,      \* the files in dir/lost, no two of one name
  manifest,  \* the descriptor that CURRENT names, as its edit; NoManifest
  pc, logs_, table_numbers_, tables_, next_file_number_,
  max_sequence, \* of the entries that the last scan saw
  out,       \* the number of the table that is being written
  runs,      \* calls of RepairDB so far
  mishap,    \* what went wrong: kinds of operations that failed, and how many did, and "stop" for
             \* a run that stopped when RepairTable had archived its input
  damaged    \* the entries that are damaged

vars == <<dir, lost, manifest, pc, logs_, table_numbers_, tables_, next_file_number_, out,
          max_sequence, runs, mishap, damaged>>
repairer == <<logs_, table_numbers_, tables_, next_file_number_, max_sequence>>

NoManifest == [tables |-> {}, next |-> 0, last |-> 0, current |-> FALSE]

File(num, kind, entries, whole) == [num |-> num, kind |-> kind, entries |-> entries, whole |-> whole]
Named(n) == {f \in dir : f.num = n}
The(n) == CHOOSE f \in dir : f.num = n
Numbers(files) == {f.num : f \in files}
Readable(f) == IF f.whole THEN f.entries \ damaged ELSE {}

\* Damage that passes for an entry
Garbled(e) == 100 + e

Init ==
  /\ damaged \in SUBSET Damage
  /\ dir = {File(n, "table", Tables[n], TRUE) : n \in DOMAIN Tables}
             \cup {File(n, "log", Logs[n], TRUE) : n \in DOMAIN Logs}
  /\ lost = {} /\ manifest = NoManifest
  /\ pc = "idle" /\ logs_ = <<>> /\ table_numbers_ = <<>> /\ tables_ = {} /\ next_file_number_ = 1
  /\ out = 0 /\ max_sequence = 0 /\ runs = 0 /\ mishap = [what |-> {}, faults |-> 0]

Goto(place) == pc' = place
Works == UNCHANGED mishap
Fails(what) ==
  /\ mishap.faults < MaxFaults
  /\ mishap' = [what |-> mishap.what \cup {what}, faults |-> mishap.faults + 1]
Ended == {"idle", "ok", "error"}

\* FindFiles: the files in the order of the directory, which is any
FindFiles ==
  /\ pc \in Ended /\ runs < MaxRuns /\ runs' = runs + 1
  /\ \/ /\ logs_' \in SetToSeqs({f.num : f \in {g \in dir : g.kind = "log"}})
        /\ table_numbers_' \in SetToSeqs({f.num : f \in {g \in dir : g.kind = "table"}})
        /\ next_file_number_' = Max({1} \cup {n + 1 : n \in Numbers(dir)})
        /\ tables_' = {} /\ Goto("logs") /\ Works
        /\ max_sequence' = 0
     \/ Goto("error") /\ Fails("other") /\ UNCHANGED repairer
  /\ UNCHANGED <<dir, lost, manifest, out, damaged>>

\* ArchiveFile, when its rename works: a file of the same name that is in lost is replaced.
\* The numbers of files that were archived are used again by a later run.
SameName(f, g) == f.num = g.num /\ f.kind = g.kind
ArchiveFile(files) ==
  /\ dir' = dir \ files
  /\ lost' = files \cup {f \in lost : \A g \in files : ~SameName(f, g)}

-------------------------------------------------------------------------------
(* ConvertLogFilesToTables *)

\* ConvertLogToTable: read the log, to its end or to where a read fails, and begin the table
ConvertLog ==
  LET log == The(Head(logs_))
      upTo(e) == {f \in log.entries : f <= e} IN
  /\ pc = "logs" /\ logs_ # <<>>
  /\ \/ /\ out' = next_file_number_ /\ next_file_number_' = next_file_number_ + 1
        /\ \E read \in {log.entries} \cup {upTo(e) : e \in {0} \cup log.entries} :
             /\ \E bad \in SUBSET (read \cap damaged) :
                  dir' = dir \cup {File(out', "table",
                                        (Readable(log) \cap read) \cup {Garbled(e) : e \in bad}, FALSE)}
             /\ IF read = log.entries THEN Works ELSE Fails("read")
        /\ Goto("build")
     \/ Goto("archive log") /\ Fails("other") /\ UNCHANGED <<dir, out, next_file_number_>>
  /\ UNCHANGED <<lost, manifest, logs_, table_numbers_, tables_, max_sequence, runs, damaged>>

\* Variant: the new table is not noted.
BuildTableUnlisted ==
  /\ pc = "build" /\ Goto("archive log")
  /\ LET f == The(out) IN dir' = (dir \ {f}) \cup {[f EXCEPT !.whole = TRUE]}
  /\ UNCHANGED <<lost, manifest, repairer, out, runs, mishap, damaged>>

\* BuildTable ends: with a table, with nothing because there are no entries, or with an
\* error.  In the last two cases it deletes the file.
BuildTable ==
  /\ pc = "build" /\ Goto("archive log")
  /\ LET f == The(out) IN
       \/ /\ f.entries # {} /\ Works
          /\ dir' = (dir \ {f}) \cup {[f EXCEPT !.whole = TRUE]}
          /\ table_numbers_' = Append(table_numbers_, out)
       \/ /\ IF f.entries = {} THEN Works ELSE Fails("other")
          /\ dir' = dir \ {f} /\ UNCHANGED table_numbers_
  /\ UNCHANGED <<lost, manifest, logs_, tables_, next_file_number_, max_sequence, out, runs, damaged>>

ArchiveLog ==
  /\ pc = "archive log" /\ Goto("logs") /\ logs_' = Tail(logs_)
  /\ \/ ArchiveFile(Named(Head(logs_))) /\ Works
     \/ Fails("archive") /\ UNCHANGED <<dir, lost>>
  /\ UNCHANGED <<manifest, table_numbers_, tables_, next_file_number_, max_sequence, out, runs, damaged>>

LogsDone ==
  /\ pc = "logs" /\ logs_ = <<>> /\ Goto("tables")
  /\ UNCHANGED <<dir, lost, manifest, repairer, out, runs, mishap, damaged>>

-------------------------------------------------------------------------------
(* ExtractMetaData *)

\* TableInfo of a file of which a scan saw entries up to max
Info(f, max) == [num |-> f.num, entries |-> Readable(f), max_sequence |-> max]
MaxOf(S) == Max({0} \cup S)
Head_ == The(Head(table_numbers_))
NextTable == table_numbers_' = Tail(table_numbers_) /\ max_sequence' = 0 /\ Goto("tables")

\* ScanTable: a table that is not in order, or of which a read fails, is repaired; one that seems
\* not to be there is archived.
ScanTable ==
  /\ pc = "tables" /\ table_numbers_ # <<>>
  /\ \/ /\ Head_.whole /\ Head_.entries \cap damaged = {}
        /\ tables_' = tables_ \cup {Info(Head_, MaxOf(Readable(Head_)))}
        /\ NextTable /\ Works /\ UNCHANGED <<dir, lost>>
     \/ /\ ~Head_.whole \/ Head_.entries \cap damaged # {}
        /\ max_sequence' = MaxOf(Readable(Head_)) /\ Goto("repair") /\ Works
        /\ UNCHANGED <<dir, lost, table_numbers_, tables_>>
     \/ /\ max_sequence' \in {0} \cup Readable(Head_) /\ Goto("repair") /\ Fails("read")
        /\ UNCHANGED <<dir, lost, table_numbers_, tables_>>
     \/ ArchiveFile({Head_}) /\ NextTable /\ Fails("other") /\ UNCHANGED tables_
  /\ UNCHANGED <<manifest, logs_, next_file_number_, out, runs, damaged>>

\* RepairTable, in three parts: the copy is created and filled with what can be read, the source
\* is archived, and the copy is finished and takes the source's name.
BeginCopy ==
  /\ pc = "repair" /\ out' = next_file_number_ /\ next_file_number_' = next_file_number_ + 1
  /\ \/ /\ \E read \in SUBSET Readable(Head_) :
             /\ dir' = dir \cup {File(out', "table", read, FALSE)}
             /\ IF read = Readable(Head_) THEN Works ELSE Fails("read")
        /\ Goto("archive source") /\ UNCHANGED <<table_numbers_, max_sequence>>
     \/ NextTable /\ Fails("other") /\ UNCHANGED dir
  /\ UNCHANGED <<lost, manifest, logs_, tables_, runs, damaged>>

ArchiveSource ==
  /\ pc = "archive source" /\ Goto("finish copy")
  /\ \/ ArchiveFile({Head_}) /\ Works
     \/ Fails("archive") /\ UNCHANGED <<dir, lost>>
  /\ UNCHANGED <<manifest, repairer, out, runs, damaged>>

\* The builder is abandoned if there is nothing to copy; its file stays.  What is noted of the
\* copy is what the scan saw.
FinishCopy ==
  /\ pc = "finish copy" /\ NextTable
  /\ LET copy == The(out)
         number == Head(table_numbers_)
     IN \/ copy.entries = {} /\ Works /\ UNCHANGED <<dir, tables_>>
        \/ /\ copy.entries # {} /\ Works
           /\ LET f == File(number, "table", copy.entries, TRUE) IN
                /\ dir' = (dir \ (Named(number) \cup {copy})) \cup {f}
                /\ tables_' = tables_ \cup {Info(f, max_sequence)}
        \/ Fails("other") /\ dir' = dir \ {copy} /\ UNCHANGED tables_
  /\ UNCHANGED <<lost, manifest, logs_, next_file_number_, out, runs, damaged>>

TablesDone ==
  /\ pc = "tables" /\ table_numbers_ = <<>> /\ Goto("descriptor")
  /\ UNCHANGED <<dir, lost, manifest, repairer, out, runs, mishap, damaged>>

-------------------------------------------------------------------------------
(* WriteDescriptor *)

Edit ==
  [tables |-> tables_, next |-> next_file_number_,
   last |-> Max({0} \cup {t.max_sequence : t \in tables_}), current |-> TRUE]

\* The edit is written to a temporary file.
WriteDescriptor ==
  /\ pc = "descriptor"
  /\ \/ Goto("discard") /\ Works
     \/ Goto("error") /\ Fails("other")
  /\ UNCHANGED <<dir, lost, manifest, repairer, out, runs, damaged>>

\* The old manifests are archived, and CURRENT names none.
DiscardManifests ==
  /\ pc = "discard" /\ Goto("install")
  /\ \/ manifest' = NoManifest /\ Works
     \/ Fails("other") /\ UNCHANGED manifest
  /\ UNCHANGED <<dir, lost, repairer, out, runs, damaged>>

\* The new one is renamed, and named by CURRENT, which may have named a file of its name
\* before.
InstallManifest ==
  /\ pc = "install"
  /\ \/ Goto("ok") /\ manifest' = Edit /\ Works
     \/ Goto("error") /\ Fails("other") /\ manifest' \in {manifest, Edit}
  /\ UNCHANGED <<dir, lost, repairer, out, runs, damaged>>

-------------------------------------------------------------------------------
\* The process is stopped.
Crash ==
  /\ pc \notin Ended /\ Goto("idle")
  /\ mishap' = IF pc = "finish copy" THEN [mishap EXCEPT !.what = @ \cup {"stop"}] ELSE mishap
  /\ UNCHANGED <<dir, lost, manifest, repairer, out, runs, damaged>>

Next ==
  \/ FindFiles \/ ConvertLog \/ BuildTable \/ ArchiveLog \/ LogsDone
  \/ ScanTable \/ BeginCopy \/ ArchiveSource \/ FinishCopy \/ TablesDone
  \/ WriteDescriptor \/ DiscardManifests \/ InstallManifest
  \/ Crash

Spec == Init /\ [][Next]_vars

-------------------------------------------------------------------------------
(* Properties *)

Written == UNION ({Tables[n] : n \in DOMAIN Tables} \cup {Logs[n] : n \in DOMAIN Logs})
Recovered == UNION {t.entries : t \in manifest.tables}

\* Every readable entry stays in the directory, or in a file put away under lost: in any number
\* of runs that may stop anywhere, if no operation fails, and in the first run whatever fails, but
\* for putting a file away.  A later run may replace what an earlier one put away, by a file that
\* got the same number; and a table that could not be put away is replaced by its copy.
NothingDestroyed ==
  mishap.faults = 0 \/ (runs <= 1 /\ "archive" \notin mishap.what) =>
    \A e \in Written \ damaged : \E f \in dir \cup lost : f.whole /\ e \in f.entries

\* A descriptor that Run has installed names complete tables with what they hold, and numbers
\* for files and writes that are not in use.  The number for writes comes from the scans, so a
\* read that fails in one may make it too small.
DescriptorIsSound ==
  pc = "ok" =>
    /\ \A t \in manifest.tables : \E f \in Named(t.num) : f.whole /\ f.entries = t.entries
    /\ \A f \in dir : f.num < manifest.next
    /\ "read" \notin mishap.what => \A e \in Recovered : e <= manifest.last

\* "resurrect as much of the contents of the database as possible": if no operation failed,
\* everything readable is in the database again, also after runs that were stopped.
EverythingReadable == pc = "ok" /\ mishap.what = {} => Written \ damaged \subseteq Recovered

===============================================================================

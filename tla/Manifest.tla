------------------------------- MODULE Manifest -------------------------------
(***************************************************************************)
(* The descriptor of a leveldb database: the MANIFEST file as a log of     *)
(* version edits, the file CURRENT that names it, and the numbers that are *)
(* given to files (db/version_set.cc, db/version_edit.cc, db/db_impl.cc).  *)
(*                                                                         *)
(* An edit is encoded as a sequence of tagged entries.  A record is in a   *)
(* file or it is not (LogFile has the rest), and what happens to the names *)
(* of files is durable.  Tables are numbers; which keys they hold is in    *)
(* Levels.  The comparator is always the same.                             *)
(***************************************************************************)
EXTENDS Integers, Sequences, FiniteSets, FiniteSetsExt, SequencesExt

CONSTANTS
  LastLevel,    \* config::kNumLevels - 1
  Keys,         \* where compactions may stop
  MaxNumber,    \* of a file
  MaxSequence,
  MaxEdits,     \* by the background thread
  MaxStops,
  MaxFaults,
  ReuseLogs     \* values of the option reuse_logs

ManifestAssumption ==
  /\ {LastLevel, MaxNumber, MaxSequence, MaxEdits, MaxStops, MaxFaults} \subseteq Nat
  /\ Keys \subseteq Nat \ {0} /\ ReuseLogs \subseteq BOOLEAN

Levels == 0..LastLevel
Absent == -1

VARIABLES
  current,     \* the manifest that CURRENT names
  manifests,   \* of every MANIFEST file the records, and how many are synced
  logs,        \* the log files
  vs,          \* the VersionSet and logfile_number_ of the process that has the database open
  op,          \* the running call of LogAndApply
  pc,
  installed,   \* what the last LogAndApply that succeeded has made current
  pending,     \* the edits of later ones that have not, but may be in the file
  dropped,     \* the largest log that was deleted
  used         \* of the bounds

disk == <<current, manifests, logs>>
vars == <<current, manifests, logs, vs, op, pc, installed, pending, dropped, used>>

-------------------------------------------------------------------------------
\* VersionEdit
NoEdit == [log |-> Absent, prev |-> Absent, next |-> Absent, seq |-> Absent,
           pointers |-> <<>>, deleted |-> {}, new |-> <<>>]

EncodeTo(e) ==
  LET Number(tag, n) == IF n = Absent THEN <<>> ELSE <<[tag |-> tag, level |-> 0, number |-> n]>>
      List(tag, s) == [i \in DOMAIN s |-> [tag |-> tag, level |-> s[i][1], number |-> s[i][2]]]
      Before(x, y) == x[1] < y[1] \/ (x[1] = y[1] /\ x[2] < y[2])
  IN  Number("kLogNumber", e.log) \o Number("kPrevLogNumber", e.prev)
        \o Number("kNextFileNumber", e.next) \o Number("kLastSequence", e.seq)
        \o List("kCompactPointer", e.pointers) \o List("kDeletedFile", SetToSortSeq(e.deleted, Before))
        \o List("kNewFile", e.new)

Parse(e, entry) ==
  LET pair == <<entry.level, entry.number>>
  IN  CASE entry.tag = "kLogNumber" -> [e EXCEPT !.log = entry.number]
        [] entry.tag = "kPrevLogNumber" -> [e EXCEPT !.prev = entry.number]
        [] entry.tag = "kNextFileNumber" -> [e EXCEPT !.next = entry.number]
        [] entry.tag = "kLastSequence" -> [e EXCEPT !.seq = entry.number]
        [] entry.tag = "kCompactPointer" -> [e EXCEPT !.pointers = Append(@, pair)]
        [] entry.tag = "kDeletedFile" -> [e EXCEPT !.deleted = @ \cup {pair}]
        [] entry.tag = "kNewFile" -> [e EXCEPT !.new = Append(@, pair)]

DecodeFrom(record) == FoldLeft(Parse, NoEdit, record)

-------------------------------------------------------------------------------
\* VersionSet::Builder

NoFiles == [l \in Levels |-> {}]
Builder(pointer) == [deleted |-> NoFiles, added |-> NoFiles, pointer |-> pointer]

SetPointer(pointer, p) == [pointer EXCEPT ![p[1]] = p[2]]

\* A file that is added is not deleted any more, whatever earlier edits said.
Apply(b, e) ==
  LET new == [l \in Levels |-> {f[2] : f \in {g \in Range(e.new) : g[1] = l}}]
  IN  [deleted |-> [l \in Levels |-> (b.deleted[l] \cup {f[2] : f \in {g \in e.deleted : g[1] = l}}) \ new[l]],
       added |-> [l \in Levels |-> b.added[l] \cup new[l]],
       pointer |-> FoldLeft(SetPointer, b.pointer, e.pointers)]

SaveTo(b, base) == [l \in Levels |-> (base[l] \cup b.added[l]) \ b.deleted[l]]

\* WriteSnapshot
Snapshot ==
  [NoEdit EXCEPT !.pointers = SetToSeq({<<l, vs.pointer[l]>> : l \in {m \in Levels : vs.pointer[m] # 0}}),
                 !.new = SetToSeq(UNION {{l} \X vs.version[l] : l \in Levels})]

-------------------------------------------------------------------------------
NoPointers == [l \in Levels |-> 0]
Closed == [version |-> NoFiles, pointer |-> NoPointers, log |-> 0, prev |-> 0, next |-> 0, seq |-> 0,
           manifest |-> Absent, descriptor |-> Absent, logfile |-> Absent, imm |-> FALSE, save |-> FALSE, reuse |-> FALSE]
NoOp == [edit |-> NoEdit, version |-> NoFiles, new |-> FALSE, opening |-> FALSE, deletes |-> FALSE]

Init ==
  /\ current = Absent /\ manifests = <<>> /\ logs = {}
  /\ vs = Closed /\ op = NoOp /\ pc = "closed"
  /\ installed = [version |-> NoFiles, pointer |-> NoPointers, log |-> 0, seq |-> 0, times |-> 0]
  /\ pending = <<>> /\ dropped = Absent
  /\ used = [edits |-> 0, stops |-> 0, faults |-> 0]

Fault == used.faults < MaxFaults /\ used' = [used EXCEPT !.faults = @ + 1]

Put(n, file) == [m \in DOMAIN manifests \cup {n} |-> IF m = n THEN file ELSE manifests[m]]
Without(S) == [m \in DOMAIN manifests \ S |-> manifests[m]]

\* DBImpl::NewDB
NewDB ==
  /\ pc = "closed" /\ current = Absent
  /\ manifests' = Put(1, [records |-> <<EncodeTo([NoEdit EXCEPT !.log = 0, !.next = 2, !.seq = 0])>>, synced |-> 0])
  /\ pc' = "new db"
  /\ UNCHANGED <<current, logs, vs, op, installed, pending, dropped, used>>

NewDBCurrent ==
  /\ pc = "new db" /\ current' = 1 /\ pc' = "closed"
  /\ UNCHANGED <<manifests, logs, vs, op, installed, pending, dropped, used>>

\* The file cannot be written and is deleted, or CURRENT cannot be.
NewDBFails ==
  /\ pc = "new db" /\ Fault /\ pc' = "closed" /\ manifests' \in {manifests, Without({1})}
  /\ UNCHANGED <<current, logs, vs, op, installed, pending, dropped>>

Edits(records) == [i \in DOMAIN records |-> DecodeFrom(records[i])]

\* The last value of a field, over all the edits
LastOf(edits, field) ==
  LET has == {i \in DOMAIN edits : edits[i][field] # Absent}
  IN  IF has = {} THEN Absent ELSE edits[Max(has)][field]

\* There is a manifest, and it has entries for all the numbers.
Readable(n, records) ==
  n \in DOMAIN manifests /\ \A field \in {"next", "log", "seq"} : LastOf(Edits(records), field) # Absent

\* What an edit makes of a version, by itself
After(state, e) ==
  [version |-> [l \in Levels |-> {f \in state.version[l] : <<l, f>> \notin e.deleted} \cup {f[2] : f \in {g \in Range(e.new) : g[1] = l}}],
   pointer |-> FoldLeft(SetPointer, state.pointer, e.pointers), log |-> e.log, seq |-> e.seq]

\* What is recovered is what was installed and some of the edits that follow.
Recovers(edits) ==
  LET s == FoldLeft(After, installed, edits)
  IN  \A field \in {"version", "pointer", "log", "seq"} : vs[field] = s[field]

\* VersionSet::Recover and ReuseManifest; whether the manifest is small enough is left open.
Recover ==
  /\ pc = "closed" /\ current # Absent
  /\ IF ~Readable(current, manifests[current].records) THEN pc' = "corruption" /\ UNCHANGED vs
     ELSE \E reuse \in ReuseLogs, small \in BOOLEAN :
       LET edits == Edits(manifests[current].records)
           b == FoldLeft(Apply, Builder(NoPointers), edits)
           next == LastOf(edits, "next")
       IN  /\ (small => reuse)
           /\ vs' = [version |-> SaveTo(b, NoFiles), pointer |-> b.pointer,
                     log |-> LastOf(edits, "log"), prev |-> Max({0, LastOf(edits, "prev")}),
                     next |-> next + 1, seq |-> LastOf(edits, "seq"),
                     manifest |-> IF small THEN current ELSE next,
                     descriptor |-> IF small THEN current ELSE Absent,
                     logfile |-> Absent, imm |-> FALSE, save |-> ~small, reuse |-> reuse]
           /\ pc' = "recovered"
  /\ UNCHANGED <<current, manifests, logs, op, installed, pending, dropped, used>>

-------------------------------------------------------------------------------
\* LogAndApply up to the first write.  The pointers are in force at once.
LogAndApply(v, edit, before, opening, deletes) ==
  LET e == [edit EXCEPT !.log = IF @ = Absent THEN v.log ELSE @, !.prev = IF @ = Absent THEN v.prev ELSE @,
                        !.next = v.next, !.seq = v.seq]
      b == Apply(Builder(v.pointer), e)
  IN  /\ op' = [edit |-> e, version |-> SaveTo(b, v.version), new |-> v.descriptor = Absent,
                opening |-> opening, deletes |-> deletes]
      /\ vs' = [v EXCEPT !.pointer = b.pointer]
      /\ pc' = IF v.descriptor = Absent THEN "descriptor" ELSE "record"
      /\ pending' = Append(before, e)

\* MarkFileNumberUsed for every number of S
Used(n, S) == Max({n} \cup {m + 1 : m \in S})

\* The logs that have not become tables
Needed == {n \in logs : n >= vs.log \/ n = vs.prev}

\* DeleteObsoleteFiles
KeptManifests(v) == Without({m \in DOMAIN manifests : m < v.manifest})
KeptLogs(v, S) == {n \in S : n >= v.log \/ n = v.prev}

Drop == dropped' = Max({dropped} \cup (logs \ logs'))

\* The rest of DBImpl::Recover and DB::Open: at most one of the logs becomes a table before it
\* and the later ones are marked; the last one is reused, or a new one is made.
OpenLogs ==
  /\ pc = "recovered"
  /\ \E j \in Needed \cup {Absent}, reuse \in BOOLEAN, seq \in vs.seq..MaxSequence :
       LET table == Used(vs.next, {n \in Needed : n < j})
           next == Used(IF j = Absent THEN vs.next ELSE table + 1, Needed)
           logfile == IF reuse THEN Max(Needed) ELSE next
           v == [vs EXCEPT !.next = IF reuse THEN next ELSE next + 1, !.seq = seq, !.logfile = logfile,
                           !.save = @ \/ j # Absent]
           found == CHOOSE p \in Prefixes(pending) : Recovers(p)
           edit == [NoEdit EXCEPT !.log = logfile, !.prev = 0, !.new = IF j = Absent THEN <<>> ELSE <<<<0, table>>>>]
       IN  /\ (reuse => vs.reuse /\ Needed # {} /\ j # Max(Needed)) /\ v.next <= MaxNumber
           /\ IF v.save THEN LogAndApply(v, edit, found, TRUE, TRUE) /\ logs' = logs \cup {logfile} /\ UNCHANGED manifests
              ELSE /\ vs' = v /\ pc' = "open" /\ pending' = found /\ UNCHANGED op
                   /\ manifests' = KeptManifests(v) /\ logs' = KeptLogs(v, logs \cup {logfile})
  /\ Drop /\ UNCHANGED <<current, installed, used>>

\* A new MANIFEST, with a snapshot of the version without the edit
NewDescriptor ==
  /\ pc = "descriptor" /\ pc' = "record"
  /\ manifests' = Put(vs.manifest, [records |-> <<EncodeTo(Snapshot)>>, synced |-> 0])
  /\ vs' = [vs EXCEPT !.descriptor = vs.manifest]
  /\ UNCHANGED <<current, logs, op, installed, pending, dropped, used>>

\* Variant: CURRENT names the new file before it is synced.
AddRecordUnsynced ==
  /\ pc = "record" /\ pc' = IF op.new THEN "current" ELSE "sync"
  /\ manifests' = [manifests EXCEPT ![vs.descriptor].records = Append(@, EncodeTo(op.edit))]
  /\ UNCHANGED <<current, logs, vs, op, installed, pending, dropped, used>>

AddRecord ==
  /\ pc = "record" /\ pc' = "sync"
  /\ manifests' = [manifests EXCEPT ![vs.descriptor].records = Append(@, EncodeTo(op.edit))]
  /\ UNCHANGED <<current, logs, vs, op, installed, pending, dropped, used>>

Sync ==
  /\ pc = "sync" /\ pc' = IF op.new THEN "current" ELSE "install"
  /\ manifests' = [manifests EXCEPT ![vs.descriptor].synced = Len(manifests[vs.descriptor].records)]
  /\ UNCHANGED <<current, logs, vs, op, installed, pending, dropped, used>>

\* SetCurrentFile renames a file that was synced.
SetCurrentFile ==
  /\ pc = "current" /\ pc' = "install" /\ current' = vs.manifest
  /\ UNCHANGED <<manifests, logs, vs, op, installed, pending, dropped, used>>

\* One of these fails.
WriteFails ==
  /\ pc \in {"descriptor", "record", "sync", "current"} /\ Fault /\ pc' = "failed"
  /\ UNCHANGED <<current, manifests, logs, vs, op, installed, pending, dropped>>

\* AppendVersion, and the caller deletes the files that are obsolete.
Install ==
  /\ pc = "install" /\ pc' = "open"
  /\ vs' = [vs EXCEPT !.version = op.version, !.log = op.edit.log, !.prev = op.edit.prev,
                      !.imm = @ /\ op.edit.log = vs.log]
  /\ installed' = [version |-> op.version, pointer |-> vs.pointer, log |-> op.edit.log, seq |-> op.edit.seq,
                   times |-> Min({1, installed.times + 1})]
  /\ pending' = <<>> /\ op' = NoOp
  /\ manifests' = IF op.deletes THEN KeptManifests(vs') ELSE manifests
  /\ logs' = IF op.deletes THEN KeptLogs(vs', logs) ELSE logs
  /\ Drop /\ UNCHANGED <<current, used>>

\* A new MANIFEST is deleted; DB::Open fails, or there is a background error.
Fail ==
  /\ pc = "failed"
  /\ manifests' = IF op.new THEN Without({vs.manifest}) ELSE manifests
  /\ vs' = IF op.opening THEN Closed ELSE vs
  /\ pc' = IF op.opening THEN "closed" ELSE "error"
  /\ op' = NoOp
  /\ UNCHANGED <<current, logs, installed, pending, dropped, used>>

-------------------------------------------------------------------------------
\* The threads of the database

InUse == pc = "open" \/ (pc \in {"record", "sync", "install"} /\ ~op.opening)

\* MakeRoomForWrite begins a new log.
NewLog ==
  /\ InUse /\ ~vs.imm /\ vs.next < MaxNumber
  /\ logs' = logs \cup {vs.next}
  /\ vs' = [vs EXCEPT !.logfile = vs.next, !.next = @ + 1, !.imm = TRUE]
  /\ UNCHANGED <<current, manifests, op, pc, installed, pending, dropped, used>>

Write ==
  /\ InUse /\ vs.seq < MaxSequence /\ vs' = [vs EXCEPT !.seq = @ + 1]
  /\ UNCHANGED <<disk, op, pc, installed, pending, dropped, used>>

Background ==
  /\ pc = "open" /\ used.edits < MaxEdits /\ used' = [used EXCEPT !.edits = @ + 1]
  /\ UNCHANGED <<disk, installed, dropped>>

\* CompactMemTable
Flush ==
  /\ Background /\ vs.imm /\ vs.next < MaxNumber
  /\ \E l \in Levels :
       LogAndApply([vs EXCEPT !.next = @ + 1],
                   [NoEdit EXCEPT !.log = vs.logfile, !.prev = 0, !.new = <<<<l, vs.next>>>>], pending, FALSE, TRUE)

\* InstallCompactionResults, with an output or none
Compact ==
  /\ Background /\ vs.next < MaxNumber
  /\ \E l \in 0..(LastLevel - 1) :
       \E I \in (SUBSET vs.version[l]) \ {{}}, J \in SUBSET vs.version[l + 1], key \in Keys, outputs \in 0..1 :
         LogAndApply([vs EXCEPT !.next = @ + outputs],
                     [NoEdit EXCEPT !.pointers = <<<<l, key>>>>, !.deleted = ({l} \X I) \cup ({l + 1} \X J),
                                    !.new = IF outputs = 0 THEN <<>> ELSE <<<<l + 1, vs.next>>>>], pending, FALSE, TRUE)

\* A trivial move
Move ==
  /\ Background
  /\ \E l \in 0..(LastLevel - 1), key \in Keys :
       \E f \in vs.version[l] :
         LogAndApply(vs, [NoEdit EXCEPT !.pointers = <<<<l, key>>>>, !.deleted = {<<l, f>>}, !.new = <<<<l + 1, f>>>>],
                     pending, FALSE, FALSE)

\* The database is closed, or its process stops.
Stop ==
  /\ pc \notin {"closed", "corruption"} /\ used.stops < MaxStops
  /\ used' = [used EXCEPT !.stops = @ + 1]
  /\ pc' = "closed" /\ vs' = Closed /\ op' = NoOp
  /\ UNCHANGED <<disk, installed, pending, dropped>>

\* The machine stops: of every file a part survives that has all that was synced.
Crash ==
  /\ pc # "corruption" /\ used.stops < MaxStops
  /\ used' = [used EXCEPT !.stops = @ + 1]
  /\ pc' = "closed" /\ vs' = Closed /\ op' = NoOp
  /\ \E left \in [DOMAIN manifests -> 0..Max({0} \cup {Len(f.records) : f \in Range(manifests)})] :
       /\ \A m \in DOMAIN manifests : Len(manifests[m].records) - left[m] >= manifests[m].synced
       /\ manifests' = [m \in DOMAIN manifests |->
            [records |-> SubSeq(manifests[m].records, 1, Len(manifests[m].records) - left[m]),
             synced |-> Len(manifests[m].records) - left[m]]]
  /\ UNCHANGED <<current, logs, installed, pending, dropped>>

Next ==
  \/ NewDB \/ NewDBCurrent \/ NewDBFails \/ Recover \/ OpenLogs
  \/ NewDescriptor \/ AddRecord \/ Sync \/ SetCurrentFile \/ WriteFails \/ Install \/ Fail
  \/ NewLog \/ Write \/ Flush \/ Compact \/ Move \/ Stop \/ Crash

Spec == Init /\ [][Next]_vars

-------------------------------------------------------------------------------
\* Recovery finds what the last LogAndApply that succeeded has installed, or that and edits
\* that were stopped or failed: the files of every level, the compaction pointers, the log
\* number and the last sequence, through new and reused manifests, failures and crashes.
RecoverIsRight ==
  pc = "recovered" => \E found \in Prefixes(pending) : Recovers(found)

\* From the first edit on, CURRENT names a manifest that DB::Open can read, whatever part a
\* crash leaves of it.
InstalledIsReadable ==
  installed.times > 0 /\ current # Absent =>
    /\ current \in DOMAIN manifests
    /\ \A n \in manifests[current].synced..Len(manifests[current].records) :
         Readable(current, SubSeq(manifests[current].records, 1, n))

\* Numbers are not given twice: those of the tables, of the logs that are needed, and of the
\* manifest are below the next one, and a new manifest does not replace the one that CURRENT
\* names.  The asserts on the log number in LogAndApply hold.
NumbersAreFresh ==
  pc \notin {"closed", "new db", "recovered", "corruption"} =>
    /\ \A n \in (UNION Range(vs.version)) \cup Needed \cup {vs.manifest, vs.logfile} : n < vs.next
    /\ pc = "descriptor" => vs.manifest # current
    /\ op # NoOp => op.edit.log \in vs.log..(vs.next - 1)

\* A log is deleted only when its table is durable: whatever part a crash leaves of the manifest,
\* the logs from the number there on have not been deleted.
LogsOutliveManifest ==
  current # Absent =>
    \A n \in manifests[current].synced..Len(manifests[current].records) :
      dropped < LastOf(Edits(SubSeq(manifests[current].records, 1, n)), "log") \/ dropped = Absent
===============================================================================

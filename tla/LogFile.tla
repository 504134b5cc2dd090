-------------------------------- MODULE LogFile --------------------------------
(***************************************************************************)
(* The log files of leveldb (db/log_format.h, db/log_writer.cc,            *)
(* db/log_reader.cc): the write-ahead log and the MANIFEST.                *)
(*                                                                         *)
(* A file is a sequence of bytes.  Of a byte we keep what it was written   *)
(* as: the k-th byte of the header of a physical record, a byte of the     *)
(* payload of a record, or zero.  A checksum is right exactly if all the   *)
(* bytes it covers are in place; bytes that never were a header are taken  *)
(* for one only by the length and the type they happen to spell.           *)
(***************************************************************************)
EXTENDS Integers, Sequences, FiniteSetsExt, SequencesExt

CONSTANTS
  kBlockSize, kHeaderSize,
  Sizes,           \* sizes of the records that are added
  MaxRecords,      \* records added in all
  MaxFailures,     \* appends that fail
  MaxReads,        \* times that the log is read, each followed by a reopening
  InitialOffsets   \* offsets from which the log is read

LogAssumption ==
  /\ kHeaderSize \in Nat \ {0} /\ kBlockSize \in Nat
  /\ kBlockSize > kHeaderSize
  /\ Sizes \subseteq Nat /\ InitialOffsets \subseteq Nat
  /\ MaxRecords \in Nat /\ MaxFailures \in Nat /\ MaxReads \in Nat

VARIABLES
  file,          \* the bytes of the file
  synced,        \* how many of them a crash of the machine cannot take away
  sizes,         \* the records added so far, by their size
  acked,         \* those whose AddRecord returned ok and that no crash may have lost
  durable,       \* those that were synced as well
  failures,      \* how many appends have failed
  zeroed,        \* whether a crash left zeros at the end of the file
  phase,         \* "write", "read" or "done"
  block_offset_, \* Writer::block_offset_
  left,          \* bytes of the record in AddRecord still to emit; -1: none
  begin,         \* whether its first fragment is still to come
  reader,        \* the state of the Reader
  returned,      \* the records that ReadRecord returned
  reports,       \* the drops reported to the Reporter
  reads          \* how often the log has been read

disk == <<file, synced, sizes, acked, durable, failures, zeroed>>
writer == <<block_offset_, left, begin>>
reading == <<reader, returned, reports, reads>>
vars == <<disk, phase, writer, reading>>

HeaderByte(k, type, rec, from, length) ==
  [kind |-> "header", k |-> k, type |-> type, rec |-> rec, from |-> from, length |-> length]
PayloadByte(rec, i) == [kind |-> "payload", rec |-> rec, i |-> i]
Zero == [kind |-> "zero"]
Zeros(n) == [i \in 1..n |-> Zero]

Payload(rec, from, length) == [i \in 1..length |-> PayloadByte(rec, from + i)]
Contents(rec) == Payload(rec, 0, sizes[rec])

\* The header of a physical record: checksum, length, type.
Header(type, rec, from, length) ==
  [k \in 1..kHeaderSize |-> HeaderByte(k, type, rec, from, length)]

NewReader(offset) ==
  [initial_offset |-> offset, pos |-> 0, end_of_buffer |-> 0, eof |-> FALSE,
   resyncing |-> offset > 0, in_fragmented_record |-> FALSE, scratch |-> << >>]

Init ==
  /\ file = << >> /\ synced = 0 /\ sizes = << >> /\ acked = {} /\ durable = {}
  /\ failures = 0 /\ zeroed = FALSE
  /\ phase = "write"
  /\ block_offset_ = 0 /\ left = -1 /\ begin = TRUE
  /\ reader = NewReader(0) /\ returned = << >> /\ reports = {} /\ reads = 0

-------------------------------------------------------------------------------
(* log::Writer *)

Current == Len(sizes)

AddRecord(size) ==
  /\ phase = "write" /\ left = -1
  /\ Len(sizes) < MaxRecords
  /\ sizes' = Append(sizes, size)
  /\ left' = size
  /\ begin' = TRUE
  /\ UNCHANGED <<file, synced, acked, durable, failures, zeroed, phase, block_offset_, reading>>

\* Where in its block the next physical record starts.
RecordStart ==
  IF kBlockSize - block_offset_ < kHeaderSize THEN 0 ELSE block_offset_

\* Variant: the end of a block that is too small for a header is not filled.
NoTrailer == << >>

\* The zeros that fill a block with no room for a header.
Trailer == Zeros(IF RecordStart = block_offset_ THEN 0 ELSE kBlockSize - block_offset_)

FragmentLength == Min({left, kBlockSize - RecordStart - kHeaderSize})

RecordType(length) ==
  CASE begin  /\ left = length -> "full"
    [] begin  /\ left # length -> "first"
    [] ~begin /\ left = length -> "last"
    [] ~begin /\ left # length -> "middle"

\* What one iteration of the loop of AddRecord appends to the file.
Fragment ==
  LET from == sizes[Current] - left IN
  Trailer \o Header(RecordType(FragmentLength), Current, from, FragmentLength)
          \o Payload(Current, from, FragmentLength)

\* EmitPhysicalRecord succeeds; AddRecord returns after the last fragment.
EmitPhysicalRecord ==
  /\ phase = "write" /\ left >= 0
  /\ file' = file \o Fragment
  /\ block_offset_' = RecordStart + kHeaderSize + FragmentLength
  /\ begin' = FALSE
  /\ left' = IF left = FragmentLength THEN -1 ELSE left - FragmentLength
  /\ acked' = IF left = FragmentLength THEN acked \cup {Current} ELSE acked
  /\ UNCHANGED <<synced, sizes, durable, failures, zeroed, phase, reading>>

\* The file takes only a part of what is appended.  AddRecord returns the error,
\* and the writer goes on as if the whole fragment was there.
EmitFails ==
  /\ phase = "write" /\ left >= 0
  /\ failures < MaxFailures
  /\ \E n \in 0..(Len(Fragment) - 1) : file' = file \o SubSeq(Fragment, 1, n)
  /\ block_offset_' = RecordStart + kHeaderSize + FragmentLength
  /\ begin' = FALSE
  /\ left' = -1
  /\ failures' = failures + 1
  /\ UNCHANGED <<synced, sizes, acked, durable, zeroed, phase, reading>>

\* WritableFile::Sync, after AddRecord.
Sync ==
  /\ phase = "write" /\ left = -1
  /\ synced # Len(file)
  /\ synced' = Len(file)
  /\ durable' = acked
  /\ UNCHANGED <<file, sizes, acked, failures, zeroed, phase, writer, reading>>

-------------------------------------------------------------------------------
(* Crashes and reopening *)

StartReading ==
  /\ phase = "write" /\ reads < MaxReads
  /\ phase' = "read"
  /\ left' = -1
  /\ \E offset \in InitialOffsets : reader' = NewReader(offset)
  /\ returned' = << >> /\ reports' = {} /\ reads' = reads + 1
  /\ UNCHANGED <<synced, sizes, durable, failures, block_offset_, begin>>

\* The process ends, in the middle of AddRecord or between two calls.
ProcessStops ==
  /\ StartReading
  /\ UNCHANGED <<file, acked, zeroed>>

\* The machine crashes and the file loses what was not synced: it is shorter, or
\* ends in a region that was allocated but never written.
MachineCrashes ==
  /\ StartReading
  /\ \E n \in synced..(Len(file) - 1) :
       \/ file' = SubSeq(file, 1, n) /\ UNCHANGED zeroed
       \/ file' = SubSeq(file, 1, n) \o Zeros(Len(file) - n) /\ zeroed' = TRUE
  /\ acked' = durable

\* RecoverLogFile with reuse_logs: Writer(dest, dest_length) appends to the log.
Reopen ==
  /\ phase = "done"
  /\ reader.initial_offset = 0
  /\ phase' = "write"
  /\ block_offset_' = Len(file) % kBlockSize
  /\ UNCHANGED <<file, synced, sizes, acked, durable, failures, zeroed, left, begin, reading>>

-------------------------------------------------------------------------------
(* log::Reader *)

BufferSize == reader.end_of_buffer - reader.pos
Buffer == SubSeq(file, reader.pos + 1, reader.end_of_buffer)

\* SkipToInitialBlock: the block in which the record at the initial offset is.
InitialBlock(offset) ==
  LET inBlock == offset % kBlockSize
  IN  offset - inBlock + (IF inBlock > kBlockSize - (kHeaderSize - 1) THEN kBlockSize ELSE 0)

SkipToInitialBlock ==
  /\ phase = "read" /\ reader.pos = 0 /\ reader.end_of_buffer = 0 /\ ~reader.eof
  /\ InitialBlock(reader.initial_offset) > 0
  /\ reader' = [reader EXCEPT !.pos = InitialBlock(reader.initial_offset),
                              !.end_of_buffer = InitialBlock(reader.initial_offset)]
  /\ UNCHANGED <<disk, phase, writer, returned, reports, reads>>

\* ReadPhysicalRecord reads the next block; a short one is the last.
ReadBlock ==
  /\ phase = "read" /\ BufferSize < kHeaderSize /\ ~reader.eof
  /\ reader.end_of_buffer = 0 => InitialBlock(reader.initial_offset) = 0
  /\ LET n == Max({0, Min({kBlockSize, Len(file) - reader.end_of_buffer})}) IN
     reader' = [reader EXCEPT !.pos = reader.end_of_buffer,
                              !.end_of_buffer = @ + n, !.eof = n < kBlockSize]
  /\ UNCHANGED <<disk, phase, writer, returned, reports, reads>>

\* The bytes after pos are the header of a physical record, and its payload.
HeaderIntact ==
  /\ Buffer[1].kind = "header"
  /\ \A k \in 1..kHeaderSize : Buffer[k] = [Buffer[1] EXCEPT !.k = k]
PayloadIntact ==
  SubSeq(Buffer, kHeaderSize + 1, kHeaderSize + Buffer[1].length)
    = Payload(Buffer[1].rec, Buffer[1].from, Buffer[1].length)

\* What ReadPhysicalRecord returns, how much of the buffer it consumes and how many
\* bytes it reports as dropped, if any.
Outcome(type, fragment, consumed, drop) ==
  [type |-> type, fragment |-> fragment, consumed |-> consumed, drop |-> drop]
Eof == Outcome("eof", << >>, BufferSize, {})

\* Variant: the buffer is not cleared.
BadKeepsBuffer(drop) == Outcome("bad", << >>, 0, drop)

Bad(drop) == Outcome("bad", << >>, BufferSize, drop)

\* A physical record whose header is in place.
IntactRecord ==
  LET length == Buffer[1].length IN
  CASE kHeaderSize + length > BufferSize ->
         IF reader.eof THEN Eof ELSE Bad({BufferSize})
    [] kHeaderSize + length <= BufferSize /\ ~PayloadIntact -> Bad({BufferSize})
    [] kHeaderSize + length <= BufferSize /\ PayloadIntact ->
         IF reader.pos < reader.initial_offset
         THEN Outcome("bad", << >>, kHeaderSize + length, {})
         ELSE Outcome(Buffer[1].type, Payload(Buffer[1].rec, Buffer[1].from, length),
                      kHeaderSize + length, {})

\* What bytes that are no header are taken for: they spell zeros, a length that is
\* too large or a wrong checksum.
Garbage ==
  IF \A k \in 1..kHeaderSize : Buffer[k] = Zero
  THEN {Bad({})}
  ELSE {Bad({}), Bad({BufferSize})} \cup (IF reader.eof THEN {Eof} ELSE {})

PhysicalRecords ==
  IF BufferSize < kHeaderSize THEN {Eof}
  ELSE IF HeaderIntact THEN {IntactRecord} ELSE Garbage

\* ReportDrop: only what lies behind the initial offset is reported.
Reported(drops, position) == {d \in drops : position - d >= reader.initial_offset}

\* Resynchronizing after a seek: fragments of a record that began earlier are skipped.
Resyncs(type) == reader.resyncing /\ type \in {"middle", "last"}

\* scratch and in_fragmented_record after a physical record.
Kept(out) ==
  CASE out.type = "first" -> [in |-> TRUE, scratch |-> out.fragment]
    [] out.type \in {"middle", "last"} /\ reader.in_fragmented_record
         -> [in |-> TRUE, scratch |-> reader.scratch \o out.fragment]
    [] OTHER -> [in |-> FALSE, scratch |-> << >>]

\* The record with this contents, under the number it was added as.
Whole(contents) == [rec |-> Buffer[1].rec, contents |-> contents]

\* The record that ReadRecord returns, if any.
Completed(out) ==
  CASE out.type = "full" -> <<Whole(out.fragment)>>
    [] out.type = "last" /\ reader.in_fragmented_record -> <<Whole(reader.scratch \o out.fragment)>>
    [] OTHER -> << >>

\* The bytes that ReadRecord drops.
Dropped(out) ==
  CASE out.type \in {"full", "first"} ->
         IF reader.in_fragmented_record /\ reader.scratch # << >> THEN {Len(reader.scratch)} ELSE {}
    [] out.type \in {"middle", "last"} ->
         IF reader.in_fragmented_record THEN {} ELSE {Len(out.fragment)}
    [] out.type = "bad" ->
         IF reader.in_fragmented_record THEN {Len(reader.scratch)} ELSE {}
    [] OTHER -> {}

\* One iteration of the loop of ReadRecord.  After a record is returned the caller
\* asks for the next one, which starts without a fragment.
ReadRecord(out) ==
  LET position == reader.pos + out.consumed
      skipped == Resyncs(out.type)
      done == skipped \/ Completed(out) # << >> IN
  /\ reader' = [reader EXCEPT
       !.pos = position,
       !.resyncing = skipped /\ out.type = "middle",
       !.in_fragmented_record = ~done /\ Kept(out).in,
       !.scratch = IF done THEN << >> ELSE Kept(out).scratch]
  /\ returned' = IF skipped THEN returned ELSE returned \o Completed(out)
  /\ reports' = reports \cup
       Reported(out.drop \cup (IF skipped THEN {} ELSE Dropped(out)), position)
  /\ phase' = IF out.type = "eof" THEN "done" ELSE phase
  /\ UNCHANGED <<disk, writer, reads>>

ReadPhysicalRecord ==
  /\ phase = "read" /\ (BufferSize >= kHeaderSize \/ reader.eof)
  /\ \E out \in PhysicalRecords : ReadRecord(out)

Read == SkipToInitialBlock \/ ReadBlock \/ ReadPhysicalRecord

Write == (\E size \in Sizes : AddRecord(size)) \/ EmitPhysicalRecord \/ EmitFails \/ Sync

Next == Write \/ ProcessStops \/ MachineCrashes \/ Read

Spec == Init /\ [][Next]_vars /\ WF_vars(Read)

\* The option reuse_logs.
ReuseNext == Next \/ Reopen

-------------------------------------------------------------------------------
Returned == {returned[i].rec : i \in DOMAIN returned}

\* The reader invents nothing: whatever was torn, dropped or appended after, each
\* record that ReadRecord returns is one that was added, complete and never put
\* together from fragments of two, and they come in the order they were added.
RecordsAreReal ==
  \A i \in DOMAIN returned :
    /\ returned[i].contents = Contents(returned[i].rec)
    /\ i > 1 => returned[i - 1].rec < returned[i].rec

\* The offset in the file at which a record starts, if it is there.
Starts(rec) ==
  {i - 1 : i \in {j \in DOMAIN file : file[j].kind = "header" /\ file[j].rec = rec
                                      /\ file[j].k = 1 /\ file[j].type \in {"full", "first"}}}
Complete(rec) ==
  /\ \E j \in DOMAIN file : file[j].kind = "header" /\ file[j].rec = rec /\ file[j].k = kHeaderSize
                            /\ file[j].type \in {"full", "last"}
  /\ \A i \in 1..sizes[rec] : \E j \in DOMAIN file : file[j] = PayloadByte(rec, i)

\* "The Reader will start reading at the first record located at physical position
\* >= initial_offset" (log_reader.h): from a log that was cut off anywhere it
\* returns exactly the records that are complete and begin at the offset or later,
\* so only a tail of the records is missing and all acknowledged ones are there.
ReadsFromOffset ==
  phase = "done" =>
    /\ Returned = {n \in DOMAIN sizes :
                     Complete(n) /\ \E start \in Starts(n) : start >= reader.initial_offset}
    /\ reader.initial_offset = 0 => acked \subseteq Returned /\ Returned = 1..Len(returned)

\* A writer that dies in the middle of a record does not make the log look corrupt:
\* the cut is taken for the end of the log ("don't treat it as a corruption").
TornTailIsSilent == reader.initial_offset = 0 /\ ~zeroed => reports = {}

Reading == phase = "read"

===============================================================================

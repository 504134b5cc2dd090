------------------------------ MODULE WritableFile ------------------------------
(***************************************************************************)
(* PosixWritableFile (util/env_posix.cc): a buffer in front of a file, the *)
(* errors of the system calls, and what is left when the machine stops.    *)
(* Data are numbered units; a unit of a manifest names a table file that   *)
(* was created before it was appended.                                     *)
(***************************************************************************)
EXTENDS Integers, Sequences, SequencesExt, FiniteSetsExt

CONSTANTS
  BufferSize,    \* kWritableFileBufferSize, in units
  MaxAppend,     \* the largest append
  MaxUnits,      \* units appended in all
  is_manifest_

WritableFileAssumption ==
  /\ BufferSize \in Nat \ {0} /\ MaxAppend \in Nat /\ MaxUnits \in Nat
  /\ is_manifest_ \in BOOLEAN

VARIABLES
  fd_,        \* the file is open
  buf_,       \* buf_[0, pos_ - 1]
  file,       \* what the operating system has of the file
  synced,     \* how much of that survives a power failure for certain
  dir,        \* a manifest's directory: the table files in it
  entries,    \* the ones that are there after a power failure for certain
  appended,   \* the number of units appended so far
  accepted,   \* what the file must hold as long as nothing failed
  promised,   \* that, at the last successful Sync
  failed      \* an operation has reported an error since the file was opened

vars == <<fd_, buf_, file, synced, dir, entries, appended, accepted, promised, failed>>

Init ==
  /\ fd_ = FALSE /\ buf_ = <<>> /\ file = <<>> /\ synced = 0 /\ dir = {} /\ entries = {}
  /\ appended = 0 /\ accepted = <<>> /\ promised = <<>> /\ failed = FALSE

\* NewWritableFile truncates the file; NewAppendableFile goes on after what is there, with
\* a manifest only if DBImpl::Recover missed no file that it names.
New(keep) ==
  /\ keep /\ is_manifest_ => Range(file) \subseteq dir
  /\ ~fd_ /\ fd_' = TRUE /\ failed' = FALSE /\ buf_' = <<>>
  /\ IF keep
     THEN accepted' = file /\ UNCHANGED <<file, synced, promised>>
     ELSE accepted' = <<>> /\ file' = <<>> /\ synced' = 0 /\ promised' = <<>>
  /\ UNCHANGED <<dir, entries, appended>>

\* WriteUnbuffered: all of the data, or an error after the first k units.  Interrupted and
\* short writes are repeated.
Written(data, k) == SubSeq(data, 1, k)

FlushBuffer(k) ==
  /\ file' = file \o Written(buf_, k)
  /\ buf_' = <<>>
  /\ failed' = (failed \/ k < Len(buf_))

Append_(n) ==
  LET data == [i \in 1..n |-> appended + i]
      copy == Min({n, BufferSize - Len(buf_)})
      full == buf_ \o SubSeq(data, 1, copy)
      rest == SubSeq(data, copy + 1, n)
  IN /\ fd_ /\ appended + n <= MaxUnits
     /\ appended' = appended + n /\ accepted' = accepted \o data
     /\ \/ /\ rest = <<>>
           /\ buf_' = full /\ UNCHANGED <<file, failed>>
        \/ /\ rest # <<>>       \* FlushBuffer fails
           /\ \E k \in 0..Len(full) - 1 : file' = file \o Written(full, k)
           /\ buf_' = <<>> /\ failed' = TRUE
        \/ /\ rest # <<>> /\ Len(rest) < BufferSize
           /\ file' = file \o full
           /\ buf_' = rest /\ UNCHANGED failed
        \/ /\ Len(rest) >= BufferSize
           /\ \E k \in 0..Len(rest) :
                /\ file' = file \o full \o Written(rest, k)
                /\ failed' = (failed \/ k < Len(rest))
           /\ buf_' = <<>>
     /\ dir' = IF is_manifest_ THEN dir \cup Range(data) ELSE dir
     /\ UNCHANGED <<fd_, synced, entries, promised>>

Flush ==
  /\ fd_ /\ \E k \in 0..Len(buf_) : FlushBuffer(k)
  /\ UNCHANGED <<fd_, synced, dir, entries, appended, accepted, promised>>

\* Close, which the destructor calls if nobody did
Close ==
  /\ fd_ /\ fd_' = FALSE
  /\ \E k \in 0..Len(buf_) : FlushBuffer(k)
  /\ UNCHANGED <<synced, dir, entries, appended, accepted, promised>>

SyncDirIfManifest == entries' = IF is_manifest_ THEN dir ELSE entries

\* Variant: what the buffer holds is not written.
SyncNoFlush ==
  /\ fd_ /\ SyncDirIfManifest
  /\ synced' = Len(file)
  /\ promised' = IF failed THEN promised ELSE accepted
  /\ UNCHANGED <<fd_, buf_, file, dir, appended, accepted, failed>>

Sync ==
  /\ fd_ /\ SyncDirIfManifest
  /\ FlushBuffer(Len(buf_))
  /\ synced' = Len(file')
  /\ promised' = IF failed THEN promised ELSE accepted
  /\ UNCHANGED <<fd_, dir, appended, accepted>>

\* Sync fails at the directory, at the write, or at SyncFd.
SyncFails ==
  /\ fd_
  /\ \/ is_manifest_ /\ failed' = TRUE /\ UNCHANGED <<buf_, file, entries>>
     \/ /\ SyncDirIfManifest
        /\ \E k \in 0..Len(buf_) : file' = file \o Written(buf_, k)
        /\ buf_' = <<>> /\ failed' = TRUE
  /\ UNCHANGED <<fd_, synced, dir, appended, accepted, promised>>

\* The machine stops.  What the file system has not been told to keep may be there or not.
Crash ==
  /\ fd_' = FALSE /\ buf_' = <<>>
  /\ \E n \in synced..Len(file) : file' = SubSeq(file, 1, n) /\ synced' = n
  /\ \E more \in SUBSET dir : entries' = entries \cup more /\ dir' = entries'
  /\ UNCHANGED <<appended, accepted, promised, failed>>

Next ==
  \/ \E keep \in BOOLEAN : New(keep)
  \/ \E n \in 0..MaxAppend : Append_(n)
  \/ Flush \/ Close \/ Sync \/ SyncFails \/ Crash

Spec == Init /\ [][Next]_vars

-------------------------------------------------------------------------------
(* Properties *)

\* Until an operation reports an error, the file and the buffer hold everything that was
\* appended, once and in order.
NoSilentLoss == fd_ /\ ~failed => file \o buf_ = accepted

\* Whatever fails, nothing is written twice and nothing overtakes.
NoDuplicates == \A i, j \in DOMAIN file : i < j => file[i] < file[j]

\* What was there when Sync returned OK is there after any later failure or crash.
SyncIsDurable == IsPrefix(promised, file)

\* What a manifest held when Sync returned OK names only tables whose directory entries
\* survive, too.
SyncedNamesAreDurable == is_manifest_ => Range(promised) \subseteq entries

\* All of that: what was appended and acknowledged is kept, what was synced survives.
FileIsKept == NoSilentLoss /\ NoDuplicates /\ SyncIsDurable /\ SyncedNamesAreDurable

===============================================================================

------------------------------ MODULE ReadOnlyFiles ------------------------------
(***************************************************************************)
(* NewRandomAccessFile and its limiters (util/env_posix.cc): a table file  *)
(* is mapped into memory, or keeps its descriptor, or is opened for every  *)
(* read.  A step is one access to a shared counter, or one system call.    *)
(***************************************************************************)
EXTENDS Integers, FiniteSets

CONSTANTS
  Threads,        \* each has one file at a time
  MaxMmaps,       \* g_mmap_limit
  MaxOpenFiles    \* MaxOpenFiles(): a share of the process's descriptors

ReadOnlyFilesAssumption == MaxMmaps \in Nat /\ MaxOpenFiles \in Nat

Limiters == {"mmap", "fd"}
Limit    == [mmap |-> MaxMmaps, fd |-> MaxOpenFiles]

\* Where a thread is before, in and after Acquire
Trying  == [mmap |-> "trying mmap", fd |-> "trying fd"]
Allowed == [mmap |-> "mapping", fd |-> "pinned"]
Refused == [mmap |-> "refused mmap", fd |-> "refused fd"]
Instead == [mmap |-> "trying fd", fd |-> "dropping"]

VARIABLES
  acquires_allowed_,   \* [limiter -> its counter]
  pc,                  \* [thread -> where it is]
  fds,                 \* the threads whose file has a descriptor open
  maps                 \* the threads whose file is mapped

vars == <<acquires_allowed_, pc, fds, maps>>

Init ==
  /\ acquires_allowed_ = Limit
  /\ pc = [t \in Threads |-> "none"]
  /\ fds = {} /\ maps = {}

Move(t, from, to) == pc[t] = from /\ pc' = [pc EXCEPT ![t] = to]
FetchAdd(l, n) == acquires_allowed_' = [acquires_allowed_ EXCEPT ![l] = @ + n]
OpenFd(t)  == fds' = fds \cup {t} /\ UNCHANGED <<acquires_allowed_, maps>>
CloseFd(t) == fds' = fds \ {t} /\ UNCHANGED <<acquires_allowed_, maps>>

\* An open that fails changes nothing, here and in Read.
Open(t) == Move(t, "none", Trying.mmap) /\ OpenFd(t)

\* Limiter::Acquire, and its second half when it returns false
Acquire(t, l) ==
  /\ Move(t, Trying[l], IF acquires_allowed_[l] > 0 THEN Allowed[l] ELSE Refused[l])
  /\ FetchAdd(l, -1)
  /\ UNCHANGED <<fds, maps>>

AcquireFails(t, l) == Move(t, Refused[l], Instead[l]) /\ FetchAdd(l, 1) /\ UNCHANGED <<fds, maps>>

\* The constructor of PosixRandomAccessFile without a permanent descriptor
Drop(t) == Move(t, "dropping", "unpinned") /\ CloseFd(t)

\* GetFileSize and mmap, either of which may fail; the descriptor is closed after them.
Map(t) ==
  \/ Move(t, "mapping", "mapped, open") /\ maps' = maps \cup {t} /\ UNCHANGED <<acquires_allowed_, fds>>
  \/ Move(t, "mapping", "not mapped") /\ UNCHANGED <<acquires_allowed_, fds, maps>>
MapDone(t)   == Move(t, "mapped, open", "mapped") /\ CloseFd(t)
MapFailed(t) == Move(t, "not mapped", "releasing mmap") /\ CloseFd(t)

\* Read of a file that has no permanent descriptor: open, pread, close
ReadOpen(t)  == Move(t, "unpinned", "reading") /\ OpenFd(t)
ReadClose(t) == Move(t, "reading", "unpinned") /\ CloseFd(t)

\* The destructors
Unmap(t) ==
  Move(t, "mapped", "releasing mmap") /\ maps' = maps \ {t} /\ UNCHANGED <<acquires_allowed_, fds>>
Unpin(t)  == Move(t, "pinned", "releasing fd") /\ CloseFd(t)
Delete(t) == Move(t, "unpinned", "none") /\ UNCHANGED <<acquires_allowed_, fds, maps>>

\* Limiter::Release
Release(t) ==
  /\ \/ Move(t, "releasing mmap", "none") /\ FetchAdd("mmap", 1)
     \/ Move(t, "releasing fd", "none") /\ FetchAdd("fd", 1)
  /\ UNCHANGED <<fds, maps>>

Next ==
  \E t \in Threads :
    \/ Open(t) \/ Drop(t) \/ Map(t) \/ MapDone(t) \/ MapFailed(t) \/ ReadOpen(t) \/ ReadClose(t)
    \/ Unmap(t) \/ Unpin(t) \/ Delete(t) \/ Release(t)
    \/ \E l \in Limiters : Acquire(t, l) \/ AcquireFails(t, l)

Spec == Init /\ [][Next]_vars

-------------------------------------------------------------------------------
(* Properties *)

At(place) == {t \in Threads : pc[t] = place}

\* What the limiters have given away
Held(l) ==
  IF l = "mmap" THEN At("mapping") \cup At("mapped, open") \cup At("not mapped") \cup At("mapped") \cup At("releasing mmap")
  ELSE At("pinned") \cup At("releasing fd")

\* "so that we do not run out of file descriptors or virtual memory": no more files are
\* mapped, and no more files keep their descriptor, than the limits say.
WithinLimits ==
  /\ Cardinality(maps) <= MaxMmaps
  /\ Cardinality(fds \cap At("pinned")) <= MaxOpenFiles

\* Once every thread has its file, or none, the counters say how many more may be opened,
\* and only mappings and permanent descriptors are left, whatever failed on the way.
NothingLeaks ==
  UNION {At(s) : s \in {"none", "mapped", "pinned", "unpinned"}} = Threads
    => /\ \A l \in Limiters : acquires_allowed_[l] = Limit[l] - Cardinality(Held(l))
       /\ fds = At("pinned") /\ maps = At("mapped")

===============================================================================

-------------------------------- MODULE EnvProofs --------------------------------
(***************************************************************************)
(* util/env_posix.cc for processes, threads, buffers and limits of any     *)
(* number: the locks on a database, the limits on open files, what a file  *)
(* that is written holds, and the work of the background thread; and       *)
(* DestroyDB, which relies on the locks.                                   *)
(***************************************************************************)
EXTENDS Integers, Sequences, FiniteSets, FiniteSetTheorems, SequenceTheorems, TLAPS

CONSTANTS Processes, Lockers
CONSTANTS Threads, MaxMmaps, MaxOpenFiles
CONSTANTS BufferSize, MaxAppend, MaxUnits, is_manifest_
CONSTANTS MaxItems
CONSTANTS FileNames, MaxInodes, MaxDestroys
VARIABLES owner, locks_, lock_pc, unlock_failed
VARIABLES acquires_allowed_, file_pc, fds, maps
VARIABLES fd_, buf_, file, synced, dir, entries, appended, accepted, promised, failed
VARIABLES started_background_thread_, background_work_queue_, thread, current, scheduled, done
VARIABLES lockname, inodes, lock_owner, files, proc_pc, lock_fd, listed, result, destroys

Locks == INSTANCE FileLocks WITH Threads <- Lockers, pc <- lock_pc, failed <- unlock_failed
Limits == INSTANCE ReadOnlyFiles WITH pc <- file_pc
File == INSTANCE WritableFile
Background == INSTANCE EnvSchedule
Tool == INSTANCE Destroy WITH Names <- FileNames, owner <- lock_owner, pc <- proc_pc, fd <- lock_fd

-------------------------------------------------------------------------------
(* Locks *)

Places == {"idle", "opened", "inserted", "holding", "refused", "unlocked", "closing"}

\* Where a thread is responsible for its process's entry in the lock table
Entered == {"inserted", "holding", "refused", "unlocked"}

\* The lock table lets one thread of a process at most through.
TableInv ==
  /\ lock_pc \in [Processes -> [Lockers -> Places]]
  /\ \A p \in Processes, t \in Lockers : lock_pc[p][t] \in Entered => p \in locks_
  /\ \A p \in Processes, t, u \in Lockers :
       lock_pc[p][t] \in Entered /\ lock_pc[p][u] \in Entered => t = u

\* In a process with one thread the lock and the entry are there for that thread.
OwnerInv ==
  /\ \A p, q \in Processes : p \in owner /\ q \in owner => p = q
  /\ \A p \in Processes, t \in Lockers :
       /\ lock_pc[p][t] = "holding" => p \in owner
       /\ p \in owner \ unlock_failed => lock_pc[p][t] = "holding"
       /\ p \in locks_ \ unlock_failed => lock_pc[p][t] \in Entered

\* How a thread moves on
LEMMA Goes ==
  ASSUME TableInv, NEW p \in Processes, NEW t \in Lockers, NEW place \in Places,
         Locks!Goto(p, t, place)
  PROVE  /\ lock_pc' \in [Processes -> [Lockers -> Places]]
         /\ lock_pc'[p][t] = place
         /\ \A q \in Processes, u \in Lockers :
              ~(q = p /\ u = t) => lock_pc'[q][u] = lock_pc[q][u]
  BY DEF TableInv, Locks!Goto

\* What the steps of a thread do to the table
LEMMA ThreadKeepsTable ==
  ASSUME TableInv, NEW p \in Processes, NEW t \in Lockers,
         \/ Locks!Open(p, t) \/ Locks!Insert(p, t) \/ Locks!Lock(p, t) \/ Locks!Refused(p, t)
         \/ Locks!Unlock(p, t) \/ Locks!UnlockFails(p, t) \/ Locks!Remove(p, t)
         \/ Locks!Close(p, t)
  PROVE  TableInv'
<1>1. PICK place \in Places : Locks!Goto(p, t, place)
  BY DEF Places, Locks!Open, Locks!Insert, Locks!Lock, Locks!Refused, Locks!Unlock,
         Locks!UnlockFails, Locks!Remove, Locks!Close
<1>2. /\ lock_pc' \in [Processes -> [Lockers -> Places]]
      /\ lock_pc'[p][t] = place
      /\ \A q \in Processes, u \in Lockers :
           ~(q = p /\ u = t) => lock_pc'[q][u] = lock_pc[q][u]
  BY <1>1, Goes
<1>3. CASE Locks!Open(p, t)
  <2>1. lock_pc'[p][t] \notin Entered /\ locks_' = locks_
    BY <1>3, Goes DEF Locks!Open, Places, Entered
  <2>. QED  BY <1>2, <2>1 DEF TableInv
<1>4. CASE Locks!Insert(p, t) /\ p \in locks_
  <2>1. lock_pc'[p][t] \notin Entered /\ locks_' = locks_
    BY <1>4, Goes DEF Locks!Insert, Places, Entered
  <2>. QED  BY <1>2, <2>1 DEF TableInv
<1>5. CASE Locks!Insert(p, t) /\ p \notin locks_
  <2>1. lock_pc'[p][t] = "inserted" /\ locks_' = locks_ \cup {p}
    BY <1>5, Goes DEF Locks!Insert, Places
  <2>. QED  BY <1>2, <1>5, <2>1 DEF TableInv, Entered
<1>6. CASE Locks!Lock(p, t) \/ Locks!Unlock(p, t)
  <2>1. lock_pc[p][t] \in Entered /\ lock_pc'[p][t] \in Entered /\ locks_' = locks_
    BY <1>6, Goes DEF Locks!Lock, Locks!Unlock, Places, Entered
  <2>. QED  BY <1>2, <2>1 DEF TableInv
<1>7. CASE Locks!Refused(p, t) \/ Locks!Remove(p, t)
  <2>1. lock_pc[p][t] \in Entered /\ lock_pc'[p][t] \notin Entered /\ locks_' = locks_ \ {p}
    BY <1>7, Goes DEF Locks!Refused, Locks!Remove, Places, Entered
  <2>. QED  BY <1>2, <2>1 DEF TableInv
<1>8. CASE Locks!UnlockFails(p, t) \/ Locks!Close(p, t)
  <2>1. lock_pc'[p][t] \notin Entered /\ locks_' = locks_
    BY <1>8, Goes DEF Locks!UnlockFails, Locks!Close, Places, Entered
  <2>. QED  BY <1>2, <2>1 DEF TableInv
<1>. QED  BY <1>3, <1>4, <1>5, <1>6, <1>7, <1>8

LEMMA CrashKeepsTable ==
  ASSUME TableInv, NEW p \in Processes, Locks!Crash(p)
  PROVE  TableInv'
<1>1. /\ lock_pc' \in [Processes -> [Lockers -> Places]]
      /\ \A t \in Lockers : lock_pc'[p][t] = "idle"
      /\ \A q \in Processes \ {p} : lock_pc'[q] = lock_pc[q]
      /\ locks_' = locks_ \ {p}
  BY DEF Locks!Crash, TableInv, Places
<1>. QED  BY <1>1 DEF TableInv, Entered

LEMMA NextKeepsTable == TableInv /\ [Locks!Next]_(Locks!vars) => TableInv'
<1>. SUFFICES ASSUME TableInv, [Locks!Next]_(Locks!vars) PROVE TableInv'
  OBVIOUS
<1>1. CASE UNCHANGED Locks!vars
  BY <1>1 DEF Locks!vars, TableInv
<1>2. CASE Locks!Next
  BY <1>2, ThreadKeepsTable, CrashKeepsTable DEF Locks!Next
<1>. QED  BY <1>1, <1>2

-------------------------------------------------------------------------------
\* A process with one thread
LEMMA ThreadKeepsOwner ==
  ASSUME TableInv, OwnerInv, NEW t, Lockers = {t}, NEW p \in Processes,
         \/ Locks!Open(p, t) \/ Locks!Insert(p, t) \/ Locks!Lock(p, t) \/ Locks!Refused(p, t)
         \/ Locks!Unlock(p, t) \/ Locks!UnlockFails(p, t) \/ Locks!Remove(p, t)
         \/ Locks!Close(p, t)
  PROVE  OwnerInv'
<1>. t \in Lockers
  OBVIOUS
<1>1. PICK place \in Places : Locks!Goto(p, t, place)
  BY DEF Places, Locks!Open, Locks!Insert, Locks!Lock, Locks!Refused, Locks!Unlock,
         Locks!UnlockFails, Locks!Remove, Locks!Close
<1>2. \A q \in Processes : q # p => lock_pc'[q][t] = lock_pc[q][t]
  BY <1>1, Goes
<1>3. SUFFICES
        /\ \A q, r \in Processes : q \in owner' /\ r \in owner' => q = r
        /\ \A q \in Processes :
             /\ lock_pc'[q][t] = "holding" => q \in owner'
             /\ q \in owner' \ unlock_failed' => lock_pc'[q][t] = "holding"
             /\ q \in locks_' \ unlock_failed' => lock_pc'[q][t] \in Entered
  BY DEF OwnerInv
<1>4. CASE Locks!Open(p, t)
  <2>1. /\ lock_pc'[p][t] = "opened" /\ lock_pc[p][t] = "idle"
        /\ UNCHANGED <<owner, locks_, unlock_failed>>
    BY <1>4, Goes DEF Locks!Open, Places
  <2>. QED  BY <1>2, <2>1 DEF OwnerInv, Entered
<1>5. CASE Locks!Insert(p, t) /\ p \in locks_
  <2>1. /\ lock_pc'[p][t] = "idle" /\ lock_pc[p][t] = "opened" /\ owner' = owner \ {p}
        /\ UNCHANGED <<locks_, unlock_failed>>
    BY <1>5, Goes DEF Locks!Insert, Locks!CloseFd, Places
  <2>. QED  BY <1>2, <2>1 DEF OwnerInv, Entered
<1>6. CASE Locks!Insert(p, t) /\ p \notin locks_
  <2>1. /\ lock_pc'[p][t] = "inserted" /\ lock_pc[p][t] = "opened" /\ locks_' = locks_ \cup {p}
        /\ UNCHANGED <<owner, unlock_failed>>
    BY <1>6, Goes DEF Locks!Insert, Places
  <2>. QED  BY <1>2, <2>1 DEF OwnerInv, Entered
<1>7. CASE Locks!Lock(p, t) /\ owner \subseteq {p}
  <2>1. /\ lock_pc'[p][t] = "holding" /\ lock_pc[p][t] = "inserted" /\ owner' = {p}
        /\ UNCHANGED <<locks_, unlock_failed>>
    BY <1>7, Goes DEF Locks!Lock, Places
  <2>2. \A q \in Processes : q # p => lock_pc[q][t] # "holding"
    BY <1>7 DEF OwnerInv
  <2>. QED  BY <1>2, <2>1, <2>2 DEF OwnerInv, Entered
<1>8. CASE Locks!Lock(p, t) /\ ~(owner \subseteq {p})
  <2>1. /\ lock_pc'[p][t] = "refused" /\ lock_pc[p][t] = "inserted" /\ owner' = owner \ {p}
        /\ UNCHANGED <<locks_, unlock_failed>>
    BY <1>8, Goes DEF Locks!Lock, Locks!CloseFd, Places
  <2>. QED  BY <1>2, <2>1 DEF OwnerInv, Entered
<1>9. CASE Locks!Refused(p, t)
  <2>1. /\ lock_pc'[p][t] = "idle" /\ lock_pc[p][t] = "refused" /\ locks_' = locks_ \ {p}
        /\ UNCHANGED <<owner, unlock_failed>>
    BY <1>9, Goes DEF Locks!Refused, Places
  <2>. QED  BY <1>2, <2>1 DEF OwnerInv, Entered
<1>10. CASE Locks!Unlock(p, t)
  <2>1. /\ lock_pc'[p][t] = "unlocked" /\ lock_pc[p][t] = "holding" /\ owner' = owner \ {p}
        /\ UNCHANGED <<locks_, unlock_failed>>
    BY <1>10, Goes DEF Locks!Unlock, Places
  <2>. QED  BY <1>2, <2>1 DEF OwnerInv, Entered
<1>11. CASE Locks!UnlockFails(p, t)
  <2>1. /\ lock_pc'[p][t] = "idle" /\ unlock_failed' = unlock_failed \cup {p}
        /\ UNCHANGED <<owner, locks_>>
    BY <1>11, Goes DEF Locks!UnlockFails, Places
  <2>. QED  BY <1>2, <2>1 DEF OwnerInv, Entered
<1>12. CASE Locks!Remove(p, t)
  <2>1. /\ lock_pc'[p][t] = "closing" /\ lock_pc[p][t] = "unlocked" /\ locks_' = locks_ \ {p}
        /\ UNCHANGED <<owner, unlock_failed>>
    BY <1>12, Goes DEF Locks!Remove, Places
  <2>. QED  BY <1>2, <2>1 DEF OwnerInv, Entered
<1>13. CASE Locks!Close(p, t)
  <2>1. /\ lock_pc'[p][t] = "idle" /\ lock_pc[p][t] = "closing" /\ owner' = owner \ {p}
        /\ UNCHANGED <<locks_, unlock_failed>>
    BY <1>13, Goes DEF Locks!Close, Locks!CloseFd, Places
  <2>. QED  BY <1>2, <2>1 DEF OwnerInv, Entered
<1>. QED  BY <1>4, <1>5, <1>6, <1>7, <1>8, <1>9, <1>10, <1>11, <1>12, <1>13

LEMMA NextKeepsOwner ==
  ASSUME TableInv, OwnerInv, NEW t, Lockers = {t}, [Locks!Next]_(Locks!vars)
  PROVE  OwnerInv'
<1>1. CASE UNCHANGED Locks!vars
  BY <1>1 DEF Locks!vars, OwnerInv
<1>2. ASSUME NEW p \in Processes, Locks!Crash(p) PROVE OwnerInv'
  <2>1. /\ lock_pc'[p][t] = "idle"
        /\ \A q \in Processes \ {p} : lock_pc'[q] = lock_pc[q]
        /\ locks_' = locks_ \ {p} /\ owner' = owner \ {p}
        /\ unlock_failed' = unlock_failed \ {p}
    BY <1>2 DEF Locks!Crash, TableInv
  <2>. QED  BY <2>1 DEF OwnerInv, Entered
<1>. QED  BY <1>1, <1>2, ThreadKeepsOwner DEF Locks!Next

\* The modules count like this one.
LEMMA SameCount ==
  \A S : Locks!Cardinality(S) = Cardinality(S) /\ Limits!Cardinality(S) = Cardinality(S)
  BY DEF Locks!Cardinality, Limits!Cardinality, Cardinality

LEMMA OwnerMeansOneHolder ==
  ASSUME TableInv, OwnerInv, NEW t, Lockers = {t}
  PROVE  Locks!OneHolder /\ Locks!NoStuckLock
<1>1. \A h, g \in Locks!Holders : h = g
  BY DEF Locks!Holders, OwnerInv
<1>2. Cardinality(Locks!Holders) <= 1
  <2>1. CASE Locks!Holders = {}
    BY <2>1, FS_EmptySet
  <2>2. CASE Locks!Holders # {}
    <3>1. PICK h : h \in Locks!Holders
      BY <2>2
    <3>2. Locks!Holders = {h}
      BY <1>1, <3>1
    <3>3. Cardinality({h}) = 1
      BY FS_Singleton
    <3>. QED  BY <3>2, <3>3
  <2>. QED  BY <2>1, <2>2
<1>3. Locks!NoStuckLock
  BY DEF Locks!NoStuckLock, OwnerInv, Entered
<1>. QED  BY <1>2, <1>3, SameCount DEF Locks!OneHolder

\* Of the threads of a process at most one holds the database.
OneHolderPerProcess ==
  \A p \in Processes, t, u \in Lockers :
    lock_pc[p][t] = "holding" /\ lock_pc[p][u] = "holding" => t = u

\* However many threads a process has, its lock table lets one of them at most hold the
\* database (PosixLockTable::Insert in LockFile).
THEOREM OneThreadPerProcess == Locks!Spec => []OneHolderPerProcess
<1>1. Locks!Init => TableInv
  BY DEF Locks!Init, TableInv, Places, Entered
<1>2. TableInv => OneHolderPerProcess
  BY DEF TableInv, OneHolderPerProcess, Entered
<1>. QED  BY <1>1, <1>2, NextKeepsTable, PTL DEF Locks!Spec

\* Between processes of one thread each, at most one has the database open, whoever dies
\* and whatever unlock fails, and a process that does nothing with it keeps it from nobody
\* (LockFile and UnlockFile).
THEOREM OneProcessHolds ==
  ASSUME NEW t, Lockers = {t}
  PROVE  Locks!Spec => [](Locks!OneHolder /\ Locks!NoStuckLock)
<1>1. Locks!Init => TableInv /\ OwnerInv
  BY DEF Locks!Init, TableInv, OwnerInv, Places, Entered
<1>2. TableInv /\ OwnerInv /\ [Locks!Next]_(Locks!vars) => TableInv' /\ OwnerInv'
  BY NextKeepsTable, NextKeepsOwner
<1>3. TableInv /\ OwnerInv => Locks!OneHolder /\ Locks!NoStuckLock
  BY OwnerMeansOneHolder
<1>. QED  BY <1>1, <1>2, <1>3, PTL DEF Locks!Spec

-------------------------------------------------------------------------------
(* Limits *)

\* The threads in one of some places
In(places) == {t \in Threads : file_pc[t] \in places}

HeldPlaces(l) ==
  IF l = "mmap" THEN {"mapping", "mapped, open", "not mapped", "mapped", "releasing mmap"}
  ELSE {"pinned", "releasing fd"}
RefusedPlace(l) == IF l = "mmap" THEN "refused mmap" ELSE "refused fd"

UsedPlaces(l) == HeldPlaces(l) \cup {RefusedPlace(l)}

\* The ones that have decremented a limiter's counter and not incremented it again
Using(l) == In(UsedPlaces(l))

FilePlaces ==
  {"none", "trying mmap", "trying fd", "mapping", "pinned", "refused mmap", "refused fd",
   "dropping", "unpinned", "mapped, open", "not mapped", "mapped", "releasing mmap",
   "reading", "releasing fd"}
WithFd ==
  {"trying mmap", "trying fd", "mapping", "pinned", "refused mmap", "refused fd", "dropping",
   "mapped, open", "not mapped", "reading"}

\* A counter says how many threads use it; it lets no more through than the limit says.
LimitInv ==
  /\ file_pc \in [Threads -> FilePlaces]
  /\ acquires_allowed_ \in [Limits!Limiters -> Int]
  /\ \A l \in Limits!Limiters :
       /\ acquires_allowed_[l] = Limits!Limit[l] - Cardinality(Using(l))
       /\ Cardinality(In(HeldPlaces(l))) <= Limits!Limit[l]
  /\ fds = In(WithFd) /\ maps = In({"mapped, open", "mapped"})

\* What one thread's move does to the threads in some places
Moves(t, from, to) ==
  \A places :
    /\ t \in In(places) <=> from \in places
    /\ In(places)' = IF to \in places THEN In(places) \cup {t} ELSE In(places) \ {t}

LEMMA InAfterMove ==
  ASSUME file_pc \in [Threads -> FilePlaces], NEW t \in Threads, NEW from, NEW to,
         Limits!Move(t, from, to)
  PROVE  Moves(t, from, to)
<1>1. file_pc[t] = from /\ file_pc' = [file_pc EXCEPT ![t] = to]
  BY DEF Limits!Move
<1>2. \A u \in Threads : file_pc'[u] = IF u = t THEN to ELSE file_pc[u]
  BY <1>1
<1>3. ASSUME NEW places
      PROVE  /\ t \in In(places) <=> from \in places
             /\ In(places)' = IF to \in places THEN In(places) \cup {t} ELSE In(places) \ {t}
  BY <1>1, <1>2 DEF In
<1>. QED  BY <1>3 DEF Moves

LEMMA InIsFinite ==
  ASSUME IsFiniteSet(Threads), NEW places
  PROVE  IsFiniteSet(In(places)) /\ Cardinality(In(places)) \in Nat
<1>1. In(places) \subseteq Threads
  BY DEF In
<1>. QED  BY <1>1, FS_Subset, FS_CardinalityType

\* A thread moves without a counter: it stays among the users of each limiter, or outside.
Quiet(t, from, to) ==
  /\ Limits!Move(t, from, to) /\ UNCHANGED acquires_allowed_
  /\ \A l \in Limits!Limiters :
       /\ from \in HeldPlaces(l) <=> to \in HeldPlaces(l)
       /\ from = RefusedPlace(l) <=> to = RefusedPlace(l)
  /\ fds' = IF from \in WithFd <=> to \in WithFd THEN fds
            ELSE IF to \in WithFd THEN fds \cup {t} ELSE fds \ {t}
  /\ maps' = IF from \in {"mapped, open", "mapped"} <=> to \in {"mapped, open", "mapped"} THEN maps
             ELSE IF to \in {"mapped, open", "mapped"} THEN maps \cup {t} ELSE maps \ {t}

LEMMA QuietMove ==
  ASSUME IsFiniteSet(Threads), LimitInv, NEW t \in Threads, NEW from, NEW to \in FilePlaces,
         Quiet(t, from, to)
  PROVE  LimitInv'
<1>0. /\ file_pc \in [Threads -> FilePlaces] /\ Limits!Move(t, from, to)
      /\ Moves(t, from, to)
  BY InAfterMove DEF LimitInv, Quiet
<1>1. file_pc' \in [Threads -> FilePlaces]
  BY <1>0 DEF Limits!Move
<1>2. \A l \in Limits!Limiters : In(HeldPlaces(l))' = In(HeldPlaces(l)) /\ Using(l)' = Using(l)
  <2>1. TAKE l \in Limits!Limiters
  <2>2. PICK held, used : held = HeldPlaces(l) /\ used = UsedPlaces(l)
    OBVIOUS
  <2>3. (from \in held <=> to \in held) /\ (from \in used <=> to \in used)
    BY <2>1, <2>2 DEF UsedPlaces, Quiet
  <2>4. In(held)' = In(held)
    <3>1. /\ t \in In(held) <=> from \in held
          /\ In(held)' = IF to \in held THEN In(held) \cup {t} ELSE In(held) \ {t}
      BY <1>0 DEF Moves
    <3>. QED  BY <2>3, <3>1
  <2>5. In(used)' = In(used)
    <3>1. /\ t \in In(used) <=> from \in used
          /\ In(used)' = IF to \in used THEN In(used) \cup {t} ELSE In(used) \ {t}
      BY <1>0 DEF Moves
    <3>. QED  BY <2>3, <3>1
  <2>. QED  BY <2>2, <2>4, <2>5 DEF Using
<1>3. fds' = In(WithFd)' /\ maps' = In({"mapped, open", "mapped"})'
  <2>1. PICK open, mapped : open = WithFd /\ mapped = {"mapped, open", "mapped"}
    OBVIOUS
  <2>2. /\ t \in In(open) <=> from \in open
        /\ In(open)' = IF to \in open THEN In(open) \cup {t} ELSE In(open) \ {t}
    BY <1>0 DEF Moves
  <2>4. /\ t \in In(mapped) <=> from \in mapped
        /\ In(mapped)' = IF to \in mapped THEN In(mapped) \cup {t} ELSE In(mapped) \ {t}
    BY <1>0 DEF Moves
  <2>3. fds' = In(open)' /\ maps' = In(mapped)'
    BY <2>1, <2>2, <2>4 DEF LimitInv, Quiet
  <2>. QED  BY <2>1, <2>3
<1>. QED  BY <1>1, <1>2, <1>3 DEF LimitInv, Quiet

\* A thread moves, and changes a limiter's counter, but not its files.
Counts(t, from, to, l, n) ==
  /\ Limits!Move(t, from, to) /\ Limits!FetchAdd(l, n) /\ UNCHANGED <<fds, maps>>
  /\ from \in WithFd <=> to \in WithFd
  /\ from \notin {"mapped, open", "mapped"} /\ to \notin {"mapped, open", "mapped"}
  /\ \A k \in Limits!Limiters \ {l} : from \notin UsedPlaces(k) /\ to \notin UsedPlaces(k)

\* What such a move leaves alone, and what is left to show
LEMMA CountingMove ==
  ASSUME IsFiniteSet(Threads), Limits!ReadOnlyFilesAssumption, LimitInv, NEW t \in Threads, NEW from, NEW to \in FilePlaces,
         NEW l \in Limits!Limiters, NEW n \in Int, Counts(t, from, to, l, n),
         Cardinality(Using(l)') = Cardinality(Using(l)) - n,
         Cardinality(In(HeldPlaces(l))') <= Limits!Limit[l]
  PROVE  LimitInv'
<1>0. /\ file_pc \in [Threads -> FilePlaces] /\ Limits!Move(t, from, to)
      /\ Moves(t, from, to)
  BY InAfterMove DEF LimitInv, Counts
<1>1. file_pc' \in [Threads -> FilePlaces]
  BY <1>0 DEF Limits!Move
<1>2. /\ acquires_allowed_' \in [Limits!Limiters -> Int]
      /\ acquires_allowed_'[l] = acquires_allowed_[l] + n
      /\ \A k \in Limits!Limiters \ {l} : acquires_allowed_'[k] = acquires_allowed_[k]
  <2>1. acquires_allowed_ \in [Limits!Limiters -> Int]
    BY DEF LimitInv
  <2>2. acquires_allowed_' = [acquires_allowed_ EXCEPT ![l] = @ + n]
    BY DEF Counts, Limits!FetchAdd
  <2>. QED  BY <2>1, <2>2
<1>3. ASSUME NEW k \in Limits!Limiters \ {l}
      PROVE  In(HeldPlaces(k))' = In(HeldPlaces(k)) /\ Using(k)' = Using(k)
  <2>1. PICK held, used : held = HeldPlaces(k) /\ used = UsedPlaces(k)
    OBVIOUS
  <2>2. from \notin held /\ to \notin held /\ from \notin used /\ to \notin used
    BY <2>1 DEF Counts, UsedPlaces
  <2>3. /\ t \in In(held) <=> from \in held
        /\ In(held)' = IF to \in held THEN In(held) \cup {t} ELSE In(held) \ {t}
    BY <1>0 DEF Moves
  <2>4. /\ t \in In(used) <=> from \in used
        /\ In(used)' = IF to \in used THEN In(used) \cup {t} ELSE In(used) \ {t}
    BY <1>0 DEF Moves
  <2>5. In(held)' = In(held) /\ In(used)' = In(used)
    BY <2>2, <2>3, <2>4
  <2>. QED  BY <2>1, <2>5 DEF Using
<1>4. fds' = In(WithFd)' /\ maps' = In({"mapped, open", "mapped"})'
  <2>1. PICK open, mapped : open = WithFd /\ mapped = {"mapped, open", "mapped"}
    OBVIOUS
  <2>2. /\ t \in In(open) <=> from \in open
        /\ In(open)' = IF to \in open THEN In(open) \cup {t} ELSE In(open) \ {t}
    BY <1>0 DEF Moves
  <2>3. /\ t \in In(mapped) <=> from \in mapped
        /\ In(mapped)' = IF to \in mapped THEN In(mapped) \cup {t} ELSE In(mapped) \ {t}
    BY <1>0 DEF Moves
  <2>4. fds' = In(open)' /\ maps' = In(mapped)'
    BY <2>1, <2>2, <2>3 DEF LimitInv, Counts
  <2>. QED  BY <2>1, <2>4
<1>5. Cardinality(Using(l)) \in Nat
  BY InIsFinite DEF Using
<1>6. Limits!Limit[l] \in Int
  BY DEF Limits!Limit, Limits!Limiters, Limits!ReadOnlyFilesAssumption
<1>7. acquires_allowed_'[l] = Limits!Limit[l] - Cardinality(Using(l)')
  <2>1. acquires_allowed_[l] = Limits!Limit[l] - Cardinality(Using(l))
    BY DEF LimitInv
  <2>2. PICK limit \in Int, used \in Nat : limit = Limits!Limit[l] /\ used = Cardinality(Using(l))
    BY <1>5, <1>6
  <2>3. limit - (used - n) = limit - used + n
    OBVIOUS
  <2>. QED  BY <1>2, <2>1, <2>2, <2>3
<1>8. \A k \in Limits!Limiters :
        /\ acquires_allowed_'[k] = Limits!Limit[k] - Cardinality(Using(k)')
        /\ Cardinality(In(HeldPlaces(k))') <= Limits!Limit[k]
  <2>1. TAKE k \in Limits!Limiters
  <2>2. CASE k = l
    BY <1>7, <2>2
  <2>3. CASE k # l
    BY <1>2, <1>3, <2>3 DEF LimitInv
  <2>. QED  BY <2>2, <2>3
<1>. QED  BY <1>1, <1>2, <1>4, <1>8 DEF LimitInv

\* Limiter::Acquire: the counter goes down, and whoever is let through leaves room.
LEMMA TakingMove ==
  ASSUME IsFiniteSet(Threads), Limits!ReadOnlyFilesAssumption, LimitInv, NEW t \in Threads,
         NEW from, NEW to \in FilePlaces, NEW l \in Limits!Limiters,
         Counts(t, from, to, l, -1),
         from \notin UsedPlaces(l), to \in UsedPlaces(l),
         to \in HeldPlaces(l) => acquires_allowed_[l] > 0
  PROVE  LimitInv'
<1>0. /\ file_pc \in [Threads -> FilePlaces] /\ Limits!Move(t, from, to)
      /\ Moves(t, from, to)
  BY InAfterMove DEF LimitInv, Counts
<1>1. PICK held, used : held = HeldPlaces(l) /\ used = UsedPlaces(l) /\ held \subseteq used
  BY DEF UsedPlaces
<1>2. /\ t \in In(held) <=> from \in held
      /\ In(held)' = IF to \in held THEN In(held) \cup {t} ELSE In(held) \ {t}
  BY <1>0 DEF Moves
<1>3. /\ t \in In(used) <=> from \in used
      /\ In(used)' = IF to \in used THEN In(used) \cup {t} ELSE In(used) \ {t}
  BY <1>0 DEF Moves
<1>4. In(used)' = In(used) \cup {t} /\ t \notin In(used)
  BY <1>1, <1>3
<1>5. /\ IsFiniteSet(In(used)) /\ Cardinality(In(used)) \in Nat
      /\ IsFiniteSet(In(held)) /\ Cardinality(In(held)) \in Nat
  BY InIsFinite
<1>6. IsFiniteSet(In(used)') /\ Cardinality(In(used)') = Cardinality(In(used)) + 1
  BY <1>4, <1>5, FS_AddElement
<1>7. Cardinality(In(held)') <= Limits!Limit[l]
  <2>1. CASE to \in held
    <3>1. In(held)' \subseteq In(used)'
      BY <1>1 DEF In
    <3>2. Cardinality(In(held)') <= Cardinality(In(used)') /\ Cardinality(In(held)') \in Nat
      BY <1>6, <3>1, FS_Subset, FS_CardinalityType
    <3>3. /\ acquires_allowed_[l] = Limits!Limit[l] - Cardinality(In(used))
          /\ acquires_allowed_[l] > 0
      BY <1>1, <2>1 DEF LimitInv, Using
    <3>4. Limits!Limit[l] \in Int
      BY DEF Limits!Limit, Limits!Limiters, Limits!ReadOnlyFilesAssumption
    <3>. QED  BY <1>5, <1>6, <3>2, <3>3, <3>4
  <2>2. CASE to \notin held
    <3>1. In(held)' = In(held)
      BY <1>1, <1>2, <2>2
    <3>. QED  BY <1>1, <3>1 DEF LimitInv
  <2>. QED  BY <2>1, <2>2
<1>8. /\ Cardinality(Using(l)') = Cardinality(Using(l)) - (-1)
      /\ Cardinality(In(HeldPlaces(l))') <= Limits!Limit[l]
  BY <1>1, <1>5, <1>6, <1>7 DEF Using
<1>. QED  BY <1>8, CountingMove

\* Limiter::Release, and the second half of an Acquire that lets nobody through
LEMMA GivingMove ==
  ASSUME IsFiniteSet(Threads), Limits!ReadOnlyFilesAssumption, LimitInv, NEW t \in Threads,
         NEW from, NEW to \in FilePlaces, NEW l \in Limits!Limiters,
         Counts(t, from, to, l, 1),
         from \in UsedPlaces(l), to \notin UsedPlaces(l)
  PROVE  LimitInv'
<1>0. /\ file_pc \in [Threads -> FilePlaces] /\ Limits!Move(t, from, to)
      /\ Moves(t, from, to)
  BY InAfterMove DEF LimitInv, Counts
<1>1. PICK held, used : held = HeldPlaces(l) /\ used = UsedPlaces(l) /\ held \subseteq used
  BY DEF UsedPlaces
<1>2. /\ t \in In(held) <=> from \in held
      /\ In(held)' = IF to \in held THEN In(held) \cup {t} ELSE In(held) \ {t}
  BY <1>0 DEF Moves
<1>3. /\ t \in In(used) <=> from \in used
      /\ In(used)' = IF to \in used THEN In(used) \cup {t} ELSE In(used) \ {t}
  BY <1>0 DEF Moves
<1>4. In(used)' = In(used) \ {t} /\ t \in In(used) /\ In(held)' \subseteq In(held)
  BY <1>1, <1>2, <1>3
<1>5. /\ IsFiniteSet(In(used)) /\ Cardinality(In(used)) \in Nat
      /\ IsFiniteSet(In(held)) /\ Cardinality(In(held)) \in Nat
  BY InIsFinite
<1>6. Cardinality(In(used)') = Cardinality(In(used)) - 1
  BY <1>4, <1>5, FS_RemoveElement
<1>7. Cardinality(In(held)') <= Cardinality(In(held)) /\ Cardinality(In(held)') \in Nat
  BY <1>4, <1>5, FS_Subset, FS_CardinalityType
<1>8. Cardinality(In(held)) <= Limits!Limit[l] /\ Limits!Limit[l] \in Int
  <2>1. Limits!Limit[l] \in Int
    BY DEF Limits!Limit, Limits!Limiters, Limits!ReadOnlyFilesAssumption
  <2>. QED  BY <1>1, <2>1 DEF LimitInv
<1>9. Cardinality(In(held)') <= Limits!Limit[l]
  BY <1>5, <1>7, <1>8
<1>10. /\ Cardinality(Using(l)') = Cardinality(Using(l)) - 1
       /\ Cardinality(In(HeldPlaces(l))') <= Limits!Limit[l]
  BY <1>1, <1>5, <1>6, <1>9 DEF Using
<1>. QED  BY <1>10, CountingMove

LEMMA NextKeepsLimits ==
  ASSUME IsFiniteSet(Threads), Limits!ReadOnlyFilesAssumption, LimitInv,
         [Limits!Next]_(Limits!vars)
  PROVE  LimitInv'
<1>1. CASE UNCHANGED Limits!vars
  BY <1>1 DEF Limits!vars, LimitInv, Using, In
<1>2. ASSUME NEW t \in Threads,
             \/ Limits!Open(t) \/ Limits!Drop(t) \/ Limits!MapDone(t) \/ Limits!MapFailed(t)
             \/ Limits!ReadOpen(t) \/ Limits!ReadClose(t) \/ Limits!Unpin(t)
      PROVE  LimitInv'
  <2>1. PICK from, to \in FilePlaces : Quiet(t, from, to)
    <3>1. CASE Limits!Open(t)
      <4>1. Quiet(t, "none", "trying mmap")
        BY <3>1 DEF Quiet, Limits!Open, Limits!Trying, Limits!OpenFd, HeldPlaces, RefusedPlace, WithFd
      <4>. QED  BY <4>1 DEF FilePlaces
    <3>2. CASE Limits!Drop(t)
      <4>1. Quiet(t, "dropping", "unpinned")
        BY <3>2 DEF Quiet, Limits!Drop, Limits!CloseFd, HeldPlaces, RefusedPlace, WithFd
      <4>. QED  BY <4>1 DEF FilePlaces
    <3>3. CASE Limits!MapDone(t)
      <4>1. Quiet(t, "mapped, open", "mapped")
        BY <3>3 DEF Quiet, Limits!MapDone, Limits!CloseFd, HeldPlaces, RefusedPlace, WithFd
      <4>. QED  BY <4>1 DEF FilePlaces
    <3>4. CASE Limits!MapFailed(t)
      <4>1. Quiet(t, "not mapped", "releasing mmap")
        BY <3>4 DEF Quiet, Limits!MapFailed, Limits!CloseFd, HeldPlaces, RefusedPlace, WithFd
      <4>. QED  BY <4>1 DEF FilePlaces
    <3>5. CASE Limits!ReadOpen(t)
      <4>1. Quiet(t, "unpinned", "reading")
        BY <3>5 DEF Quiet, Limits!ReadOpen, Limits!OpenFd, HeldPlaces, RefusedPlace, WithFd
      <4>. QED  BY <4>1 DEF FilePlaces
    <3>6. CASE Limits!ReadClose(t)
      <4>1. Quiet(t, "reading", "unpinned")
        BY <3>6 DEF Quiet, Limits!ReadClose, Limits!CloseFd, HeldPlaces, RefusedPlace, WithFd
      <4>. QED  BY <4>1 DEF FilePlaces
    <3>7. CASE Limits!Unpin(t)
      <4>1. Quiet(t, "pinned", "releasing fd")
        BY <3>7 DEF Quiet, Limits!Unpin, Limits!CloseFd, HeldPlaces, RefusedPlace, WithFd
      <4>. QED  BY <4>1 DEF FilePlaces
    <3>. QED  BY <1>2, <3>1, <3>2, <3>3, <3>4, <3>5, <3>6, <3>7
  <2>. QED  BY <2>1, QuietMove
<1>3. ASSUME NEW t \in Threads, Limits!Map(t) \/ Limits!Unmap(t) \/ Limits!Delete(t)
      PROVE  LimitInv'
  <2>1. PICK from, to \in FilePlaces : Quiet(t, from, to)
    <3>1. CASE /\ Limits!Move(t, "mapping", "mapped, open") /\ maps' = maps \cup {t}
               /\ UNCHANGED <<acquires_allowed_, fds>>
      <4>1. Quiet(t, "mapping", "mapped, open")
        BY <3>1 DEF Quiet, HeldPlaces, RefusedPlace, WithFd
      <4>. QED  BY <4>1 DEF FilePlaces
    <3>2. CASE Limits!Move(t, "mapping", "not mapped") /\ UNCHANGED <<acquires_allowed_, fds, maps>>
      <4>1. Quiet(t, "mapping", "not mapped")
        BY <3>2 DEF Quiet, HeldPlaces, RefusedPlace, WithFd
      <4>. QED  BY <4>1 DEF FilePlaces
    <3>3. CASE Limits!Unmap(t)
      <4>1. Quiet(t, "mapped", "releasing mmap")
        BY <3>3 DEF Quiet, Limits!Unmap, HeldPlaces, RefusedPlace, WithFd
      <4>. QED  BY <4>1 DEF FilePlaces
    <3>4. CASE Limits!Delete(t)
      <4>1. Quiet(t, "unpinned", "none")
        BY <3>4 DEF Quiet, Limits!Delete, HeldPlaces, RefusedPlace, WithFd
      <4>. QED  BY <4>1 DEF FilePlaces
    <3>. QED  BY <1>3, <3>1, <3>2, <3>3, <3>4 DEF Limits!Map
  <2>. QED  BY <2>1, QuietMove
<1>4. ASSUME NEW t \in Threads, NEW l \in Limits!Limiters, Limits!Acquire(t, l)
      PROVE  LimitInv'
  <2>1. PICK to \in {Limits!Allowed[l], Limits!Refused[l]} :
          /\ Limits!Move(t, Limits!Trying[l], to) /\ Limits!FetchAdd(l, -1)
          /\ to = Limits!Allowed[l] => acquires_allowed_[l] > 0
          /\ UNCHANGED <<fds, maps>>
    <3>1. CASE acquires_allowed_[l] > 0
      BY <1>4, <3>1 DEF Limits!Acquire
    <3>2. CASE ~(acquires_allowed_[l] > 0)
      <4>1. Limits!Refused[l] # Limits!Allowed[l]
        <5>1. CASE l = "mmap"
          BY <5>1 DEF Limits!Allowed, Limits!Refused
        <5>2. CASE l = "fd"
          BY <5>2 DEF Limits!Allowed, Limits!Refused
        <5>. QED  BY <5>1, <5>2 DEF Limits!Limiters
      <4>. QED  BY <1>4, <3>2, <4>1 DEF Limits!Acquire
    <3>. QED  BY <3>1, <3>2
  <2>2. CASE l = "mmap"
    <3>1. /\ to \in {"mapping", "refused mmap"}
          /\ to \in FilePlaces /\ to \in UsedPlaces(l) /\ "trying mmap" \notin UsedPlaces(l)
          /\ to \in HeldPlaces(l) => acquires_allowed_[l] > 0
      BY <2>1, <2>2 DEF Limits!Allowed, Limits!Refused, FilePlaces, UsedPlaces, HeldPlaces, RefusedPlace
    <3>2. Counts(t, "trying mmap", to, l, -1)
      BY <2>1, <2>2, <3>1 DEF Counts, Limits!Trying, WithFd, UsedPlaces, HeldPlaces, RefusedPlace,
                              Limits!Limiters
    <3>. QED  BY <3>1, <3>2, TakingMove
  <2>3. CASE l = "fd"
    <3>1. /\ to \in {"pinned", "refused fd"}
          /\ to \in FilePlaces /\ to \in UsedPlaces(l) /\ "trying fd" \notin UsedPlaces(l)
          /\ to \in HeldPlaces(l) => acquires_allowed_[l] > 0
      BY <2>1, <2>3 DEF Limits!Allowed, Limits!Refused, FilePlaces, UsedPlaces, HeldPlaces, RefusedPlace
    <3>2. Counts(t, "trying fd", to, l, -1)
      BY <2>1, <2>3, <3>1 DEF Counts, Limits!Trying, WithFd, UsedPlaces, HeldPlaces, RefusedPlace,
                              Limits!Limiters
    <3>. QED  BY <3>1, <3>2, TakingMove
  <2>. QED  BY <2>2, <2>3 DEF Limits!Limiters
<1>5. ASSUME NEW t \in Threads, NEW l \in Limits!Limiters, Limits!AcquireFails(t, l)
      PROVE  LimitInv'
  <2>1. PICK from, to \in FilePlaces :
          Counts(t, from, to, l, 1) /\ from \in UsedPlaces(l) /\ to \notin UsedPlaces(l)
    <3>1. CASE l = "mmap"
      <4>1. Counts(t, "refused mmap", "trying fd", l, 1)
        BY <1>5, <3>1 DEF Limits!AcquireFails, Limits!Refused, Limits!Instead, Counts, WithFd,
                          UsedPlaces, HeldPlaces, RefusedPlace, Limits!Limiters
      <4>2. "refused mmap" \in UsedPlaces(l) /\ "trying fd" \notin UsedPlaces(l)
        BY <3>1 DEF UsedPlaces, HeldPlaces, RefusedPlace
      <4>. QED  BY <4>1, <4>2 DEF FilePlaces
    <3>2. CASE l = "fd"
      <4>1. Counts(t, "refused fd", "dropping", l, 1)
        BY <1>5, <3>2 DEF Limits!AcquireFails, Limits!Refused, Limits!Instead, Counts, WithFd,
                          UsedPlaces, HeldPlaces, RefusedPlace, Limits!Limiters
      <4>2. "refused fd" \in UsedPlaces(l) /\ "dropping" \notin UsedPlaces(l)
        BY <3>2 DEF UsedPlaces, HeldPlaces, RefusedPlace
      <4>. QED  BY <4>1, <4>2 DEF FilePlaces
    <3>. QED  BY <3>1, <3>2 DEF Limits!Limiters
  <2>. QED  BY <2>1, GivingMove
<1>6. ASSUME NEW t \in Threads, Limits!Release(t) PROVE LimitInv'
  <2>1. PICK l \in Limits!Limiters, from, to \in FilePlaces :
          Counts(t, from, to, l, 1) /\ from \in UsedPlaces(l) /\ to \notin UsedPlaces(l)
    <3>1. CASE Limits!Move(t, "releasing mmap", "none") /\ Limits!FetchAdd("mmap", 1)
      <4>1. Counts(t, "releasing mmap", "none", "mmap", 1)
        BY <1>6, <3>1 DEF Limits!Release, Counts, WithFd, UsedPlaces, HeldPlaces, RefusedPlace,
                          Limits!Limiters
      <4>2. "releasing mmap" \in UsedPlaces("mmap") /\ "none" \notin UsedPlaces("mmap")
        BY DEF UsedPlaces, HeldPlaces, RefusedPlace
      <4>. QED  BY <4>1, <4>2 DEF FilePlaces, Limits!Limiters
    <3>2. CASE Limits!Move(t, "releasing fd", "none") /\ Limits!FetchAdd("fd", 1)
      <4>1. Counts(t, "releasing fd", "none", "fd", 1)
        BY <1>6, <3>2 DEF Limits!Release, Counts, WithFd, UsedPlaces, HeldPlaces, RefusedPlace,
                          Limits!Limiters
      <4>2. "releasing fd" \in UsedPlaces("fd") /\ "none" \notin UsedPlaces("fd")
        BY DEF UsedPlaces, HeldPlaces, RefusedPlace
      <4>. QED  BY <4>1, <4>2 DEF FilePlaces, Limits!Limiters
    <3>. QED  BY <1>6, <3>1, <3>2 DEF Limits!Release
  <2>. QED  BY <2>1, GivingMove
<1>. QED  BY <1>1, <1>2, <1>3, <1>4, <1>5, <1>6 DEF Limits!Next

\* What the invariant says of the limits, and of a moment when no thread is on its way
LEMMA LimitsMean ==
  ASSUME IsFiniteSet(Threads), Limits!ReadOnlyFilesAssumption, LimitInv
  PROVE  Limits!WithinLimits /\ Limits!NothingLeaks
<1>1. /\ "mmap" \in Limits!Limiters /\ "fd" \in Limits!Limiters
      /\ Limits!Limit["mmap"] = MaxMmaps /\ Limits!Limit["fd"] = MaxOpenFiles
      /\ MaxMmaps \in Nat /\ MaxOpenFiles \in Nat
  BY DEF Limits!Limiters, Limits!Limit, Limits!ReadOnlyFilesAssumption
<1>2. Cardinality(maps) <= MaxMmaps
  <2>1. maps \subseteq In(HeldPlaces("mmap"))
    BY DEF LimitInv, In, HeldPlaces
  <2>2. Cardinality(maps) <= Cardinality(In(HeldPlaces("mmap"))) /\ Cardinality(maps) \in Nat
    BY <2>1, InIsFinite, FS_Subset, FS_CardinalityType
  <2>3. Cardinality(In(HeldPlaces("mmap"))) <= MaxMmaps
        /\ Cardinality(In(HeldPlaces("mmap"))) \in Nat
    BY <1>1, InIsFinite DEF LimitInv
  <2>. QED  BY <1>1, <2>2, <2>3
<1>3. Cardinality(fds \cap Limits!At("pinned")) <= MaxOpenFiles
  <2>1. fds \cap Limits!At("pinned") \subseteq In(HeldPlaces("fd"))
    BY DEF Limits!At, In, HeldPlaces
  <2>2. /\ Cardinality(fds \cap Limits!At("pinned")) <= Cardinality(In(HeldPlaces("fd")))
        /\ Cardinality(fds \cap Limits!At("pinned")) \in Nat
    BY <2>1, InIsFinite, FS_Subset, FS_CardinalityType
  <2>3. Cardinality(In(HeldPlaces("fd"))) <= MaxOpenFiles /\ Cardinality(In(HeldPlaces("fd"))) \in Nat
    BY <1>1, InIsFinite DEF LimitInv
  <2>. QED  BY <1>1, <2>2, <2>3
<1>4. Limits!WithinLimits
  BY <1>2, <1>3, SameCount DEF Limits!WithinLimits
<1>5. ASSUME UNION {Limits!At(s) : s \in {"none", "mapped", "pinned", "unpinned"}} = Threads
      PROVE  /\ \A l \in Limits!Limiters :
                  acquires_allowed_[l] = Limits!Limit[l] - Limits!Cardinality(Limits!Held(l))
             /\ fds = Limits!At("pinned") /\ maps = Limits!At("mapped")
  <2>1. \A t \in Threads : file_pc[t] \in {"none", "mapped", "pinned", "unpinned"}
    BY <1>5 DEF Limits!At
  <2>2. fds = Limits!At("pinned") /\ maps = Limits!At("mapped")
    BY <2>1 DEF LimitInv, In, WithFd, Limits!At
  <2>3. \A l \in Limits!Limiters : Limits!Held(l) = Using(l)
    BY <2>1 DEF Limits!Held, Limits!At, Using, In, UsedPlaces, HeldPlaces, RefusedPlace,
                Limits!Limiters
  <2>4. \A l \in Limits!Limiters :
          acquires_allowed_[l] = Limits!Limit[l] - Limits!Cardinality(Limits!Held(l))
    BY <2>3, SameCount DEF LimitInv
  <2>. QED  BY <2>2, <2>4
<1>6. Limits!NothingLeaks
  BY <1>5 DEF Limits!NothingLeaks
<1>. QED  BY <1>4, <1>6

\* However many threads open and close tables at once, and whatever fails on the way, no
\* more files are mapped and no more keep their descriptor than the limits say; once no
\* thread is on its way the counters say how many more may be opened, and no descriptor or
\* mapping is left over (Limiter, NewRandomAccessFile and the destructors).
THEOREM LimitsHold ==
  ASSUME IsFiniteSet(Threads), Limits!ReadOnlyFilesAssumption
  PROVE  Limits!Spec => [](Limits!WithinLimits /\ Limits!NothingLeaks)
<1>1. ASSUME Limits!Init PROVE LimitInv
  <2>1. \A l \in Limits!Limiters : Using(l) = {} /\ In(HeldPlaces(l)) = {}
    BY <1>1 DEF Limits!Init, Using, In, UsedPlaces, HeldPlaces, RefusedPlace, Limits!Limiters
  <2>2. Limits!Limit \in [Limits!Limiters -> Nat]
    BY DEF Limits!Limit, Limits!Limiters, Limits!ReadOnlyFilesAssumption
  <2>3. file_pc \in [Threads -> FilePlaces] /\ \A t \in Threads : file_pc[t] = "none"
    BY <1>1 DEF Limits!Init, FilePlaces
  <2>4. fds = In(WithFd) /\ maps = In({"mapped, open", "mapped"})
    BY <1>1, <2>3 DEF Limits!Init, In, WithFd
  <2>5. acquires_allowed_ = Limits!Limit
    BY <1>1 DEF Limits!Init
  <2>6. ASSUME NEW l \in Limits!Limiters
        PROVE  /\ acquires_allowed_[l] = Limits!Limit[l] - Cardinality(Using(l))
               /\ Cardinality(In(HeldPlaces(l))) <= Limits!Limit[l]
    <3>1. Cardinality(Using(l)) = 0 /\ Cardinality(In(HeldPlaces(l))) = 0
      BY <2>1, FS_EmptySet
    <3>. QED  BY <2>2, <2>5, <3>1
  <2>7. acquires_allowed_ \in [Limits!Limiters -> Int]
    BY <2>2, <2>5
  <2>. QED  BY <2>3, <2>4, <2>6, <2>7 DEF LimitInv
<1>2. LimitInv /\ [Limits!Next]_(Limits!vars) => LimitInv'
  BY NextKeepsLimits
<1>3. LimitInv => Limits!WithinLimits /\ Limits!NothingLeaks
  BY LimitsMean
<1>. QED  BY <1>1, <1>2, <1>3, PTL DEF Limits!Spec

\* The locks and the limits together
LocksAndLimitsHold ==
  Locks!OneHolder /\ Locks!NoStuckLock /\ Limits!WithinLimits /\ Limits!NothingLeaks

\* One process at most holds the database and none keeps it for nothing, and however
\* many threads open files, they keep to the limits and give back what they took.
THEOREM LocksAndLimits ==
  ASSUME NEW t, Lockers = {t}, IsFiniteSet(Threads), Limits!ReadOnlyFilesAssumption
  PROVE  Locks!Spec /\ Limits!Spec => []LocksAndLimitsHold
<1>1. Limits!Spec => [](Limits!WithinLimits /\ Limits!NothingLeaks)
  BY LimitsHold
<1>2. Locks!Spec => [](Locks!OneHolder /\ Locks!NoStuckLock)
  BY OneProcessHolds
<1>. QED  BY <1>1, <1>2, PTL DEF LocksAndLimitsHold

-------------------------------------------------------------------------------
(* Sequences of units *)

Pre(s, t) == Len(s) <= Len(t) /\ \A i \in 1..Len(s) : s[i] = t[i]
Names(s) == {s[i] : i \in DOMAIN s}
Increasing(s) == \A i, j \in 1..Len(s) : i < j => s[i] < s[j]

LEMMA CatFacts ==
  ASSUME NEW a \in Seq(Nat), NEW b \in Seq(Nat)
  PROVE  /\ a \o b \in Seq(Nat) /\ Len(a \o b) = Len(a) + Len(b)
         /\ \A i \in 1..Len(a) : (a \o b)[i] = a[i]
         /\ \A i \in 1..Len(b) : (a \o b)[Len(a) + i] = b[i]
         /\ \A i \in Len(a) + 1..Len(a) + Len(b) : (a \o b)[i] = b[i - Len(a)]
  OBVIOUS

Assoc(a, b, c) == (a \o b) \o c = a \o (b \o c)

LEMMA CatAssoc == \A a, b, c \in Seq(Nat) : Assoc(a, b, c)
  BY ConcatAssociative DEF Assoc

LEMMA CutFacts ==
  ASSUME NEW d \in Seq(Nat), NEW k \in 0..Len(d)
  PROVE  /\ SubSeq(d, 1, k) \in Seq(Nat) /\ Len(SubSeq(d, 1, k)) = k
         /\ \A i \in 1..k : SubSeq(d, 1, k)[i] = d[i]
         /\ SubSeq(d, k + 1, Len(d)) \in Seq(Nat) /\ Len(SubSeq(d, k + 1, Len(d))) = Len(d) - k
         /\ SubSeq(d, 1, k) \o SubSeq(d, k + 1, Len(d)) = d
         /\ SubSeq(d, 1, Len(d)) = d
         /\ k = Len(d) <=> SubSeq(d, k + 1, Len(d)) = <<>>
<1>. DEFINE a == SubSeq(d, 1, k)
            b == SubSeq(d, k + 1, Len(d))
<1>1. a \in Seq(Nat) /\ Len(a) = k /\ \A i \in 1..k : a[i] = d[i]
  OBVIOUS
<1>2. b \in Seq(Nat) /\ Len(b) = Len(d) - k /\ \A i \in 1..Len(d) - k : b[i] = d[k + i]
  <2>1. b = [i \in 1..Len(d) - k |-> d[k + i]]
    OBVIOUS
  <2>2. \A i \in 1..Len(d) - k : d[k + i] \in Nat
    OBVIOUS
  <2>. QED  BY <2>1, <2>2
<1>3. SubSeq(d, 1, Len(d)) = d
  OBVIOUS
<1>. HIDE DEF a, b
<1>4. a \o b \in Seq(Nat) /\ Len(a \o b) = Len(d)
  <2>1. a \o b \in Seq(Nat) /\ Len(a \o b) = Len(a) + Len(b)
    BY <1>1, <1>2, CatFacts, Zenon
  <2>. QED  BY <1>1, <1>2, <2>1
<1>5. \A i \in 1..Len(d) : (a \o b)[i] = d[i]
  <2>1. TAKE i \in 1..Len(d)
  <2>2. CASE i <= k
    BY <1>1, <1>2, <2>2, CatFacts
  <2>3. CASE ~(i <= k)
    <3>0. i \in Len(a) + 1..Len(a) + Len(b) /\ i - k \in 1..Len(d) - k
      BY <1>1, <1>2, <2>3
    <3>1. (a \o b)[i] = b[i - k] /\ i - k \in 1..Len(d) - k
      BY <1>1, <1>2, <3>0, CatFacts
    <3>2. b[i - k] = d[k + (i - k)]
      BY <1>2, <3>1
    <3>. QED  BY <3>1, <3>2
  <2>. QED  BY <2>2, <2>3
<1>6. a \o b = d
  BY <1>4, <1>5, SeqEqual
<1>7. k = Len(d) <=> b = <<>>
  BY <1>2
<1>. QED  BY <1>1, <1>2, <1>3, <1>6, <1>7 DEF a, b

LEMMA PreFacts ==
  /\ \A s, t, u \in Seq(Nat) : Pre(s, t) /\ Pre(t, u) => Pre(s, u)
  /\ \A s \in Seq(Nat) : Pre(s, s)
  /\ \A s, t \in Seq(Nat) : Pre(s, s \o t)
  /\ \A s, t \in Seq(Nat) : Pre(s, t) /\ Increasing(t) => Increasing(s)
<1>1. \A s, t, u \in Seq(Nat) : Pre(s, t) /\ Pre(t, u) => Pre(s, u)
  BY DEF Pre
<1>2.  \A s \in Seq(Nat) : Pre(s, s)
  BY DEF Pre
<1>3. \A s, t \in Seq(Nat) : Pre(s, s \o t)
  BY CatFacts DEF Pre
<1>4. ASSUME NEW s \in Seq(Nat), NEW t \in Seq(Nat), Pre(s, t), Increasing(t)
      PROVE  Increasing(s)
  <2>1. \A i \in 1..Len(s) : i \in 1..Len(t) /\ s[i] = t[i]
    BY <1>4 DEF Pre
  <2>. QED  BY <1>4, <2>1 DEF Increasing
<1> QED BY <1>1, <1>2, <1>3, <1>4

LEMMA PreCat ==
  ASSUME NEW a \in Seq(Nat), NEW s \in Seq(Nat), NEW t \in Seq(Nat), Pre(s, t)
  PROVE  Pre(a \o s, a \o t)
  BY CatFacts DEF Pre

-------------------------------------------------------------------------------
(* Files *)

\* What the file and the buffer hold is in order; without an error it is what was accepted.
ContentInv ==
  /\ file \in Seq(Nat) /\ buf_ \in Seq(Nat) /\ accepted \in Seq(Nat) /\ appended \in Nat
  /\ failed \in BOOLEAN /\ fd_ \in BOOLEAN
  /\ Len(buf_) <= BufferSize
  /\ Increasing(file \o buf_)
  /\ \A i \in 1..Len(file \o buf_) : (file \o buf_)[i] <= appended
  /\ fd_ /\ ~failed => file \o buf_ = accepted

\* What was promised is at the start of the part of the file that is synced.
PromiseInv ==
  /\ promised \in Seq(Nat) /\ synced \in Nat /\ synced <= Len(file)
  /\ Len(promised) <= synced /\ Pre(promised, file)

\* The names in a manifest
NamesInv ==
  /\ entries \subseteq dir
  /\ is_manifest_ => Names(promised) \subseteq entries
  /\ is_manifest_ /\ fd_ => Names(accepted) \subseteq dir

FileInv == ContentInv /\ PromiseInv /\ NamesInv

\* What appending data, or none, does to the file and the buffer
Wrote(data) ==
  /\ file' \in Seq(Nat) /\ buf_' \in Seq(Nat) /\ Len(buf_') <= BufferSize
  /\ Pre(file, file')
  /\ Pre(file' \o buf_', file \o (buf_ \o data))
  /\ failed' \in BOOLEAN /\ (failed => failed')
  /\ ~failed' => file' \o buf_' = file \o (buf_ \o data)

\* After a write the contents are in order, and what was promised is still there.
LEMMA WroteKeepsContent ==
  ASSUME File!WritableFileAssumption, ContentInv, PromiseInv, NEW n \in Nat,
         NEW data \in Seq(Nat), Len(data) = n, \A i \in 1..n : data[i] = appended + i, Wrote(data),
         appended' = appended + n, accepted' = accepted \o data,
         fd_' \in BOOLEAN, fd_' => fd_
  PROVE  ContentInv' /\ Pre(promised, file') /\ Len(file) <= Len(file')
<1>. DEFINE all == file \o buf_
            more == file \o (buf_ \o data)
            new == file' \o buf_'
<1>1. data \in Seq(Nat) /\ Len(data) = n /\ \A i \in 1..n : data[i] = appended + i
  OBVIOUS
<1>2. /\ file \in Seq(Nat) /\ buf_ \in Seq(Nat) /\ accepted \in Seq(Nat)
      /\ file' \in Seq(Nat) /\ buf_' \in Seq(Nat) /\ promised \in Seq(Nat) /\ appended \in Nat
  BY DEF ContentInv, PromiseInv, Wrote
<1>3. more = all \o data
  <2>0. \A d \in Seq(Nat) : (file \o buf_) \o d = file \o (buf_ \o d)
    BY <1>2, CatAssoc DEF Assoc
  <2>1. (file \o buf_) \o data = file \o (buf_ \o data)
    BY <1>1, <2>0, Zenon
  <2>. QED  BY <2>1
<1>4. all \in Seq(Nat) /\ Increasing(all) /\ \A i \in 1..Len(all) : all[i] <= appended
  BY <1>2, CatFacts DEF ContentInv
<1>5. new \in Seq(Nat) /\ Pre(new, more) /\ (~failed' => new = more)
  BY <1>2, CatFacts DEF Wrote
<1>6. ~failed' /\ fd_' => all = accepted
  BY DEF ContentInv, Wrote
<1>. HIDE DEF all, more, new
<1>7. /\ more \in Seq(Nat) /\ Len(more) = Len(all) + n
      /\ \A i \in 1..Len(all) : more[i] = all[i]
      /\ \A i \in Len(all) + 1..Len(all) + n : more[i] = appended + (i - Len(all))
  <2>1. /\ all \o data \in Seq(Nat) /\ Len(all \o data) = Len(all) + Len(data)
        /\ \A i \in 1..Len(all) : (all \o data)[i] = all[i]
        /\ \A i \in Len(all) + 1..Len(all) + Len(data) : (all \o data)[i] = data[i - Len(all)]
    BY <1>1, <1>4, CatFacts
  <2>2. ASSUME NEW i \in Len(all) + 1..Len(all) + n
        PROVE  more[i] = appended + (i - Len(all))
    <3>1. i - Len(all) \in 1..n
      BY <1>4
    <3>. QED  BY <1>1, <1>3, <2>1, <3>1
  <2>. QED  BY <1>1, <1>3, <2>1, <2>2
<1>8. Increasing(more) /\ \A i \in 1..Len(more) : more[i] <= appended + n
  <2>0. Len(all) \in Nat /\ Len(more) \in Nat
    BY <1>4, <1>7
  <2>1. ASSUME NEW i \in 1..Len(more), NEW j \in 1..Len(more), i < j PROVE more[i] < more[j]
    <3>1. CASE j <= Len(all)
      <4>1. i \in 1..Len(all) /\ j \in 1..Len(all)
        BY <2>0, <2>1, <3>1
      <4>. QED  BY <1>4, <1>7, <2>1, <4>1 DEF Increasing
    <3>2. CASE ~(j <= Len(all))
      <4>1. j \in Len(all) + 1..Len(all) + n
        BY <1>7, <2>0, <3>2
      <4>2. more[j] = appended + (j - Len(all)) /\ j - Len(all) > 0
        BY <1>7, <2>0, <4>1
      <4>3. CASE i <= Len(all)
        <5>1. i \in 1..Len(all)
          BY <2>0, <4>3
        <5>2. more[i] = all[i] /\ all[i] <= appended /\ all[i] \in Nat
          BY <1>4, <1>7, <5>1
        <5>. QED  BY <1>2, <2>0, <4>2, <5>2
      <4>4. CASE ~(i <= Len(all))
        <5>1. i \in Len(all) + 1..Len(all) + n
          BY <1>7, <2>0, <4>4
        <5>2. more[i] = appended + (i - Len(all))
          BY <1>7, <5>1
        <5>. QED  BY <1>2, <2>0, <2>1, <4>2, <5>2
      <4>. QED  BY <4>3, <4>4
    <3>. QED  BY <3>1, <3>2
  <2>2. ASSUME NEW i \in 1..Len(more) PROVE more[i] <= appended + n
    <3>1. CASE i <= Len(all)
      <4>1. i \in 1..Len(all)
        BY <2>0, <3>1
      <4>2. more[i] = all[i] /\ all[i] <= appended /\ all[i] \in Nat
        BY <1>4, <1>7, <4>1
      <4>. QED  BY <1>2, <4>2
    <3>2. CASE ~(i <= Len(all))
      <4>1. i \in Len(all) + 1..Len(all) + n
        BY <1>7, <2>0, <3>2
      <4>2. more[i] = appended + (i - Len(all)) /\ i - Len(all) <= n
        BY <1>7, <2>0, <4>1
      <4>. QED  BY <1>2, <2>0, <4>2
    <3>. QED  BY <3>1, <3>2
  <2>. QED  BY <2>1, <2>2 DEF Increasing
<1>9. Increasing(new) /\ \A i \in 1..Len(new) : new[i] <= appended'
  <2>1. Increasing(new)
    BY <1>5, <1>7, <1>8, PreFacts
  <2>2. \A i \in 1..Len(new) : i \in 1..Len(more) /\ new[i] = more[i]
    BY <1>5, <1>7 DEF Pre
  <2>. QED  BY <1>8, <2>1, <2>2
<1>10. fd_' /\ ~failed' => new = accepted'
  BY <1>3, <1>5, <1>6
<1>11. accepted' \in Seq(Nat) /\ appended' \in Nat
  BY <1>1, <1>2, CatFacts
<1>12. ContentInv'
  BY <1>2, <1>9, <1>10, <1>11 DEF ContentInv, Wrote, new
<1>13. Pre(promised, file') /\ Len(file) <= Len(file')
  <2>1. Pre(promised, file) /\ Pre(file, file')
    BY DEF PromiseInv, Wrote
  <2>2. Pre(promised, file')
    BY <1>2, <2>1, PreFacts
  <2>. QED  BY <2>1, <2>2 DEF Pre
<1>. QED  BY <1>12, <1>13

LEMMA SmallerOfTwo ==
  ASSUME NEW a \in Int, NEW b \in Int
  PROVE  File!Min({a, b}) \in {a, b} /\ File!Min({a, b}) <= a /\ File!Min({a, b}) <= b
<1>1. \E x \in {a, b} : \A y \in {a, b} : x <= y
  <2>1. CASE a <= b
    BY <2>1
  <2>2. CASE b <= a
    BY <2>2
  <2>. QED  BY <2>1, <2>2
<1>2. File!Min({a, b}) \in {a, b} /\ \A y \in {a, b} : File!Min({a, b}) <= y
  BY <1>1, Zenon DEF File!Min
<1>. QED  BY <1>2

\* What follows the file is its start and the rest.
LEMMA CatCut ==
  ASSUME NEW f \in Seq(Nat), NEW b \in Seq(Nat), NEW k \in 0..Len(b)
  PROVE  /\ f \o SubSeq(b, 1, k) \in Seq(Nat)
         /\ Pre(f, f \o SubSeq(b, 1, k))
         /\ Pre(f \o SubSeq(b, 1, k), f \o b)
         /\ k = Len(b) => f \o SubSeq(b, 1, k) = f \o b
<1>1. PICK c \in Seq(Nat) : c = SubSeq(b, 1, k)
  BY CutFacts
<1>2. Pre(c, b)
  BY <1>1, CutFacts DEF Pre
<1>3. k = Len(b) => c = b
  BY <1>1, CutFacts
<1>4. f \o c \in Seq(Nat) /\ Pre(f, f \o c) /\ Pre(f \o c, f \o b)
  BY <1>2, CatFacts, PreCat, PreFacts
<1>. QED  BY <1>1, <1>3, <1>4

\* A write of the buffer that may break off is a Wrote of nothing new.
LEMMA FlushWrites ==
  ASSUME File!WritableFileAssumption, ContentInv, NEW k \in 0..Len(buf_),
         file' = file \o File!Written(buf_, k), buf_' = <<>>,
         failed' \in BOOLEAN, failed => failed', ~failed' => k = Len(buf_)
  PROVE  Wrote(<<>>)
<1>1. file \in Seq(Nat) /\ buf_ \in Seq(Nat) /\ file' = file \o SubSeq(buf_, 1, k)
  BY DEF ContentInv, File!Written
<1>2. /\ file' \in Seq(Nat) /\ Pre(file, file') /\ Pre(file', file \o buf_)
      /\ k = Len(buf_) => file' = file \o buf_
  BY <1>1, CatCut
<1>3. file' \o buf_' = file' /\ buf_ \o <<>> = buf_ /\ buf_' \in Seq(Nat) /\ Len(buf_') = 0
  BY <1>1, <1>2
<1>. QED  BY <1>2, <1>3 DEF Wrote, File!WritableFileAssumption

\* Append: what does not fit into the buffer is written with it, in order.
LEMMA AppendWrites ==
  ASSUME File!WritableFileAssumption, ContentInv, NEW n \in 0..MaxAppend, File!Append_(n)
  PROVE  \E d \in Seq(Nat) : /\ Len(d) = n /\ d = [i \in 1..n |-> appended + i]
                             /\ accepted' = accepted \o d /\ Wrote(d)
<1>1. file \in Seq(Nat) /\ buf_ \in Seq(Nat) /\ failed \in BOOLEAN
  BY DEF ContentInv
<1>a. /\ n \in Nat /\ BufferSize \in Nat /\ Len(buf_) \in Nat /\ Len(buf_) <= BufferSize
      /\ BufferSize - Len(buf_) \in Nat
  BY DEF File!WritableFileAssumption, ContentInv
<1>2. PICK d \in Seq(Nat) :
        d = [i \in 1..n |-> appended + i] /\ Len(d) = n /\ accepted' = accepted \o d
  <2>1. PICK d : d = [i \in 1..n |-> appended + i]
    OBVIOUS
  <2>2. d \in Seq(Nat) /\ Len(d) = n
    BY <1>a, <2>1 DEF ContentInv
  <2>3. accepted' = accepted \o d
    BY <2>1 DEF File!Append_
  <2>. QED  BY <2>1, <2>2, <2>3
<1>0. Len(d) = n
  BY <1>2<1>3. PICK copy \in 0..n : copy = File!Min({n, BufferSize - Len(buf_)}) /\ copy <= BufferSize - Len(buf_)
  <2>1. PICK room \in Nat : room = BufferSize - Len(buf_)
    BY <1>a, Zenon
  <2>2. /\ File!Min({n, room}) \in {n, room} /\ File!Min({n, room}) <= n
        /\ File!Min({n, room}) <= room
    <3>1. n \in Int /\ room \in Int
      BY <1>a
    <3>. QED  BY <3>1, SmallerOfTwo, Zenon
  <2>3. File!Min({n, room}) \in 0..n
    BY <1>a, <2>2
  <2>. QED  BY <2>1, <2>2, <2>3, Zenon
<1>4. PICK part \in Seq(Nat), rest \in Seq(Nat) :
        /\ part = SubSeq(d, 1, copy) /\ rest = SubSeq(d, copy + 1, n)
        /\ Len(part) = copy /\ Len(rest) = n - copy
        /\ part \o rest = d /\ (copy = n <=> rest = <<>>)
  <2>1. copy \in 0..Len(d)
    BY <1>0
  <2>2. /\ SubSeq(d, 1, copy) \in Seq(Nat) /\ Len(SubSeq(d, 1, copy)) = copy
        /\ SubSeq(d, copy + 1, Len(d)) \in Seq(Nat) /\ Len(SubSeq(d, copy + 1, Len(d))) = Len(d) - copy
        /\ SubSeq(d, 1, copy) \o SubSeq(d, copy + 1, Len(d)) = d
        /\ copy = Len(d) <=> SubSeq(d, copy + 1, Len(d)) = <<>>
    BY <2>1, CutFacts
  <2>. QED  BY <1>0, <2>2
<1>5. PICK full \in Seq(Nat) : full = buf_ \o part /\ Len(full) = Len(buf_) + copy
  <2>1. buf_ \o part \in Seq(Nat) /\ Len(buf_ \o part) = Len(buf_) + Len(part)
    BY <1>1, CatFacts, Zenon
  <2>. QED  BY <1>4, <2>1, Zenon
<1>6. /\ \/ rest = <<>> /\ buf_' = full /\ UNCHANGED <<file, failed>>
         \/ /\ rest # <<>> /\ \E k \in 0..Len(full) - 1 : file' = file \o SubSeq(full, 1, k)
            /\ buf_' = <<>> /\ failed' = TRUE
         \/ /\ rest # <<>> /\ Len(rest) < BufferSize
            /\ file' = file \o full /\ buf_' = rest /\ UNCHANGED failed
         \/ /\ \E k \in 0..Len(rest) : /\ file' = file \o full \o SubSeq(rest, 1, k)
                                       /\ failed' = (failed \/ k < Len(rest))
            /\ buf_' = <<>>
  BY <1>2, <1>3, <1>4, <1>5 DEF File!Append_, File!Written
<1>7. PICK all \in Seq(Nat) : all = file \o (buf_ \o d)
  BY <1>1, CatFacts
<1>8. file \o full \in Seq(Nat) /\ (file \o full) \o rest = all
  <2>1. full \o rest = buf_ \o d
    <3>1. Assoc(buf_, part, rest)
      BY <1>1, CatAssoc, Zenon
    <3>. QED  BY <1>4, <1>5, <3>1, Zenon DEF Assoc
  <2>2. Assoc(file, full, rest)
    BY <1>1, CatAssoc, Zenon
  <2>3. file \o full \in Seq(Nat)
    BY <1>1, CatFacts, Zenon
  <2>. QED  BY <1>7, <2>1, <2>2, <2>3, Zenon DEF Assoc
<1>9. Pre(file, file \o full) /\ Pre(file \o full, all)
  BY <1>1, <1>8, PreFacts
<1>10. SUFFICES /\ file' \in Seq(Nat) /\ buf_' \in Seq(Nat) /\ Len(buf_') <= BufferSize
                /\ Pre(file, file') /\ Pre(file' \o buf_', all)
                /\ failed' \in BOOLEAN /\ (failed => failed')
                /\ ~failed' => file' \o buf_' = all
  BY <1>2, <1>7 DEF Wrote
<1>11. CASE rest = <<>> /\ buf_' = full /\ UNCHANGED <<file, failed>>
  <2>1. file' \o buf_' = all
    BY <1>8, <1>11
  <2>2. Len(full) <= BufferSize
    BY <1>a, <1>3, <1>5
  <2>. QED  BY <1>1, <1>7, <1>11, <2>1, <2>2, PreFacts
<1>12. CASE /\ rest # <<>> /\ \E k \in 0..Len(full) - 1 : file' = file \o SubSeq(full, 1, k)
            /\ buf_' = <<>> /\ failed' = TRUE
  <2>0. 0..Len(full) - 1 \subseteq 0..Len(full)
    OBVIOUS
  <2>1. PICK k \in 0..Len(full) : file' = file \o SubSeq(full, 1, k)
    BY <1>12, <2>0, Zenon
  <2>2. file' \in Seq(Nat) /\ Pre(file, file') /\ Pre(file', file \o full)
    BY <1>1, <2>1, CatCut
  <2>3. Pre(file', all)
    BY <1>7, <1>8, <1>9, <2>2, PreFacts
  <2>4. file' \o buf_' = file' /\ buf_' \in Seq(Nat) /\ Len(buf_') = 0
    BY <1>12, <2>2
  <2>. QED  BY <1>a, <1>12, <2>2, <2>3, <2>4
<1>13. CASE /\ rest # <<>> /\ Len(rest) < BufferSize
            /\ file' = file \o full /\ buf_' = rest /\ UNCHANGED failed
  <2>1. file' \o buf_' = all /\ file' \in Seq(Nat) /\ buf_' \in Seq(Nat) /\ Pre(file, file')
    BY <1>8, <1>9, <1>13, Zenon
  <2>2. Pre(all, all)
    BY PreFacts
  <2>3. Len(buf_') <= BufferSize
    BY <1>a, <1>13
  <2>. QED  BY <1>1, <1>13, <2>1, <2>2, <2>3, Zenon
<1>14. CASE /\ \E k \in 0..Len(rest) : /\ file' = file \o full \o SubSeq(rest, 1, k)
                                       /\ failed' = (failed \/ k < Len(rest))
            /\ buf_' = <<>>
  <2>1. PICK k \in 0..Len(rest) : /\ file' = (file \o full) \o SubSeq(rest, 1, k)
                                  /\ failed' = (failed \/ k < Len(rest))
    BY <1>14
  <2>2. PICK start \in Seq(Nat) : start = file \o full
    BY <1>8
  <2>3. /\ file' \in Seq(Nat) /\ Pre(start, file') /\ Pre(file', start \o rest)
        /\ k = Len(rest) => file' = start \o rest
    BY <2>1, <2>2, CatCut
  <2>4. Pre(file, file')
    BY <1>1, <1>9, <2>2, <2>3, PreFacts
  <2>5. file' \o buf_' = file' /\ buf_' \in Seq(Nat) /\ Len(buf_') = 0
    BY <1>14, <2>3
  <2>6. ~failed' => k = Len(rest)
    <3>1. ~(k < Len(rest)) => k = Len(rest)
      OBVIOUS
    <3>. QED  BY <2>1, <3>1, Zenon
  <2>7. failed' \in BOOLEAN /\ (failed => failed')
    BY <1>1, <2>1, Zenon
  <2>8. Len(buf_') <= BufferSize
    BY <1>a, <2>5
  <2>9. start \o rest = all
    BY <1>8, <2>2, Zenon
  <2>. QED  BY <2>3, <2>4, <2>5, <2>6, <2>7, <2>8, <2>9, Zenon
<1>. QED  BY <1>6, <1>11, <1>12, <1>13, <1>14

\* Flush, Close, Sync and SyncFails write the buffer, or a part of it, or nothing.
LEMMA NothingAppended ==
  ASSUME File!WritableFileAssumption, ContentInv, PromiseInv, Wrote(<<>>),
         UNCHANGED <<appended, accepted>>, fd_' \in BOOLEAN, fd_' => fd_
  PROVE  ContentInv' /\ Pre(promised, file') /\ Len(file) <= Len(file')
<1>1. appended \in Nat /\ accepted \in Seq(Nat)
  BY DEF ContentInv
<1>2. PICK none \in Seq(Nat) : none = <<>> /\ Len(none) = 0
  <2>1. <<>> \in Seq(Nat) /\ Len(<<>>) = 0
    OBVIOUS
  <2>. QED  BY <2>1, Zenon
<1>3. appended' = appended + 0 /\ accepted' = accepted \o none
  BY <1>1, <1>2
<1>4. \A i \in 1..0 : none[i] = appended + i
  OBVIOUS
<1>. QED  BY <1>2, <1>3, <1>4, WroteKeepsContent

LEMMA FlushStep ==
  ASSUME File!WritableFileAssumption, FileInv, File!Flush \/ File!Close
  PROVE  FileInv'
<1>1. /\ fd_ /\ fd_' \in BOOLEAN /\ UNCHANGED <<synced, dir, entries, appended, accepted, promised>>
  BY DEF File!Flush, File!Close, FileInv, ContentInv
<1>2. PICK k \in 0..Len(buf_) : File!FlushBuffer(k)
  BY DEF File!Flush, File!Close
<1>3. Wrote(<<>>)
  <2>1. /\ file' = file \o File!Written(buf_, k) /\ buf_' = <<>>
        /\ failed' = (failed \/ k < Len(buf_))
    BY <1>2 DEF File!FlushBuffer
  <2>2. failed \in BOOLEAN /\ buf_ \in Seq(Nat)
    BY DEF FileInv, ContentInv
  <2>3. ~(k < Len(buf_)) => k = Len(buf_)
    BY <2>2
  <2>4. failed' \in BOOLEAN /\ (failed => failed') /\ (~failed' => k = Len(buf_))
    BY <2>1, <2>2, <2>3, Zenon
  <2>. QED  BY <2>1, <2>4, FlushWrites DEF FileInv
<1>4. ContentInv' /\ Pre(promised, file') /\ Len(file) <= Len(file')
  BY <1>1, <1>3, NothingAppended DEF FileInv
<1>5. PromiseInv'
  BY <1>1, <1>4 DEF FileInv, PromiseInv, ContentInv
<1>6. NamesInv'
  BY <1>1 DEF FileInv, NamesInv
<1>. QED  BY <1>4, <1>5, <1>6 DEF FileInv

LEMMA AppendStep ==
  ASSUME File!WritableFileAssumption, FileInv, NEW n \in 0..MaxAppend, File!Append_(n)
  PROVE  FileInv'
<1>1. /\ fd_ /\ fd_' = fd_ /\ UNCHANGED <<synced, entries, promised>>
      /\ appended' = appended + n /\ n \in Nat
  BY DEF File!Append_, File!WritableFileAssumption
<1>2. PICK d \in Seq(Nat) :
        /\ Len(d) = n /\ d = [i \in 1..n |-> appended + i]
        /\ accepted' = accepted \o d /\ Wrote(d)
  BY AppendWrites DEF FileInv
<1>3. \A i \in 1..n : d[i] = appended + i
  BY <1>2
<1>4. ContentInv' /\ Pre(promised, file') /\ Len(file) <= Len(file')
  <2>1. fd_' \in BOOLEAN /\ (fd_' => fd_)
    BY <1>1
  <2>2. Len(d) = n /\ accepted' = accepted \o d /\ Wrote(d)
    BY <1>2
  <2>. QED  BY <1>1, <1>3, <2>1, <2>2, WroteKeepsContent DEF FileInv
<1>5. PromiseInv'
  BY <1>1, <1>4 DEF FileInv, PromiseInv, ContentInv
<1>6. NamesInv'
  <2>1. dir' = IF is_manifest_ THEN dir \cup File!Range(d) ELSE dir
    BY <1>2 DEF File!Append_
  <2>2. File!Range(d) = Names(d)
    BY DEF File!Range, Names
  <2>3. accepted \in Seq(Nat)
    BY DEF FileInv, ContentInv
  <2>4. Names(accepted \o d) \subseteq Names(accepted) \cup Names(d)
    <3>1. ASSUME NEW i \in DOMAIN (accepted \o d)
          PROVE  (accepted \o d)[i] \in Names(accepted) \cup Names(d)
      <4>1. i \in 1..Len(accepted) + Len(d)
        BY <2>3
      <4>2. CASE i <= Len(accepted)
        <5>1. i \in 1..Len(accepted)
          BY <2>3, <4>1, <4>2
        <5>2. (accepted \o d)[i] = accepted[i] /\ i \in DOMAIN accepted
          BY <2>3, <5>1
        <5>. QED  BY <5>2 DEF Names
      <4>3. CASE ~(i <= Len(accepted))
        <5>1. i - Len(accepted) \in 1..Len(d)
          BY <2>3, <4>1, <4>3
        <5>2. i \in Len(accepted) + 1..Len(accepted) + Len(d)
          BY <2>3, <4>1, <4>3
        <5>3. (accepted \o d)[i] = d[i - Len(accepted)]
          BY <2>3, <5>2, CatFacts
        <5>4. i - Len(accepted) \in DOMAIN d
          BY <5>1
        <5>. QED  BY <5>3, <5>4 DEF Names
      <4>. QED  BY <4>2, <4>3
    <3>. QED  BY <3>1 DEF Names
  <2>5. Names(accepted') \subseteq Names(accepted) \cup Names(d)
    BY <1>2, <2>4
  <2>. QED  BY <1>1, <2>1, <2>2, <2>5 DEF FileInv, NamesInv
<1>. QED  BY <1>4, <1>5, <1>6 DEF FileInv

\* Sync: the whole file is promised, and a manifest's directory is synced before it.
LEMMA SyncStep ==
  ASSUME File!WritableFileAssumption, FileInv, File!Sync
  PROVE  FileInv'
<1>1. /\ fd_ /\ fd_' = fd_ /\ UNCHANGED <<dir, appended, accepted>>
      /\ entries' = IF is_manifest_ THEN dir ELSE entries
      /\ synced' = Len(file') /\ promised' = IF failed THEN promised ELSE accepted
      /\ file' = file \o File!Written(buf_, Len(buf_)) /\ buf_' = <<>>
      /\ failed' = (failed \/ Len(buf_) < Len(buf_))
  BY DEF File!Sync, File!SyncDirIfManifest, File!FlushBuffer
<1>2. failed \in BOOLEAN /\ fd_ \in BOOLEAN /\ buf_ \in Seq(Nat) /\ file \in Seq(Nat)
  BY DEF FileInv, ContentInv
<1>3. failed' = failed
  <2>1. ~(Len(buf_) < Len(buf_))
    BY <1>2
  <2>. QED  BY <1>1, <1>2, <2>1, Zenon
<1>4. Wrote(<<>>)
  <2>1. Len(buf_) \in 0..Len(buf_)
    BY <1>2
  <2>2. failed' \in BOOLEAN /\ (failed => failed')
    BY <1>2, <1>3
  <2>. QED  BY <1>1, <2>1, <2>2, FlushWrites DEF FileInv
<1>5. ContentInv' /\ Pre(promised, file') /\ Len(file) <= Len(file')
  BY <1>1, <1>2, <1>4, NothingAppended DEF FileInv
<1>6. ~failed => file' = accepted
  <2>1. ~failed' /\ fd_' => file' \o buf_' = accepted'
    BY <1>5 DEF ContentInv
  <2>2. file' \in Seq(Nat)
    BY <1>5 DEF ContentInv
  <2>3. file' \o <<>> = file'
    BY <2>2
  <2>4. ~failed => file' \o <<>> = accepted
    BY <1>1, <1>3, <2>1
  <2>. QED  BY <2>3, <2>4
<1>7. PromiseInv'
  <2>1. CASE failed
    <3>1. promised' = promised /\ file' \in Seq(Nat)
      BY <1>1, <1>5, <2>1 DEF ContentInv
    <3>2. promised \in Seq(Nat) /\ Len(promised) <= Len(file')
      BY <1>5 DEF FileInv, PromiseInv, Pre
    <3>. QED  BY <1>1, <1>5, <3>1, <3>2 DEF PromiseInv
  <2>2. CASE ~failed
    <3>1. promised' = file' /\ file' \in Seq(Nat)
      BY <1>1, <1>5, <1>6, <2>2 DEF ContentInv
    <3>2. Pre(promised', file')
      BY <3>1, PreFacts
    <3>3. Len(file') \in Nat /\ Len(file') <= Len(file')
      BY <3>1
    <3>4. promised' \in Seq(Nat) /\ Len(promised') <= synced' /\ synced' \in Nat
          /\ synced' <= Len(file')
      BY <1>1, <3>1, <3>3
    <3>. QED  BY <3>2, <3>4 DEF PromiseInv
  <2>. QED  BY <2>1, <2>2
<1>8. NamesInv'
  BY <1>1 DEF FileInv, NamesInv
<1>. QED  BY <1>5, <1>7, <1>8 DEF FileInv

LEMMA SyncFailsStep ==
  ASSUME File!WritableFileAssumption, FileInv, File!SyncFails
  PROVE  FileInv'
<1>1. /\ fd_ /\ fd_' = fd_ /\ UNCHANGED <<synced, dir, appended, accepted, promised>>
      /\ failed' = TRUE /\ entries' \in {entries, IF is_manifest_ THEN dir ELSE entries}
  BY DEF File!SyncFails, File!SyncDirIfManifest
<1>2. Wrote(<<>>)
  <2>1. CASE UNCHANGED <<buf_, file>>
    <3>1. /\ file \in Seq(Nat) /\ buf_ \in Seq(Nat) /\ Len(buf_) <= BufferSize
          /\ file' = file /\ buf_' = buf_
      BY <2>1 DEF FileInv, ContentInv
    <3>2. buf_ \o <<>> = buf_ /\ Pre(file, file)
      BY <3>1, PreFacts
    <3>3. Pre(file \o buf_, file \o buf_)
      BY <3>1, CatFacts, PreFacts
    <3>. QED  BY <1>1, <3>1, <3>2, <3>3 DEF Wrote
  <2>2. CASE \E k \in 0..Len(buf_) : file' = file \o File!Written(buf_, k) /\ buf_' = <<>>
    <3>1. PICK k \in 0..Len(buf_) : file' = file \o File!Written(buf_, k) /\ buf_' = <<>>
      BY <2>2
    <3>2. failed' \in BOOLEAN /\ (failed => failed') /\ (~failed' => k = Len(buf_))
      BY <1>1
    <3>. QED  BY <3>1, <3>2, FlushWrites DEF FileInv
  <2>. QED  BY <2>1, <2>2 DEF File!SyncFails
<1>3. ContentInv' /\ Pre(promised, file') /\ Len(file) <= Len(file')
  <2>1. fd_' \in BOOLEAN /\ (fd_' => fd_)
    BY <1>1 DEF FileInv, ContentInv
  <2>. QED  BY <1>1, <1>2, <2>1, NothingAppended DEF FileInv
<1>4. PromiseInv'
  BY <1>1, <1>3 DEF FileInv, PromiseInv, ContentInv
<1>5. NamesInv'
  BY <1>1 DEF FileInv, NamesInv
<1>. QED  BY <1>3, <1>4, <1>5 DEF FileInv

\* A file that is opened, or one that a crash has cut, holds the start of what was there.
LEMMA StartKept ==
  ASSUME ContentInv, NEW f \in Seq(Nat), Pre(f, file)
  PROVE  /\ f \o <<>> = f /\ Increasing(f)
         /\ \A i \in 1..Len(f) : f[i] <= appended
<1>1. file \in Seq(Nat) /\ buf_ \in Seq(Nat) /\ file \o buf_ \in Seq(Nat)
  BY CatFacts DEF ContentInv
<1>2. Pre(f, file \o buf_)
  BY <1>1, PreFacts
<1>3. Increasing(f)
  BY <1>1, <1>2, PreFacts DEF ContentInv
<1>4. \A i \in 1..Len(f) : i \in 1..Len(file \o buf_) /\ f[i] = (file \o buf_)[i]
  BY <1>1, <1>2 DEF Pre
<1>5. \A i \in 1..Len(f) : f[i] <= appended
  BY <1>4 DEF ContentInv
<1>6. f \o <<>> = f
  OBVIOUS
<1>. QED  BY <1>3, <1>5, <1>6

LEMMA NewStep ==
  ASSUME File!WritableFileAssumption, FileInv, NEW keep \in BOOLEAN, File!New(keep)
  PROVE  FileInv'
<1>1. /\ fd_' = TRUE /\ failed' = FALSE /\ buf_' = <<>> /\ UNCHANGED <<dir, entries, appended>>
      /\ keep /\ is_manifest_ => File!Range(file) \subseteq dir
  BY DEF File!New
<1>2. file \in Seq(Nat) /\ appended \in Nat /\ BufferSize \in Nat
  BY DEF FileInv, ContentInv, File!WritableFileAssumption
<1>3. PICK f \in Seq(Nat) : f = file' /\ accepted' = f /\ Pre(f, file)
  <2>1. CASE keep
    <3>1. file' = file /\ accepted' = file
      BY <2>1 DEF File!New
    <3>2. Pre(file, file)
      BY <1>2, PreFacts
    <3>. QED  BY <1>2, <3>1, <3>2
  <2>2. CASE ~keep
    <3>1. file' = <<>> /\ accepted' = <<>>
      BY <2>2 DEF File!New
    <3>2. Pre(<<>>, file) /\ <<>> \in Seq(Nat)
      BY <1>2 DEF Pre
    <3>. QED  BY <3>1, <3>2
  <2>. QED  BY <2>1, <2>2
<1>4. f \o <<>> = f /\ Increasing(f) /\ \A i \in 1..Len(f) : f[i] <= appended
  BY <1>3, StartKept DEF FileInv
<1>5. ContentInv'
  <2>1. file' \o buf_' = f /\ buf_' \in Seq(Nat) /\ Len(buf_') = 0
    BY <1>1, <1>3, <1>4
  <2>2. /\ Increasing(file' \o buf_')
        /\ \A i \in 1..Len(file' \o buf_') : (file' \o buf_')[i] <= appended'
        /\ file' \o buf_' = accepted'
    BY <1>1, <1>3, <1>4, <2>1
  <2>3. Len(buf_') <= BufferSize
    BY <1>2, <2>1
  <2>4. /\ file' \in Seq(Nat) /\ accepted' \in Seq(Nat) /\ appended' \in Nat
        /\ failed' \in BOOLEAN /\ fd_' \in BOOLEAN
    BY <1>1, <1>2, <1>3
  <2>. QED  BY <2>1, <2>2, <2>3, <2>4, Zenon DEF ContentInv
<1>6. PromiseInv'
  <2>1. CASE keep
    <3>1. UNCHANGED <<file, synced, promised>>
      BY <2>1 DEF File!New
    <3>. QED  BY <3>1 DEF FileInv, PromiseInv
  <2>2. CASE ~keep
    <3>1. file' = <<>> /\ synced' = 0 /\ promised' = <<>>
      BY <2>2 DEF File!New
    <3>. QED  BY <3>1 DEF PromiseInv, Pre
  <2>. QED  BY <2>1, <2>2
<1>7. NamesInv'
  <2>1. CASE keep
    <3>1. UNCHANGED promised /\ accepted' = file
      BY <2>1 DEF File!New
    <3>2. is_manifest_ => Names(file) \subseteq dir
      BY <1>1, <2>1 DEF File!Range, Names
    <3>. QED  BY <1>1, <3>1, <3>2 DEF FileInv, NamesInv
  <2>2. CASE ~keep
    <3>1. accepted' = <<>> /\ promised' = <<>>
      BY <2>2 DEF File!New
    <3>2. Names(<<>>) = {}
      BY DEF Names
    <3>. QED  BY <1>1, <3>1, <3>2 DEF FileInv, NamesInv
  <2>. QED  BY <2>1, <2>2
<1>. QED  BY <1>5, <1>6, <1>7 DEF FileInv

LEMMA CrashStep ==
  ASSUME File!WritableFileAssumption, FileInv, File!Crash
  PROVE  FileInv'
<1>1. /\ fd_' = FALSE /\ buf_' = <<>> /\ UNCHANGED <<appended, accepted, promised, failed>>
      /\ entries \subseteq entries' /\ dir' = entries'
  BY DEF File!Crash
<1>2. PICK n \in synced..Len(file) : file' = SubSeq(file, 1, n) /\ synced' = n
  BY DEF File!Crash
<1>3. /\ file \in Seq(Nat) /\ synced \in Nat /\ synced <= Len(file) /\ appended \in Nat
      /\ promised \in Seq(Nat) /\ Len(promised) <= synced /\ Pre(promised, file)
      /\ BufferSize \in Nat /\ accepted \in Seq(Nat) /\ failed \in BOOLEAN
  BY DEF FileInv, ContentInv, PromiseInv, File!WritableFileAssumption
<1>4. n \in 0..Len(file) /\ synced <= n
  BY <1>3
<1>5. PICK f \in Seq(Nat) : f = file' /\ Len(f) = n /\ \A i \in 1..n : f[i] = file[i]
  <2>1. /\ SubSeq(file, 1, n) \in Seq(Nat) /\ Len(SubSeq(file, 1, n)) = n
        /\ \A i \in 1..n : SubSeq(file, 1, n)[i] = file[i]
    BY <1>3, <1>4, CutFacts
  <2>. QED  BY <1>2, <2>1
<1>6. Pre(f, file)
  BY <1>3, <1>4, <1>5 DEF Pre
<1>7. f \o <<>> = f /\ Increasing(f) /\ \A i \in 1..Len(f) : f[i] <= appended
  BY <1>6, StartKept DEF FileInv
<1>8. ContentInv'
  <2>1. file' \o buf_' = f /\ buf_' \in Seq(Nat) /\ Len(buf_') = 0
    BY <1>1, <1>5, <1>7
  <2>2. /\ Increasing(file' \o buf_')
        /\ \A i \in 1..Len(file' \o buf_') : (file' \o buf_')[i] <= appended'
    BY <1>1, <1>5, <1>7, <2>1
  <2>3. Len(buf_') <= BufferSize
    BY <1>3, <2>1
  <2>4. /\ file' \in Seq(Nat) /\ accepted' \in Seq(Nat) /\ appended' \in Nat
        /\ failed' \in BOOLEAN /\ fd_' \in BOOLEAN /\ ~fd_'
    BY <1>1, <1>3, <1>5
  <2>. QED  BY <2>1, <2>2, <2>3, <2>4, Zenon DEF ContentInv
<1>9. PromiseInv'
  <2>0. Len(promised) \in Nat /\ n \in Nat /\ Len(promised) <= n
    BY <1>3, <1>4
  <2>1. Len(promised) <= n /\ Pre(promised, f)
    <3>1. \A i \in 1..Len(promised) : promised[i] = file[i] /\ i \in 1..n
      BY <1>3, <2>0 DEF Pre
    <3>2. \A i \in 1..Len(promised) : promised[i] = f[i]
      BY <1>5, <3>1
    <3>. QED  BY <1>5, <2>0, <3>2 DEF Pre
  <2>. QED  BY <1>1, <1>2, <1>3, <1>4, <1>5, <2>1 DEF PromiseInv
<1>10. NamesInv'
  BY <1>1 DEF FileInv, NamesInv
<1>. QED  BY <1>8, <1>9, <1>10 DEF FileInv

\* The invariant says what the file promises.
LEMMA FileInvMeans ==
  ASSUME FileInv
  PROVE  File!FileIsKept
<1>1. /\ file \in Seq(Nat) /\ buf_ \in Seq(Nat) /\ promised \in Seq(Nat)
      /\ Pre(promised, file)
  BY DEF FileInv, ContentInv, PromiseInv
<1>2. File!NoSilentLoss
  BY DEF FileInv, ContentInv, File!NoSilentLoss
<1>3. File!NoDuplicates
  <2>1. Pre(file, file)
    BY <1>1, PreFacts
  <2>2. Increasing(file)
    BY <1>1, <2>1, StartKept DEF FileInv
  <2>3. DOMAIN file = 1..Len(file)
    BY <1>1
  <2>. QED  BY <2>2, <2>3 DEF Increasing, File!NoDuplicates
<1>4. File!SyncIsDurable
  <2>1. Len(promised) \in 0..Len(file) /\ \A i \in 1..Len(promised) : promised[i] = file[i]
    BY <1>1 DEF Pre
  <2>2. PICK start \in Seq(Nat) : /\ start = SubSeq(file, 1, Len(promised))
                                  /\ Len(start) = Len(promised)
                                  /\ \A i \in 1..Len(promised) : start[i] = file[i]
    BY <1>1, <2>1, CutFacts
  <2>3. start = promised
    BY <1>1, <2>1, <2>2, SeqEqual
  <2>4. SubSeq(promised, 1, Len(promised)) = promised
    BY <1>1, CutFacts
  <2>. QED  BY <1>1, <2>1, <2>2, <2>3, <2>4 DEF File!SyncIsDurable, File!IsPrefix
<1>5. File!SyncedNamesAreDurable
  BY DEF FileInv, NamesInv, Names, File!SyncedNamesAreDurable, File!Range
<1>. QED  BY <1>2, <1>3, <1>4, <1>5 DEF File!FileIsKept

\* FileIsKept, for a buffer and appends of any size: until an operation reports an error,
\* the file and the buffer hold what was appended, once and in order; what was there when
\* Sync returned OK survives any later error or crash; and then the directory entries of
\* the tables that a manifest names survive as well (PosixWritableFile).
THEOREM FilesAreKept ==
  ASSUME File!WritableFileAssumption
  PROVE  File!Spec => []File!FileIsKept
<1>1. File!Init => FileInv
  <2>1. Names(<<>>) = {} /\ <<>> \o <<>> = <<>> /\ Len(<<>>) = 0
    BY DEF Names
  <2>2. <<>> \in Seq(Nat) /\ 1..0 = {} /\ BufferSize \in Nat /\ 0 <= BufferSize
    BY DEF File!WritableFileAssumption
  <2>3. Increasing(<<>>) /\ Pre(<<>>, <<>>)
    BY <2>1, <2>2 DEF Increasing, Pre
  <2>. SUFFICES ASSUME File!Init PROVE FileInv
    OBVIOUS
  <2>4. /\ fd_ = FALSE /\ buf_ = <<>> /\ file = <<>> /\ synced = 0 /\ dir = {} /\ entries = {}
        /\ appended = 0 /\ accepted = <<>> /\ promised = <<>> /\ failed = FALSE
    BY DEF File!Init
  <2>5. ContentInv
    BY <2>1, <2>2, <2>3, <2>4 DEF ContentInv
  <2>6. PromiseInv /\ NamesInv
    BY <2>1, <2>2, <2>3, <2>4 DEF PromiseInv, NamesInv
  <2>. QED  BY <2>5, <2>6 DEF FileInv
<1>2. ASSUME FileInv, [File!Next]_(File!vars) PROVE FileInv'
  <2>1. CASE UNCHANGED File!vars
    BY <1>2, <2>1 DEF File!vars, FileInv, ContentInv, PromiseInv, NamesInv, Pre, Increasing, Names
  <2>2. CASE File!Next
    BY <1>2, <2>2, NewStep, AppendStep, FlushStep, SyncStep, SyncFailsStep, CrashStep DEF File!Next
  <2>. QED  BY <1>2, <2>1, <2>2
<1>3. FileInv /\ [File!Next]_(File!vars) => FileInv'
  BY <1>2
<1>4. FileInv => File!FileIsKept
  BY FileInvMeans
<1>. QED  BY <1>1, <1>3, <1>4, PTL DEF File!Spec

-------------------------------------------------------------------------------
(* The background thread *)

\* The items 1..n in order
Items(s, n) == s \in Seq(Nat) /\ Len(s) = n /\ \A i \in 1..n : s[i] = i

\* What is done, what runs and what waits, and that nothing runs but on the thread
ScheduleInv ==
  /\ scheduled \in Nat
  /\ done \in Seq(Nat) /\ current \in Seq(Nat) /\ background_work_queue_ \in Seq(Nat)
  /\ thread # "running" => current = <<>>
  /\ ~started_background_thread_ => thread = "none"
  /\ Items(done \o current \o background_work_queue_, scheduled)

LEMMA ItemsIsRange ==
  ASSUME NEW s \in Seq(Nat), NEW n \in Nat
  PROVE  Items(s, n) <=> s = [i \in 1..n |-> i]
<1>1. ASSUME s = [i \in 1..n |-> i] PROVE Items(s, n)
  <2>1. DOMAIN s = 1..n
    BY <1>1
  <2>2. Len(s) = n
    BY <2>1, LenProperties
  <2>. QED BY <1>1, <2>2 DEF Items
<1>2. ASSUME Items(s, n) PROVE s = [i \in 1..n |-> i]
  <2>1. s = [i \in DOMAIN s |-> s[i]] /\ DOMAIN s = 1..n
    BY <1>2 DEF Items
  <2>. QED BY <1>2, <2>1 DEF Items
<1>. QED BY <1>1, <1>2

LEMMA AppendsItem ==
  ASSUME NEW a \in Seq(Nat), NEW b \in Seq(Nat), NEW c \in Seq(Nat), NEW n \in Nat,
         Items(a \o b \o c, n)
  PROVE  Items(a \o b \o Append(c, n + 1), n + 1)
<1>1. a \o b \in Seq(Nat)
  BY ConcatProperties
<1>2. PICK s \in Seq(Nat) : s = a \o b
  BY <1>1
<1>3. s \o c \in Seq(Nat) /\ Len(s \o c) = n /\ \A i \in 1..n : (s \o c)[i] = i
  BY <1>2 DEF Items
<1>4. PICK t \in Seq(Nat) : t = s \o c
  BY <1>3
<1>5. s \o Append(c, n + 1) = Append(t, n + 1)
  BY <1>4
<1>6. Len(t) = n /\ \A i \in 1..n : t[i] = i
  BY <1>3, <1>4
<1>7. Items(Append(t, n + 1), n + 1)
  BY <1>6 DEF Items
<1>. QED BY <1>2, <1>5, <1>7

LEMMA TakesFirst ==
  ASSUME NEW a \in Seq(Nat), NEW c \in Seq(Nat), c # <<>>
  PROVE  a \o <<>> \o c = a \o <<Head(c)>> \o Tail(c)
BY SMT

\* Nothing is lost, run twice or overtaken between Schedule and the end of its function,
\* whoever schedules what, for any number of items.
THEOREM WorkRunsInOrder == Background!Spec => []Background!InOrder
<1>1. Background!Init => ScheduleInv
  <2>1. Items(<<>> \o <<>> \o <<>>, 0)
    BY DEF Items
  <2>. QED BY <2>1 DEF Background!Init, ScheduleInv
<1>2. ScheduleInv /\ [Background!Next]_(Background!vars) => ScheduleInv'
  <2>. SUFFICES ASSUME ScheduleInv, [Background!Next]_(Background!vars) PROVE ScheduleInv'
    OBVIOUS
  <2>1. CASE Background!Schedule
    <3>1. /\ scheduled' = scheduled + 1 /\ UNCHANGED <<current, done>>
          /\ background_work_queue_' = Append(background_work_queue_, scheduled + 1)
      BY <2>1 DEF Background!Schedule
    <3>2. Items(done \o current \o Append(background_work_queue_, scheduled + 1), scheduled + 1)
      BY AppendsItem DEF ScheduleInv
    <3>3. Items(done \o current \o background_work_queue_, scheduled)'
      BY <3>1, <3>2
    <3>4. thread' # "running" => current' = <<>>
      BY <2>1 DEF Background!Schedule, ScheduleInv
    <3>5. started_background_thread_'
      BY <2>1 DEF Background!Schedule
    <3>. QED BY <3>5, <3>1, <3>3, <3>4 DEF ScheduleInv
  <2>2. CASE Background!Take
    <3>1. CASE background_work_queue_ = <<>>
      BY <2>2, <3>1 DEF Background!Take, ScheduleInv
    <3>2. CASE background_work_queue_ # <<>>
      <4>1. /\ current = <<>> /\ thread' = "running" /\ UNCHANGED <<done, scheduled>>
            /\ current' = <<Head(background_work_queue_)>>
            /\ background_work_queue_' = Tail(background_work_queue_)
        BY <2>2, <3>2 DEF Background!Take, ScheduleInv
      <4>2. /\ <<Head(background_work_queue_)>> \in Seq(Nat)
            /\ Tail(background_work_queue_) \in Seq(Nat)
        BY <3>2 DEF ScheduleInv
      <4>3. done \o <<>> \o background_work_queue_
              = done \o <<Head(background_work_queue_)>> \o Tail(background_work_queue_)
        BY <3>2, TakesFirst DEF ScheduleInv
      <4>4. Items(done \o current \o background_work_queue_, scheduled)'
        BY <4>1, <4>3 DEF ScheduleInv
      <4>5. started_background_thread_'
        BY <2>2 DEF Background!Take, ScheduleInv
      <4>. QED BY <4>1, <4>2, <4>4, <4>5 DEF ScheduleInv
    <3>. QED BY <3>1, <3>2
  <2>3. CASE Background!WakeUp
    BY <2>3 DEF Background!WakeUp, ScheduleInv
  <2>4. CASE Background!Finish
    BY <2>4 DEF Background!Finish, ScheduleInv
  <2>5. CASE UNCHANGED Background!vars
    BY <2>5 DEF Background!vars, ScheduleInv
  <2>. QED BY <2>1, <2>2, <2>3, <2>4, <2>5 DEF Background!Next
<1>3. ScheduleInv => Background!InOrder
  <2>. SUFFICES ASSUME ScheduleInv PROVE Background!InOrder
    OBVIOUS
  <2>1. done \o current \o background_work_queue_ \in Seq(Nat) /\ scheduled \in Nat
    BY DEF ScheduleInv, Items
  <2>2. PICK s \in Seq(Nat) : s = done \o current \o background_work_queue_
    BY <2>1
  <2>3. Items(s, scheduled)
    BY <2>2 DEF ScheduleInv
  <2>. QED BY <2>1, <2>2, <2>3, ItemsIsRange DEF Background!InOrder
<1>. QED BY <1>1, <1>2, <1>3, PTL DEF Background!Spec
-------------------------------------------------------------------------------
(* DestroyDB *)

\* Where a process is in DestroyDB, where it has LOCK open, and where it has locked it
Destroying == {"listed", "locking", "deleting", "unlocked"}
HasOpen == {"opening", "open", "locking", "deleting"}
HasLocked == {"open", "deleting"}

DestroyTypes ==
  /\ proc_pc \in [Processes -> {"idle"} \cup Destroying \cup HasOpen]
  /\ lock_fd \in [Processes -> 0..MaxInodes]
  /\ lock_owner \in [1..MaxInodes -> Processes \cup {Tool!Nobody}]
  /\ inodes \in 0..MaxInodes /\ lockname \in 0..MaxInodes /\ destroys \in 0..1

\* Until DestroyDB has removed the name LOCK there is one file of that name, and it is
\* the one that everybody has open.
DestroyInv ==
  /\ DestroyTypes
  /\ \A p \in Processes : proc_pc[p] \in Destroying => destroys = 1
  /\ \A p, q \in Processes : proc_pc[p] \in Destroying /\ proc_pc[q] \in Destroying => p = q
  /\ \A p \in Processes : proc_pc[p] \in HasOpen => lock_fd[p] # 0
  /\ \A p \in Processes : proc_pc[p] \in HasLocked => lock_owner[lock_fd[p]] = p
  /\ (destroys = 0 \/ \E p \in Processes : proc_pc[p] \in Destroying) =>
       /\ lockname = inodes /\ inodes <= 1
       /\ \A p \in Processes : proc_pc[p] \in HasOpen => lock_fd[p] = lockname

LEMMA DestroyStep ==
  ASSUME Tool!DestroyAssumption, MaxDestroys <= 1, DestroyInv, NEW p \in Processes,
         \/ Tool!OpenDB(p) \/ Tool!Opened(p) \/ Tool!NotOpened(p) \/ Tool!Work(p) \/ Tool!CloseDB(p)
         \/ Tool!List(p) \/ Tool!DestroyOpensLock(p) \/ Tool!DestroyLocks(p) \/ Tool!DestroyRefused(p)
         \/ \E n \in FileNames : Tool!DeleteNext(p, n)
         \/ Tool!DestroyUnlocks(p) \/ Tool!DeleteLockName(p)
  PROVE  DestroyInv'
<1>. USE DEF DestroyInv, DestroyTypes, Destroying, HasOpen, HasLocked, Tool!Goto, Tool!Nobody,
             Tool!NoInode, Tool!DestroyAssumption
<1>1. CASE Tool!OpenDB(p)
  BY <1>1 DEF Tool!OpenDB, Tool!OpenLockFile
<1>2. CASE Tool!Opened(p)
  BY <1>2 DEF Tool!Opened, Tool!Free, Tool!SetLock
<1>3. CASE Tool!NotOpened(p)
  BY <1>3 DEF Tool!NotOpened, Tool!CloseFile
<1>4. CASE Tool!Work(p)
  BY <1>4 DEF Tool!Work
<1>5. CASE Tool!CloseDB(p)
  BY <1>5 DEF Tool!CloseDB, Tool!UnlockFile, Tool!CloseFile
<1>6. CASE Tool!List(p)
  BY <1>6 DEF Tool!List
<1>7. CASE Tool!DestroyOpensLock(p)
  BY <1>7 DEF Tool!DestroyOpensLock, Tool!OpenLockFile
<1>8. CASE Tool!DestroyLocks(p)
  BY <1>8 DEF Tool!DestroyLocks, Tool!Free, Tool!SetLock
<1>9. CASE Tool!DestroyRefused(p)
  BY <1>9 DEF Tool!DestroyRefused, Tool!CloseFile
<1>10. CASE \E n \in FileNames : Tool!DeleteNext(p, n)
  BY <1>10 DEF Tool!DeleteNext
<1>11. CASE Tool!DestroyUnlocks(p)
  BY <1>11 DEF Tool!DestroyUnlocks, Tool!UnlockFile, Tool!CloseFile
<1>12. CASE Tool!DeleteLockName(p)
  BY <1>12 DEF Tool!DeleteLockName
<1>. QED BY <1>1, <1>2, <1>3, <1>4, <1>5, <1>6, <1>7, <1>8, <1>9, <1>10, <1>11, <1>12

\* DestroyDB deletes no file while a process has the database open, for any number of
\* processes and files.  After one DestroyDB there may be two files of the name LOCK: the
\* theorem is about the first.
THEOREM DestroyIsSafe ==
  ASSUME Tool!DestroyAssumption, MaxDestroys <= 1
  PROVE  Tool!Spec => Tool!DestroySparesOpen
<1>1. Tool!Init => DestroyInv
  BY DEF Tool!Init, DestroyInv, DestroyTypes, Destroying, HasOpen, HasLocked, Tool!Nobody,
         Tool!NoInode, Tool!DestroyAssumption
<1>2. DestroyInv /\ [Tool!Next]_(Tool!vars) => DestroyInv'
  <2>1. ASSUME DestroyInv, Tool!Next PROVE DestroyInv'
    BY <2>1, DestroyStep DEF Tool!Next
  <2>2. ASSUME DestroyInv, UNCHANGED Tool!vars PROVE DestroyInv'
    BY <2>2 DEF DestroyInv, DestroyTypes, Tool!vars
  <2>. QED BY <2>1, <2>2
<1>3. DestroyInv /\ [Tool!Next]_(Tool!vars) => [Tool!SparesOpen]_(Tool!vars)
  <2>1. ASSUME DestroyInv PROVE Tool!SparesOpen
    <3>1. SUFFICES ASSUME NEW p \in Processes, proc_pc[p] = "deleting", NEW q \in Processes,
                          proc_pc[q] = "open"
                   PROVE  FALSE
      BY DEF Tool!SparesOpen, Tool!OpenIn
    <3>2. lock_fd[p] = lockname /\ lock_fd[q] = lockname
      BY <2>1, <3>1 DEF DestroyInv, Destroying, HasOpen
    <3>3. lock_owner[lock_fd[p]] = p /\ lock_owner[lock_fd[q]] = q
      BY <2>1, <3>1 DEF DestroyInv, HasLocked
    <3>. QED BY <3>1, <3>2, <3>3
  <2>. QED BY <2>1
<1>. QED BY <1>1, <1>2, <1>3, PTL DEF Tool!Spec, Tool!DestroySparesOpen
===============================================================================

-------------------------------- MODULE Destroy --------------------------------
(***************************************************************************)
(* DestroyDB (db/db_impl.cc) beside processes that open, use and close the *)
(* same database.  A lock is on a file, not on its name: DestroyDB removes *)
(* the name LOCK, and the next process to open LOCK makes another file.    *)
(***************************************************************************)
EXTENDS Integers, FiniteSets

CONSTANTS
  Processes,    \* each with one thread; FileLocks has several
  Names,        \* of the files of the database, LOCK excluded
  MaxInodes,    \* LOCK files that are ever made
  MaxDestroys   \* calls of DestroyDB

Nobody == "nobody"
NoInode == 0

DestroyAssumption ==
  MaxInodes \in Nat \ {0} /\ MaxDestroys \in Nat /\ Nobody \notin Processes

VARIABLES
  lockname,   \* the file that LOCK names
  inodes,     \* LOCK files made so far
  owner,      \* the process that has the lock on each of them
  files,      \* names in the directory
  pc, fd,     \* of a process; the LOCK file it has open
  listed,     \* filenames in DestroyDB, those not looked at yet
  result,     \* of DestroyDB
  destroys

vars == <<lockname, inodes, owner, files, pc, fd, listed, result, destroys>>

Init ==
  /\ lockname = NoInode /\ inodes = 0 /\ owner = [i \in 1..MaxInodes |-> Nobody] /\ files = {}
  /\ pc = [p \in Processes |-> "idle"] /\ fd = [p \in Processes |-> NoInode]
  /\ listed = [p \in Processes |-> {}]
  /\ result = [p \in Processes |-> "ok"] /\ destroys = 0

Goto(p, place) == pc' = [pc EXCEPT ![p] = place]

-------------------------------------------------------------------------------
(* LockFile and UnlockFile *)

\* open with O_CREAT
OpenLockFile(p, from, to) ==
  /\ pc[p] = from /\ Goto(p, to)
  /\ IF lockname # NoInode
     THEN fd' = [fd EXCEPT ![p] = lockname] /\ UNCHANGED <<lockname, inodes>>
     ELSE /\ inodes < MaxInodes /\ inodes' = inodes + 1
          /\ lockname' = inodes' /\ fd' = [fd EXCEPT ![p] = inodes']
  /\ UNCHANGED <<owner, files, listed, result, destroys>>

Free(p) == owner[fd[p]] = Nobody
SetLock(p) == owner' = [owner EXCEPT ![fd[p]] = p]
CloseFile(p) == fd' = [fd EXCEPT ![p] = NoInode]
UnlockFile(p) == owner' = [owner EXCEPT ![fd[p]] = Nobody] /\ CloseFile(p)

-------------------------------------------------------------------------------
(* DB::Open, work on the database, and ~DBImpl *)

OpenDB(p) == OpenLockFile(p, "idle", "opening")
Opened(p) ==
  /\ pc[p] = "opening" /\ Free(p) /\ SetLock(p) /\ Goto(p, "open")
  /\ \E new \in SUBSET Names : files' = files \cup new
  /\ UNCHANGED <<lockname, inodes, fd, listed, result, destroys>>
NotOpened(p) ==
  /\ pc[p] = "opening" /\ ~Free(p) /\ CloseFile(p) /\ Goto(p, "idle")
  /\ UNCHANGED <<lockname, inodes, owner, files, listed, result, destroys>>

\* A file is made, or one that is not needed any more is deleted.
Work(p) ==
  /\ pc[p] = "open" /\ \E n \in Names : files' \in {files \cup {n}, files \ {n}}
  /\ UNCHANGED <<lockname, inodes, owner, pc, fd, listed, result, destroys>>

\* The process may also just end.
CloseDB(p) ==
  /\ pc[p] = "open" /\ UnlockFile(p) /\ Goto(p, "idle")
  /\ UNCHANGED <<lockname, inodes, files, listed, result, destroys>>

-------------------------------------------------------------------------------
(* DestroyDB *)

\* GetChildren; without a directory there is nothing to do.
List(p) ==
  /\ pc[p] = "idle" /\ destroys < MaxDestroys /\ (lockname # NoInode \/ files # {})
  /\ destroys' = destroys + 1 /\ Goto(p, "listed")
  /\ listed' = [listed EXCEPT ![p] = files] /\ result' = [result EXCEPT ![p] = "ok"]
  /\ UNCHANGED <<lockname, inodes, owner, files, fd>>

DestroyOpensLock(p) == OpenLockFile(p, "listed", "locking")

\* Variant: a database that is open is destroyed as well.
DestroyLocksAnyway(p) ==
  /\ pc[p] = "locking" /\ Goto(p, "deleting")
  /\ IF Free(p) THEN SetLock(p) ELSE UNCHANGED owner
  /\ UNCHANGED <<lockname, inodes, files, fd, listed, result, destroys>>

DestroyLocks(p) ==
  /\ pc[p] = "locking" /\ Free(p) /\ SetLock(p) /\ Goto(p, "deleting")
  /\ UNCHANGED <<lockname, inodes, files, fd, listed, result, destroys>>
DestroyRefused(p) ==
  /\ pc[p] = "locking" /\ ~Free(p) /\ CloseFile(p) /\ Goto(p, "idle")
  /\ result' = [result EXCEPT ![p] = "error"]
  /\ UNCHANGED <<lockname, inodes, owner, files, listed, destroys>>

\* The next name of the list: deleting it may fail, and does if it is not there.
DeleteNext(p, n) ==
  /\ pc[p] = "deleting" /\ n \in listed[p] /\ listed' = [listed EXCEPT ![p] = @ \ {n}]
  /\ \/ n \in files /\ files' = files \ {n} /\ UNCHANGED result
     \/ UNCHANGED files /\ result' = [result EXCEPT ![p] = "error"]
  /\ UNCHANGED <<lockname, inodes, owner, pc, fd, destroys>>

DestroyUnlocks(p) ==
  /\ pc[p] = "deleting" /\ listed[p] = {} /\ UnlockFile(p) /\ Goto(p, "unlocked")
  /\ UNCHANGED <<lockname, inodes, files, listed, result, destroys>>

\* DeleteFile(lockname), and DeleteDir, which fails while there is a file
DeleteLockName(p) ==
  /\ pc[p] = "unlocked" /\ Goto(p, "idle") /\ lockname' = NoInode
  /\ UNCHANGED <<inodes, owner, files, fd, listed, result, destroys>>

Next ==
  \E p \in Processes :
    \/ OpenDB(p) \/ Opened(p) \/ NotOpened(p) \/ Work(p) \/ CloseDB(p)
    \/ List(p) \/ DestroyOpensLock(p) \/ DestroyLocks(p) \/ DestroyRefused(p)
    \/ \E n \in Names : DeleteNext(p, n)
    \/ DestroyUnlocks(p) \/ DeleteLockName(p)

Spec == Init /\ [][Next]_vars

-------------------------------------------------------------------------------
(* Properties *)

OpenIn == {p \in Processes : pc[p] = "open"}

SparesOpen ==
  \A p \in Processes : listed'[p] # listed[p] /\ pc[p] = "deleting" /\ files' # files => OpenIn = {}

\* DestroyDB deletes no file of a database that a process has open.
DestroySparesOpen == [][SparesOpen]_vars

===============================================================================

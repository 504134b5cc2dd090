-------------------------------- MODULE FileLocks --------------------------------
(***************************************************************************)
(* LockFile and UnlockFile (util/env_posix.cc) on the LOCK file of one     *)
(* database, called by the threads of several processes.  fcntl locks      *)
(* belong to a process, which loses them as soon as it closes any          *)
(* descriptor of the file, or ends.                                        *)
(***************************************************************************)
EXTENDS Integers, FiniteSets

CONSTANTS Processes, Threads   \* every process has these threads

VARIABLES
  owner,    \* the processes that have the fcntl lock: one at most
  locks_,   \* the processes whose PosixLockTable holds the file
  pc,       \* [process -> [thread -> where it is]]
  failed    \* processes where an unlock failed

vars == <<owner, locks_, pc, failed>>

Init ==
  /\ owner = {} /\ locks_ = {} /\ failed = {}
  /\ pc = [p \in Processes |-> [t \in Threads |-> "idle"]]

Goto(p, t, place) == pc' = [pc EXCEPT ![p][t] = place]

\* What close does to the lock
CloseFd(p) == owner' = owner \ {p}

\* An open that fails changes nothing.
Open(p, t) ==
  /\ pc[p][t] = "idle" /\ Goto(p, t, "opened")
  /\ UNCHANGED <<owner, locks_, failed>>

\* locks_.Insert: "already held by process"
Insert(p, t) ==
  /\ pc[p][t] = "opened"
  /\ IF p \in locks_
     THEN Goto(p, t, "idle") /\ CloseFd(p) /\ UNCHANGED locks_
     ELSE Goto(p, t, "inserted") /\ locks_' = locks_ \cup {p} /\ UNCHANGED owner
  /\ UNCHANGED failed

\* Variant: a lock that another process has is taken for one's own.
LockIgnored(p, t) ==
  /\ pc[p][t] = "inserted" /\ Goto(p, t, "holding")
  /\ owner' = IF owner = {} THEN {p} ELSE owner
  /\ UNCHANGED <<locks_, failed>>

\* LockOrUnlock(fd, true)
Lock(p, t) ==
  /\ pc[p][t] = "inserted"
  /\ IF owner \subseteq {p}
     THEN Goto(p, t, "holding") /\ owner' = {p}
     ELSE Goto(p, t, "refused") /\ CloseFd(p)
  /\ UNCHANGED <<locks_, failed>>

Refused(p, t) ==
  /\ pc[p][t] = "refused" /\ Goto(p, t, "idle") /\ locks_' = locks_ \ {p}
  /\ UNCHANGED <<owner, failed>>

\* UnlockFile: LockOrUnlock(fd, false), locks_.Remove, close
Unlock(p, t) ==
  /\ pc[p][t] = "holding" /\ Goto(p, t, "unlocked") /\ owner' = owner \ {p}
  /\ UNCHANGED <<locks_, failed>>
UnlockFails(p, t) ==
  /\ pc[p][t] = "holding" /\ Goto(p, t, "idle") /\ failed' = failed \cup {p}
  /\ UNCHANGED <<owner, locks_>>
Remove(p, t) ==
  /\ pc[p][t] = "unlocked" /\ Goto(p, t, "closing") /\ locks_' = locks_ \ {p}
  /\ UNCHANGED <<owner, failed>>
Close(p, t) ==
  /\ pc[p][t] = "closing" /\ Goto(p, t, "idle") /\ CloseFd(p)
  /\ UNCHANGED <<locks_, failed>>

\* The process ends, and is started again.
Crash(p) ==
  /\ pc' = [pc EXCEPT ![p] = [t \in Threads |-> "idle"]]
  /\ owner' = owner \ {p} /\ locks_' = locks_ \ {p} /\ failed' = failed \ {p}

Next ==
  \E p \in Processes :
    \/ Crash(p)
    \/ \E t \in Threads :
         \/ Open(p, t) \/ Insert(p, t) \/ Lock(p, t) \/ Refused(p, t)
         \/ Unlock(p, t) \/ UnlockFails(p, t) \/ Remove(p, t) \/ Close(p, t)

Spec == Init /\ [][Next]_vars

-------------------------------------------------------------------------------
(* Properties *)

Holders == {h \in Processes \X Threads : pc[h[1]][h[2]] = "holding"}

\* "Used to prevent concurrent access to the same db by multiple processes": one thread of
\* one process at most has the database open.
OneHolder == Cardinality(Holders) <= 1

\* A process that does nothing with the file blocks nobody, itself included, unless an
\* unlock failed in it.
NoStuckLock ==
  \A p \in Processes \ failed : (\A t \in Threads : pc[p][t] = "idle") => p \notin owner \cup locks_

===============================================================================

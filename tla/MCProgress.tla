------------------------------ MODULE MCProgress ------------------------------
(*****************************************************************************)
(* What must happen in the end, for TLC: calls of the database that wait     *)
(* for each other and for the background thread, with and without faults;    *)
(* work for the background thread; searches in a memtable that grows; and    *)
(* the loops of a log reader and of an iterator.                             *)
(*                                                                           *)
(* A behaviour is one of one part.  Two parts are databases, one with the    *)
(* constants of the configuration, which has faults and crashes, and one     *)
(* with more threads and a manual compaction.  In the others the database    *)
(* stays as it was made, and the module of the part keeps its variables in   *)
(* the first of v1, v2, ... and leaves the others alone.                     *)
(*****************************************************************************)
EXTENDS DBImpl

CONSTANTS t3

VARIABLES part, v1, v2, v3, v4, v5, v6, v7, v8, v9, v10, v11, v12, v13, v14, v15

-------------------------------------------------------------------------------
Waits == INSTANCE DBImpl WITH Threads <- Threads \cup {t3}, kL0_StopWritesTrigger <- 1,
    MaxFaults <- 0, MaxCrashes <- 0, CompactRanges <- 1, Syncs <- {FALSE}
Work == INSTANCE EnvSchedule WITH MaxItems <- 2, started_background_thread_ <- v1,
    background_work_queue_ <- v2, thread <- v3, current <- v4, scheduled <- v5, done <- v6
List == INSTANCE SkipList WITH N <- 3, kMaxHeight <- 2, next_ <- v1, max_height_ <- v2,
    writer <- v3, prev <- v4, inserted <- v5, reader <- v6, node_ <- v7, seen <- v8
Log == INSTANCE LogFile WITH kBlockSize <- 5, kHeaderSize <- 2, Sizes <- {4}, MaxRecords <- 2,
    MaxFailures <- 0, MaxReads <- 2, InitialOffsets <- {0}, file <- v1, synced <- v2, sizes <- v3,
    acked <- v4, durable <- v5, failures <- v6, zeroed <- v7, phase <- v8, block_offset_ <- v9,
    left <- v10, begin <- v11, reader <- v12, returned <- v13, reports <- v14, reads <- v15
Iterator == INSTANCE DBIter WITH Keys <- {1, 2}, MaxSequence <- 3, sequence_ <- 2,
    Children <- {1, 2}, data <- v1, written <- v2, iter_ <- v3, direction_ <- v4, valid_ <- v5,
    saved_key_ <- v6, saved_value_ <- v7, pc <- v8, skip <- v9, at <- v10

ASSUME ProgressAssumption ==
  /\ DBAssumption /\ Waits!DBAssumption /\ Work!EnvScheduleAssumption
  /\ List!SkipListAssumption /\ Log!LogAssumption /\ Iterator!DBIterAssumption

-------------------------------------------------------------------------------
\* The variables that the part does not need
after6 == <<v7, v8, v9, v10, v11, v12, v13, v14, v15, vars>>
after8 == <<v9, v10, v11, v12, v13, v14, v15, vars>>
after10 == <<v11, v12, v13, v14, v15, vars>>
others == <<v1, v2, v3, v4, v5, v6, v7, v8, v9, v10, v11, v12, v13, v14, v15>>
allVars == <<vars, part, others>>

Unused6 == v7 = 0 /\ v8 = 0 /\ v9 = 0 /\ v10 = 0 /\ v11 = 0 /\ v12 = 0 /\ v13 = 0 /\ v14 = 0 /\ v15 = 0
Unused8 == v9 = 0 /\ v10 = 0 /\ v11 = 0 /\ v12 = 0 /\ v13 = 0 /\ v14 = 0 /\ v15 = 0
Unused10 == v11 = 0 /\ v12 = 0 /\ v13 = 0 /\ v14 = 0 /\ v15 = 0
Unused15 == v1 = 0 /\ v2 = 0 /\ v3 = 0 /\ v4 = 0 /\ v5 = 0 /\ v6 = 0 /\ Unused6

Rest6 == UNCHANGED <<part, after6>>
Rest8 == UNCHANGED <<part, after8>>
Rest10 == UNCHANGED <<part, after10>>
Rest15 == UNCHANGED <<part, vars>>
RestDB == UNCHANGED <<part, others>>

PartsInit ==
  \/ part = "waits" /\ Waits!Init /\ Unused15
  \/ part = "faults" /\ Init /\ Unused15
  \/ part = "schedule" /\ Init /\ Work!Init /\ Unused6
  \/ part = "skiplist" /\ Init /\ List!Init /\ Unused8
  \/ part = "log" /\ Init /\ Log!Init
  \/ part = "iterator" /\ Init /\ Iterator!Init /\ Unused10

PartsNext ==
  \/ part = "waits" /\ Waits!Next /\ RestDB
  \/ part = "faults" /\ Next /\ RestDB
  \/ part = "schedule" /\ Work!Next /\ Rest6
  \/ part = "skiplist" /\ List!Next /\ Rest8
  \/ part = "log" /\ Log!ReuseNext /\ Rest15
  \/ part = "iterator" /\ Iterator!Steps /\ Rest10

\* Every thread that can go on does so.  part never changes, so the fairness of all parts can
\* be stated together: threads of the application, the loop of a background thread, a search or
\* a call, and what the destructor and the thread that inserts into a memtable do.
PartsFairness ==
  /\ \A t \in Threads \cup {t3} :
       WF_allVars(\/ part = "waits" /\ Waits!ThreadStep(t) /\ RestDB
                  \/ part = "faults" /\ t # t3 /\ ThreadStep(t) /\ RestDB)
  /\ WF_allVars(\/ part = "waits" /\ Waits!BackgroundStep /\ RestDB
                \/ part = "faults" /\ BackgroundStep /\ RestDB
                \/ part = "schedule" /\ Work!Take /\ Rest6
                \/ part = "skiplist" /\ List!Search /\ Rest8
                \/ part = "log" /\ Log!Read /\ Rest15
                \/ part = "iterator" /\ Iterator!Step /\ Rest10)
  /\ WF_allVars(\/ part = "waits" /\ Waits!Closed /\ RestDB
                \/ part = "faults" /\ Closed /\ RestDB
                \/ part = "schedule" /\ Work!Finish /\ Rest6
                \/ part = "skiplist" /\ List!Insertion /\ Rest8)

PartsSpec == PartsInit /\ [][PartsNext]_allVars /\ PartsFairness

-------------------------------------------------------------------------------
\* While another thread inserts, a search reads no link that was not initialized, and it
\* passes over no key that was in the list when it began: it ends at the first key from
\* the target on, or the last before it, or at one inserted meanwhile that is closer.
SearchIsRight ==
  /\ [](part = "skiplist" => List!NoGarbage)
  /\ [][part = "skiplist" => List!SearchFinds]_allVars

\* Every call of Write and of CompactRange returns and ~DBImpl gets to its end: the writer at the
\* front is woken, whoever waits for the background thread is woken when it has made room, has
\* failed, or there is nothing more for it to do, and it notices shutting_down_.  No write that
\* returned ok is lost but to the faults that the database ignores: a log that it could not
\* append to or, when it is opened again, not read.
CallsReturn ==
  /\ [](WritesSurvive /\ OnlyFaultsLose)
  /\ \A t \in Threads \cup {t3} :
       (\/ part = "waits" /\ Waits!InCall(t)
        \/ part = "faults" /\ t # t3 /\ InCall(t))
         ~> (/\ part = "waits" => ~Waits!InCall(t)
             /\ part = "faults" /\ t # t3 => ~InCall(t))
  /\ (part \in {"waits", "faults"} /\ IsClosing) ~> IsClosed

\* Everything that is scheduled runs, in order and once: no wake-up is lost.
EverythingRuns ==
  /\ [](part = "schedule" => Work!InOrder)
  /\ \A i \in 1..2 : (part = "schedule" /\ Work!Scheduled(i)) ~> (part = "schedule" => Work!Done(i))

\* Every search in a memtable, every read of a log and every call of an iterator ends,
\* although writers go on.
LoopsEnd ==
  []<>(/\ part = "skiplist" => ~List!Searching
       /\ part = "log" => ~Log!Reading
       /\ part = "iterator" => ~Iterator!InCall)

===============================================================================

------------------------------- MODULE EnvSchedule -------------------------------
(***************************************************************************)
(* The background thread of PosixEnv (util/env_posix.cc): Schedule puts    *)
(* work into a queue and wakes the thread if it may be waiting.  A step is *)
(* one critical section, or one run of a work function.                    *)
(***************************************************************************)
EXTENDS Naturals, Sequences

CONSTANTS MaxItems   \* work items in all

EnvScheduleAssumption == MaxItems \in Nat

VARIABLES
  started_background_thread_,
  background_work_queue_,
  thread,      \* the background thread: "none", "ready", "waiting", "running"
  current,     \* the item that runs, as a sequence
  scheduled,   \* the number of items scheduled
  done         \* the items whose functions returned, in order

vars == <<started_background_thread_, background_work_queue_, thread, current, scheduled, done>>

Init ==
  /\ started_background_thread_ = FALSE /\ background_work_queue_ = <<>>
  /\ thread = "none" /\ current = <<>> /\ scheduled = 0 /\ done = <<>>

\* Variant: only a queue that already holds work makes the caller signal.
ScheduleNoSignal ==
  /\ scheduled < MaxItems /\ scheduled' = scheduled + 1
  /\ started_background_thread_' = TRUE
  /\ thread' = IF ~started_background_thread_ THEN "ready"
               ELSE IF background_work_queue_ # <<>> /\ thread = "waiting" THEN "ready" ELSE thread
  /\ background_work_queue_' = Append(background_work_queue_, scheduled + 1)
  /\ UNCHANGED <<current, done>>

\* Schedule, by any thread, the background thread's work function included
Schedule ==
  /\ scheduled < MaxItems /\ scheduled' = scheduled + 1
  /\ started_background_thread_' = TRUE
  /\ thread' = IF ~started_background_thread_ THEN "ready"
               ELSE IF background_work_queue_ = <<>> /\ thread = "waiting" THEN "ready" ELSE thread
  /\ background_work_queue_' = Append(background_work_queue_, scheduled + 1)
  /\ UNCHANGED <<current, done>>

\* BackgroundThreadMain: wait, or take the first item
Take ==
  /\ thread = "ready"
  /\ IF background_work_queue_ = <<>>
     THEN thread' = "waiting" /\ UNCHANGED <<background_work_queue_, current>>
     ELSE /\ thread' = "running" /\ current' = <<Head(background_work_queue_)>>
          /\ background_work_queue_' = Tail(background_work_queue_)
  /\ UNCHANGED <<started_background_thread_, scheduled, done>>

\* The condition variable may wake the thread without a signal.
WakeUp ==
  /\ thread = "waiting" /\ thread' = "ready"
  /\ UNCHANGED <<started_background_thread_, background_work_queue_, current, scheduled, done>>

\* The work function returns.
Finish ==
  /\ thread = "running" /\ thread' = "ready"
  /\ done' = done \o current /\ current' = <<>>
  /\ UNCHANGED <<started_background_thread_, background_work_queue_, scheduled>>

Next == Schedule \/ Take \/ WakeUp \/ Finish

\* The thread runs, and work functions return; nothing wakes it but signals.
Spec == Init /\ [][Next]_vars /\ WF_vars(Take) /\ WF_vars(Finish)

-------------------------------------------------------------------------------
(* Properties *)

\* Nothing is lost, run twice or overtaken between Schedule and the end of its function.
InOrder == done \o current \o background_work_queue_ = [i \in 1..scheduled |-> i]

\* The function that was scheduled as the i-th, and one that has run.
Scheduled(i) == scheduled >= i
Done(i) == Len(done) >= i

===============================================================================

--------------------------------- MODULE DBIter ---------------------------------
(***************************************************************************)
(* An iterator over a leveldb database: DBIter (db/db_iter.cc) over a      *)
(* MergingIterator (table/merger.cc) over the memtable and some tables.    *)
(* The memtable is live: entries with larger sequence numbers than the     *)
(* iterator's are inserted while it moves, between any two of its steps.   *)
(* One step is one call of the internal iterator.                          *)
(***************************************************************************)
EXTENDS Integers, Sequences, FiniteSets, FiniteSetsExt

CONSTANTS
  Keys,         \* user keys, 1..n
  MaxSequence,  \* entries in all
  sequence_,    \* the sequence number of the iterator
  Children      \* the children of the internal iterator, 1..n; 1 is the memtable

DBIterAssumption ==
  /\ Keys = 1..Cardinality(Keys) /\ Keys # {}
  /\ MaxSequence \in Nat /\ sequence_ \in 0..MaxSequence
  /\ Children = 1..Cardinality(Children) /\ Children # {}

VARIABLES
  data,       \* [child -> set of entries]
  written,    \* the largest sequence number there is
  iter_,      \* the MergingIterator: positions of the children, current_, direction_
  direction_, valid_, saved_key_, saved_value_,
  pc,         \* where the iterator is in the call it executes
  skip,       \* the skipping of FindNextUserEntry, the value_type of FindPrevUserEntry
  at          \* the key where the caller expects the iterator to be, 0 if nowhere

iterator == <<direction_, valid_, saved_key_, saved_value_>>
vars == <<data, written, iter_, iterator, pc, skip, at>>

None == [key |-> 0, seq |-> 0, type |-> "none"]
Entry(k, s, t) == [key |-> k, seq |-> s, type |-> t]
Before(a, b) == a.key < b.key \/ (a.key = b.key /\ a.seq > b.seq)

-------------------------------------------------------------------------------
(* The children: the first entry from e on, after e, and the last before e *)

FirstOf(S) == IF S = {} THEN None ELSE CHOOSE e \in S : \A d \in S \ {e} : Before(e, d)
LastOf(S) == IF S = {} THEN None ELSE CHOOSE e \in S : \A d \in S \ {e} : Before(d, e)
SeekIn(S, e) == FirstOf({d \in S : ~Before(d, e)})
NextIn(S, e) == FirstOf({d \in S : Before(e, d)})
PrevIn(S, e) == LastOf({d \in S : Before(d, e)})

-------------------------------------------------------------------------------
(* MergingIterator, as functions of its state m *)

Valid(m) == m.current_ # 0
Current(m) == IF Valid(m) THEN m.pos[m.current_] ELSE None

\* FindSmallest and FindLargest: of equal entries, the first child's and the last child's.
FindSmallest(pos) ==
  LET on == {i \in Children : pos[i] # None}
      best == {i \in on : \A j \in on : ~Before(pos[j], pos[i])}
  IN  [pos |-> pos, current_ |-> IF on = {} THEN 0 ELSE Min(best), direction_ |-> "forward"]
FindLargest(pos) ==
  LET on == {i \in Children : pos[i] # None}
      best == {i \in on : \A j \in on : ~Before(pos[i], pos[j])}
  IN  [pos |-> pos, current_ |-> IF on = {} THEN 0 ELSE Max(best), direction_ |-> "reverse"]

MergeSeekToFirst == FindSmallest([i \in Children |-> FirstOf(data[i])])
MergeSeekToLast == FindLargest([i \in Children |-> LastOf(data[i])])
MergeSeek(e) == FindSmallest([i \in Children |-> SeekIn(data[i], e)])

\* Variant: the other children stay where they are when the direction changes.
MergeNextUnsought(m) ==
  FindSmallest([m.pos EXCEPT ![m.current_] = NextIn(data[m.current_], @)])

\* Next: after a step back, the other children are first brought behind the key.
MergeNext(m) ==
  LET Behind(i) == IF m.direction_ = "forward" \/ i = m.current_ THEN m.pos[i]
                   ELSE LET e == SeekIn(data[i], Current(m))
                        IN  IF e = Current(m) THEN NextIn(data[i], e) ELSE e
  IN  FindSmallest([i \in Children |-> IF i = m.current_ THEN NextIn(data[i], m.pos[i]) ELSE Behind(i)])

\* Prev: after a step forward, the other children are first sought to the key, and then
\* brought before it; the memtable may have grown in between.
MergeTurn(m) ==
  [m EXCEPT !.pos = [i \in Children |-> IF i = m.current_ THEN @[i] ELSE SeekIn(data[i], Current(m))]]
MergePrev(m) ==
  LET Ahead(i) == IF m.direction_ = "reverse" \/ i = m.current_ THEN m.pos[i]
                  ELSE IF m.pos[i] = None THEN LastOf(data[i]) ELSE PrevIn(data[i], m.pos[i])
  IN  FindLargest([i \in Children |-> IF i = m.current_ THEN PrevIn(data[i], m.pos[i]) ELSE Ahead(i)])

-------------------------------------------------------------------------------
(* What the caller expects *)

\* The entry of a key that the iterator shows, as a set.
Newest(k) ==
  LET seen == {e \in UNION {data[i] : i \in Children} : e.key = k /\ e.seq <= sequence_}
  IN  {e \in seen : e.type = "value" /\ \A d \in seen : d.seq <= e.seq}
Shown == {k \in Keys : Newest(k) # {}}
FirstShown(S) == IF S = {} THEN 0 ELSE Min(S)
LastShown(S) == IF S = {} THEN 0 ELSE Max(S)

-------------------------------------------------------------------------------
(* Init: any distribution of the entries over the children, one of them in two *)

Layouts ==
  LET Places == {f \in [1..sequence_ -> (Keys \X {"value", "deletion"}) \X (SUBSET Children \ {{}})] :
                   \A i, j \in Children : i < j =>
                     Cardinality({s \in 1..sequence_ : {i, j} \subseteq f[s][2]}) <= 1}
  IN  {[i \in Children |-> {Entry(f[s][1][1], s, f[s][1][2]) : s \in {t \in 1..sequence_ : i \in f[t][2]}}] :
         f \in Places}

Init ==
  /\ data \in Layouts /\ written = sequence_
  /\ iter_ = [pos |-> [i \in Children |-> None], current_ |-> 0, direction_ |-> "forward"]
  /\ direction_ = "forward" /\ valid_ = FALSE /\ saved_key_ = 0 /\ saved_value_ = None
  /\ pc = "idle" /\ skip = "none" /\ at = 0

\* A writer inserts into the memtable.
Insert ==
  /\ written < MaxSequence
  /\ written' = written + 1
  /\ \E k \in Keys, t \in {"value", "deletion"} :
       data' = [data EXCEPT ![1] = @ \cup {Entry(k, written + 1, t)}]
  /\ UNCHANGED <<iter_, iterator, pc, skip, at>>

-------------------------------------------------------------------------------
(* DBIter *)

\* The call ends, without an entry.
Invalid(m) ==
  /\ iter_' = m /\ valid_' = FALSE /\ pc' = "idle" /\ skip' = "none"

\* The loop of FindNextUserEntry begins, if there is an entry.
BeginFindNext(m, skipping) ==
  IF Valid(m)
  THEN iter_' = m /\ pc' = "find_next" /\ skip' = skipping /\ UNCHANGED valid_
  ELSE Invalid(m)

Seek(k) ==
  /\ pc = "idle"
  /\ direction_' = "forward" /\ saved_value_' = None /\ saved_key_' = k
  /\ BeginFindNext(MergeSeek(Entry(k, sequence_, "value")), "none")
  /\ at' = FirstShown({j \in Shown : j >= k})
  /\ UNCHANGED <<data, written>>

SeekToFirst ==
  /\ pc = "idle"
  /\ direction_' = "forward" /\ saved_value_' = None
  /\ BeginFindNext(MergeSeekToFirst, "none")
  /\ at' = FirstShown(Shown)
  /\ UNCHANGED <<data, written, saved_key_>>

SeekToLast ==
  /\ pc = "idle"
  /\ direction_' = "reverse" /\ saved_value_' = None
  /\ iter_' = MergeSeekToLast /\ pc' = "find_prev" /\ skip' = "deletion"
  /\ at' = LastShown(Shown)
  /\ UNCHANGED <<data, written, valid_, saved_key_>>

\* Next, up to FindNextUserEntry.
Next ==
  LET m == IF direction_ = "forward" THEN iter_
           ELSE IF Valid(iter_) THEN MergeNext(iter_) ELSE MergeSeekToFirst IN
  /\ pc = "idle" /\ valid_
  /\ direction_' = "forward"
  /\ saved_key_' = IF ~Valid(m) THEN 0 ELSE IF direction_ = "forward" THEN Current(m).key ELSE saved_key_
  /\ BeginFindNext(m, "skipping")
  /\ at' = FirstShown({j \in Shown : j > at})
  /\ UNCHANGED <<data, written, saved_value_>>

\* An iteration of FindNextUserEntry.
FindNextUserEntry ==
  LET e == Current(iter_)
      visible == e.seq <= sequence_
      hidden == skip = "skipping" /\ e.key <= saved_key_
      m == MergeNext(iter_) IN
  /\ pc = "find_next"
  /\ IF visible /\ e.type = "value" /\ ~hidden
     THEN /\ valid_' = TRUE /\ saved_key_' = 0 /\ pc' = "idle" /\ skip' = "none"
          /\ UNCHANGED iter_
     ELSE /\ BeginFindNext(m, IF visible /\ e.type = "deletion" THEN "skipping" ELSE skip)
          /\ saved_key_' = IF ~Valid(m) THEN 0
                           ELSE IF visible /\ e.type = "deletion" THEN e.key ELSE saved_key_
  /\ UNCHANGED <<data, written, direction_, saved_value_, at>>

\* Prev: after a step forward it first scans back to the key before.
Prev ==
  /\ pc = "idle" /\ valid_
  /\ IF direction_ = "forward"
     THEN /\ pc' = "scan_back" /\ saved_key_' = Current(iter_).key /\ UNCHANGED skip
          /\ iter_' = IF iter_.direction_ = "forward" THEN MergeTurn(iter_) ELSE iter_
     ELSE pc' = "find_prev" /\ skip' = "deletion" /\ UNCHANGED <<saved_key_, iter_>>
  /\ at' = LastShown({j \in Shown : j < at})
  /\ UNCHANGED <<data, written, direction_, valid_, saved_value_>>

ScanBack ==
  LET m == MergePrev(iter_) IN
  /\ pc = "scan_back"
  /\ IF ~Valid(m)
     THEN Invalid(m) /\ saved_key_' = 0 /\ saved_value_' = None /\ UNCHANGED direction_
     ELSE /\ iter_' = m
          /\ IF Current(m).key < saved_key_
             THEN pc' = "find_prev" /\ skip' = "deletion" /\ direction_' = "reverse"
             ELSE UNCHANGED <<pc, skip, direction_>>
          /\ UNCHANGED <<valid_, saved_key_, saved_value_>>
  /\ UNCHANGED <<data, written, at>>

\* An iteration of FindPrevUserEntry, and its end.
FindPrevUserEntry ==
  LET e == Current(iter_)
      visible == e.seq <= sequence_
      over == ~Valid(iter_) \/ (visible /\ skip = "value" /\ e.key < saved_key_) IN
  /\ pc = "find_prev"
  /\ IF over
     THEN /\ pc' = "idle" /\ skip' = "none"
          /\ valid_' = (skip = "value")
          /\ IF skip = "value" THEN UNCHANGED <<direction_, saved_key_, saved_value_>>
             ELSE direction_' = "forward" /\ saved_key_' = 0 /\ saved_value_' = None
          /\ UNCHANGED iter_
     ELSE /\ iter_' = MergePrev(iter_)
          /\ skip' = IF visible THEN e.type ELSE skip
          /\ IF ~visible THEN UNCHANGED <<saved_key_, saved_value_>>
             ELSE IF e.type = "deletion" THEN saved_key_' = 0 /\ saved_value_' = None
             ELSE saved_key_' = e.key /\ saved_value_' = e
          /\ UNCHANGED <<pc, direction_, valid_>>
  /\ UNCHANGED <<data, written, at>>

-------------------------------------------------------------------------------
Step == FindNextUserEntry \/ ScanBack \/ FindPrevUserEntry

Steps ==
  \/ Insert
  \/ (\E k \in Keys : Seek(k)) \/ SeekToFirst \/ SeekToLast \/ Next \/ Prev
  \/ Step

\* Calls run to their end.
Spec == Init /\ [][Steps]_vars /\ WF_vars(Step)

-------------------------------------------------------------------------------
(* Properties *)

TypeOK ==
  /\ written \in sequence_..MaxSequence
  /\ iter_.current_ \in Children \cup {0} /\ iter_.direction_ \in {"forward", "reverse"}
  /\ direction_ \in {"forward", "reverse"} /\ valid_ \in BOOLEAN
  /\ saved_key_ \in Keys \cup {0} /\ at \in Keys \cup {0}
  /\ pc \in {"idle", "find_next", "scan_back", "find_prev"}
  /\ skip \in {"none", "skipping", "value", "deletion"}

\* key() and value()
Here == IF direction_ = "forward" THEN Current(iter_) ELSE saved_value_

\* After every call the iterator is at the key where a walk over the keys of its
\* snapshot would be, with the value of the snapshot: whatever calls came before, in
\* whichever direction, and whatever was inserted since.
IteratorIsRight ==
  pc = "idle" => /\ valid_ <=> at # 0
                 /\ valid_ => Here \in Newest(at) /\ (direction_ = "reverse" => saved_key_ = at)

\* "the internal iterator is positioned just before all entries whose user key ==
\* this->key()" when it moves backwards, so that a step forward meets all of them.
ReversePosition ==
  pc = "idle" /\ valid_ /\ direction_ = "reverse" =>
    ~Valid(iter_) \/ Current(iter_).key < saved_key_

\* A call of the iterator has not returned yet.
InCall == pc # "idle"

===============================================================================

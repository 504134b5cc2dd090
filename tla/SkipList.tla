-------------------------------- MODULE SkipList --------------------------------
(***************************************************************************)
(* The skip list of the memtable (db/skiplist.h): one writer at a time     *)
(* inserts, readers search and iterate without a lock.  A step is one load *)
(* or one store of a link.  A new node's links hold garbage until they are *)
(* set; a reader may see an old max_height_, which is read without order.  *)
(* Readers change nothing, so one of them stands for all.                  *)
(***************************************************************************)
EXTENDS Integers, FiniteSets

CONSTANTS N, kMaxHeight   \* keys are 1..N; heights are 1..kMaxHeight

SkipListAssumption == N \in Nat /\ kMaxHeight \in Nat \ {0}

Keys == 1..N
head_ == 0
Null == N + 1          \* nullptr: sorts after all keys
Garbage == N + 2       \* what an uninitialized link holds
Nodes == 0..N          \* a node is its key
Levels == 0..kMaxHeight - 1

VARIABLES
  next_,       \* [node -> [level -> link]]
  max_height_,
  writer,      \* the Insert that is under way
  prev,        \* its prev
  inserted,    \* keys whose Insert has returned
  reader,      \* the search that is under way
  node_,       \* where the iterator is: a node or Null
  seen         \* the keys inserted when the search began

list == <<next_, max_height_, writer, prev, inserted>>
vars == <<list, reader, node_, seen>>

Idle == [pc |-> "idle", key |-> 0, x |-> 0, level |-> 0, height |-> 1]
NoSearch == [pc |-> "idle", key |-> 0, x |-> 0, level |-> 0]

Init ==
  /\ next_ = [x \in Nodes |-> [i \in Levels |-> IF x = head_ THEN Null ELSE Garbage]]
  /\ max_height_ = 1 /\ writer = Idle /\ prev = [i \in Levels |-> head_] /\ inserted = {}
  /\ reader = NoSearch /\ node_ = Null /\ seen = {}

\* KeyIsAfterNode
KeyIsAfterNode(key, n) == n # Null /\ n < key

-------------------------------------------------------------------------------
(* Insert *)

BeginInsert(k) ==
  /\ writer.pc = "idle" /\ k \notin inserted
  /\ writer' = [pc |-> "find", key |-> k, x |-> head_, level |-> max_height_ - 1, height |-> 1]
  /\ UNCHANGED <<next_, max_height_, prev, inserted, reader, node_, seen>>

\* An iteration of FindGreaterOrEqual, which fills prev
FindPrev ==
  LET n == next_[writer.x][writer.level] IN
  /\ writer.pc = "find"
  /\ IF KeyIsAfterNode(writer.key, n)
     THEN writer' = [writer EXCEPT !.x = n] /\ UNCHANGED prev
     ELSE /\ prev' = [prev EXCEPT ![writer.level] = writer.x]
          /\ writer' = IF writer.level = 0 THEN [writer EXCEPT !.pc = "height"]
                       ELSE [writer EXCEPT !.level = @ - 1]
  /\ UNCHANGED <<next_, max_height_, inserted, reader, node_, seen>>

\* RandomHeight: max_height_ may grow before the node is there.
ChooseHeight(h) ==
  /\ writer.pc = "height"
  /\ writer' = [writer EXCEPT !.pc = "link", !.height = h, !.level = 0]
  /\ prev' = [i \in Levels |-> IF i \in max_height_..h - 1 THEN head_ ELSE prev[i]]
  /\ max_height_' = IF h > max_height_ THEN h ELSE max_height_
  /\ UNCHANGED <<next_, inserted, reader, node_, seen>>

\* The new node's link, which no reader sees yet
Link ==
  LET i == writer.level IN
  /\ writer.pc = "link"
  /\ next_' = [next_ EXCEPT ![writer.key][i] = next_[prev[i]][i]]
  /\ writer' = [writer EXCEPT !.pc = "publish"]
  /\ UNCHANGED <<max_height_, prev, inserted, reader, node_, seen>>

\* prev[i]->SetNext(i, x); Insert returns after the highest level.
Publish ==
  LET i == writer.level IN
  /\ writer.pc = "publish"
  /\ next_' = [next_ EXCEPT ![prev[i]][i] = writer.key]
  /\ IF i + 1 < writer.height
     THEN writer' = [writer EXCEPT !.pc = "link", !.level = i + 1] /\ UNCHANGED inserted
     ELSE writer' = Idle /\ inserted' = inserted \cup {writer.key}
  /\ UNCHANGED <<max_height_, prev, reader, node_, seen>>

-------------------------------------------------------------------------------
(* Readers *)

\* A search for key begins at some height that max_height_ has or had.  at_or_after:
\* FindGreaterOrEqual; before: FindLessThan, and FindLast with the key Null.
BeginSearch(pc, key, h) ==
  /\ reader.pc = "idle" /\ h \in 1..max_height_
  /\ reader' = [pc |-> pc, key |-> key, x |-> head_, level |-> h - 1]
  /\ seen' = inserted
  /\ UNCHANGED <<list, node_>>

Seek(k, h) == BeginSearch("at_or_after", k, h)
Prev(h) == node_ # Null /\ BeginSearch("before", node_, h)
SeekToLast(h) == BeginSearch("before", Null, h)

\* Variant: the search gives up at the top level.
SearchTop ==
  LET n == next_[reader.x][reader.level] IN
  /\ reader.pc # "idle"
  /\ IF KeyIsAfterNode(reader.key, n) THEN reader' = [reader EXCEPT !.x = n] /\ UNCHANGED node_
     ELSE /\ reader' = NoSearch
          /\ node_' = IF reader.pc = "at_or_after" THEN n
                      ELSE IF reader.x = head_ THEN Null ELSE reader.x
  /\ UNCHANGED <<list, seen>>

\* An iteration of FindGreaterOrEqual, FindLessThan or FindLast
Search ==
  LET n == next_[reader.x][reader.level] IN
  /\ reader.pc # "idle"
  /\ IF KeyIsAfterNode(reader.key, n) THEN reader' = [reader EXCEPT !.x = n] /\ UNCHANGED node_
     ELSE IF reader.level > 0 THEN reader' = [reader EXCEPT !.level = @ - 1] /\ UNCHANGED node_
     ELSE /\ reader' = NoSearch
          /\ node_' = IF reader.pc = "at_or_after" THEN n
                      ELSE IF reader.x = head_ THEN Null ELSE reader.x
  /\ UNCHANGED <<list, seen>>

NextNode ==
  /\ reader.pc = "idle" /\ node_ # Null
  /\ node_' = next_[node_][0]
  /\ UNCHANGED <<list, reader, seen>>

SeekToFirst ==
  /\ reader.pc = "idle"
  /\ node_' = next_[head_][0]
  /\ UNCHANGED <<list, reader, seen>>

Insertion == FindPrev \/ (\E h \in 1..kMaxHeight : ChooseHeight(h)) \/ Link \/ Publish

Next ==
  \/ (\E k \in Keys : BeginInsert(k)) \/ Insertion
  \/ \E h \in 1..kMaxHeight : (\E k \in Keys : Seek(k, h)) \/ Prev(h) \/ SeekToLast(h)
  \/ Search \/ NextNode \/ SeekToFirst

\* Searches and insertions go on.
Spec ==
  /\ Init /\ [][Next]_vars
  /\ WF_vars(Search)
  /\ WF_vars(Insertion)

-------------------------------------------------------------------------------
(* Properties *)

TypeOK ==
  /\ next_ \in [Nodes -> [Levels -> Keys \cup {Null, Garbage}]]
  /\ max_height_ \in 1..kMaxHeight
  /\ writer \in [pc : {"idle", "find", "height", "link", "publish"}, key : Nodes, x : Nodes,
                 level : Levels, height : 1..kMaxHeight]
  /\ prev \in [Levels -> Nodes] /\ inserted \subseteq Keys /\ seen \subseteq Keys
  /\ reader \in [pc : {"idle", "at_or_after", "before"}, key : Nodes \cup {Null}, x : Nodes, level : Levels]
  /\ node_ \in Keys \cup {Null}

\* No search reads a link that was not initialized: a node is found on a level only after
\* its links on that level and below are set.
NoGarbage ==
  /\ writer.pc = "find" => next_[writer.x][writer.level] # Garbage
  /\ reader.pc # "idle" => next_[reader.x][reader.level] # Garbage
  /\ node_ # Null => next_[node_][0] # Garbage

\* A search passes over no key that was inserted when it began: it ends at the first key
\* from the target on, or the last before it, or at one inserted meanwhile that is closer.
SearchFinds ==
  reader.pc # "idle" /\ reader'.pc = "idle" =>
    IF reader.pc = "at_or_after"
    THEN /\ node_' # Null => node_' >= reader.key
         /\ \A k \in seen : k >= reader.key => node_' # Null /\ node_' <= k
    ELSE /\ node_' # Null => node_' < reader.key
         /\ \A k \in seen : k < reader.key => node_' # Null /\ node_' >= k

\* While another thread inserts, a search reads no link that was not initialized, and ends
\* where the keys that were in the list when it began say.
SearchIsRight == []NoGarbage /\ [][SearchFinds]_vars

Searching == reader.pc # "idle"

===============================================================================

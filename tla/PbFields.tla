-------------------------------- MODULE PbFields --------------------------------
(***************************************************************************)
(* How nanopb finds the fields of a message (pb_common.c, pb_decode.c):    *)
(* one iterator that goes round and round through the descriptor of the    *)
(* message type while fields arrive in any order, the bits for the         *)
(* required fields, the counter for arrays of a fixed count, and the       *)
(* search for extensions.  What the fields hold is in PbDecode.            *)
(*                                                                         *)
(* Field i of the descriptor has tag 2 i; odd tags are no fields of the    *)
(* type.  A size is a number of words.                                     *)
(***************************************************************************)
EXTENDS Integers, Sequences, FiniteSets, FiniteSetsExt

CONSTANTS
  Kinds,         \* of the fields: a subset of AllKinds
  MaxFields,     \* in a descriptor
  MaxInput,      \* fields in a message
  WordBits,      \* 32
  MaxRequired    \* PB_MAX_REQUIRED_FIELDS, a multiple of WordBits in the code

AllKinds == {"required", "optional", "fixed", "small", "large", "extension"}
ArraySize == 2   \* of a fixed array; "small" and "large" are members of a oneof

PbFieldsAssumption == Kinds \subseteq AllKinds /\ {MaxFields, MaxInput, WordBits, MaxRequired} \subseteq Nat \ {0}

VARIABLES
  fields,       \* the descriptor
  registered,   \* the tags of the extensions that the caller has registered
  iter,         \* pb_field_iter_t
  seen,         \* fields_seen: for each word the bits that are set
  range,        \* extension_range_start
  count,        \* fixed_count_field and fixed_count_size
  status,       \* "decoding", "ok", or the error
  got,          \* history: the tags that were in the message
  inputs,       \* and how many fields it had
  slots,        \* history: the entries written in each fixed array
  found         \* the extensions that have been decoded

vars == <<fields, registered, iter, seen, range, count, status, got, inputs, slots, found>>

NoField == 0
NoExtension == 2 * MaxFields + 2   \* (uint32_t)-1

Oneof(k) == k \in {"small", "large"}
DataSize(k) == IF k = "large" THEN 2 ELSE 1

-------------------------------------------------------------------------------
(* The struct and its descriptor, as the generator lays them out *)

\* A later member of a oneof begins where the others do.
InUnion(f, i) == i > 1 /\ Oneof(f[i]) /\ Oneof(f[i - 1])
UnionStart(f, i) == Max({j \in 1..i : ~InUnion(f, j)})
Extent(f, i) == IF f[i] = "fixed" THEN ArraySize ELSE DataSize(f[i])

\* Where field i is: after all that ends before it
Layout(f, i) ==
  LET starts == {j \in 1..(UnionStart(f, i) - 1) : ~InUnion(f, j)}
      size(j) == Max({Extent(f, k) : k \in {m \in 1..Len(f) : m = j \/ (InUnion(f, m) /\ UnionStart(f, m) = j)}})
  IN  MapThenSumSet(size, starts)

\* pb_field_t, with pb_delta_end from the end of the previous field as the offset
Shared == -1   \* PB_SIZE_MAX
Descriptor(f) ==
  [i \in DOMAIN f |->
     [kind |-> f[i],
      offset |-> IF i = 1 THEN 0 ELSE IF InUnion(f, i) THEN Shared
                 ELSE Layout(f, i) - Layout(f, i - 1) - Extent(f, i - 1)]]
KindsOf(fs) == [i \in DOMAIN fs |-> fs[i].kind]

-------------------------------------------------------------------------------
(* pb_common.c *)

Begin == [pos |-> 1, data |-> 0, required |-> 0]

\* pb_field_iter_next.  An empty descriptor has no next field.
IterNext(fs, it) ==
  LET prev == fs[it.pos]
      next == fs[it.pos + 1]
      size == IF prev.kind = "fixed" THEN DataSize(prev.kind) * ArraySize ELSE DataSize(prev.kind)
  IN IF fs = <<>> THEN it
     ELSE IF it.pos = Len(fs) THEN Begin
     ELSE IF Oneof(prev.kind) /\ Oneof(next.kind) /\ next.offset = Shared THEN [it EXCEPT !.pos = @ + 1]
     ELSE [pos |-> it.pos + 1, data |-> it.data + size + next.offset,
           required |-> it.required + (IF prev.kind = "required" THEN 1 ELSE 0)]

\* The iterator after n steps
Walk(f, it) ==
  LET walk[n \in 0..Len(f)] == IF n = 0 THEN it ELSE IterNext(f, walk[n - 1]) IN walk

\* pb_field_iter_find and find_extension_field: the first match, or once around
Search(f, it, matches) ==
  LET around(n) == ((it.pos - 1 + n) % Len(f)) + 1
      steps == {n \in 0..(Len(f) - 1) : around(n) \in matches}
  IN  [ok |-> steps # {}, iter |-> Walk(f, it)[IF steps # {} THEN Min(steps) ELSE Len(f)]]

IterFind(f, it, tag) == Search(f, it, {i \in DOMAIN f : 2 * i = tag /\ f[i].kind # "extension"})
FindExtension(f, it) == Search(f, it, {i \in DOMAIN f : f[i].kind = "extension"})

-------------------------------------------------------------------------------
(* pb_decode_noinit *)

KindSequences ==
  {f \in UNION {[1..n -> Kinds] : n \in 0..MaxFields} :
     Cardinality({i \in DOMAIN f : f[i] = "extension"}) <= 1}
OddTags == {2 * i + 1 : i \in 0..MaxFields}
Words == 0..((MaxRequired + WordBits - 1) \div WordBits - 1)

Init ==
  /\ \E f \in KindSequences : fields = Descriptor(f)
  /\ registered \in SUBSET {t \in OddTags : \E i \in DOMAIN fields : fields[i].kind = "extension" /\ 2 * i < t}
  /\ iter = Begin /\ seen = [w \in Words |-> {}] /\ range = 0
  /\ count = [field |-> NoField, size |-> 0] /\ status = "decoding"
  /\ got = {} /\ inputs = 0 /\ slots = [i \in DOMAIN fields |-> {}] /\ found = {}

Decoding(tag) ==
  /\ status = "decoding" /\ inputs < MaxInput
  /\ inputs' = inputs + 1 /\ got' = got \cup ({tag} \cap ({2 * i : i \in DOMAIN fields} \cup registered))

\* decode_extension: each extension in turn, until one of them has read something
DecodeExtension(tag) == found \cup ({tag} \cap registered)

\* No field has this tag: an extension may, and otherwise it is skipped.
UnknownField(tag) ==
  LET f == IterFind(fields, iter, tag)
      e == FindExtension(fields, f.iter)
      start == IF e.ok THEN 2 * e.iter.pos ELSE NoExtension
  IN /\ Decoding(tag) /\ ~f.ok
     /\ IF tag >= range
        THEN iter' = e.iter /\ range' = start
        ELSE iter' = f.iter /\ UNCHANGED range
     /\ found' = IF tag >= range /\ tag >= start THEN DecodeExtension(tag) ELSE found
     /\ UNCHANGED <<fields, registered, seen, count, status, slots>>

Wrong == count.field # NoField /\ count.size # ArraySize

\* An entry of an array of a fixed count
FixedEntry(i) ==
  LET size == IF count.field = i THEN count.size ELSE 0 IN
  IF count.field # i /\ Wrong
  THEN status' = "wrong size for fixed count field" /\ UNCHANGED <<count, slots>>
  ELSE IF size < ArraySize
  THEN /\ count' = [field |-> i, size |-> size + 1] /\ slots' = [slots EXCEPT ![i] = @ \cup {size}]
       /\ UNCHANGED status
  ELSE status' = "array overflow" /\ UNCHANGED <<count, slots>>

\* fields_seen[index >> 5] |= 1 << (index & 31)
MarkSeen(it) ==
  IF fields[it.pos].kind = "required" /\ it.required < MaxRequired
  THEN [seen EXCEPT ![it.required \div WordBits] = @ \cup {it.required % WordBits}]
  ELSE seen

KnownField(tag) ==
  LET f == IterFind(fields, iter, tag) IN
  /\ Decoding(tag) /\ f.ok /\ iter' = f.iter /\ seen' = MarkSeen(f.iter)
  /\ IF fields[f.iter.pos].kind = "fixed" THEN FixedEntry(f.iter.pos) ELSE UNCHANGED <<count, slots, status>>
  /\ UNCHANGED <<fields, registered, range, found>>

\* Variant: the last field is counted only if it is not required.
RequiredCountShort ==
  IF fields = <<>> THEN 0
  ELSE Min({MaxRequired, Walk(fields, iter)[Len(fields) - iter.pos].required})

\* The number of required fields, from where the iterator happens to be to the end
RequiredCount ==
  IF fields = <<>> THEN 0
  ELSE LET w == Walk(fields, iter)[Len(fields) - iter.pos]
       IN  Min({MaxRequired, w.required + (IF fields[w.pos].kind = "required" THEN 1 ELSE 0)})

\* Whole words, and the remaining bits
AllRequired ==
  /\ \A w \in 0..(RequiredCount \div WordBits - 1) : seen[w] = 0..(WordBits - 1)
  /\ RequiredCount % WordBits # 0 =>
       seen[RequiredCount \div WordBits] = 0..((RequiredCount % WordBits) - 1)

EndOfMessage ==
  /\ status = "decoding"
  /\ status' = IF Wrong THEN "wrong size for fixed count field"
               ELSE IF AllRequired THEN "ok" ELSE "missing required field"
  /\ iter' = Begin
  /\ UNCHANGED <<fields, registered, seen, range, count, got, inputs, slots, found>>

Next ==
  \/ \E tag \in 1..(2 * MaxFields + 1) : UnknownField(tag) \/ KnownField(tag)
  \/ EndOfMessage

Spec == Init /\ [][Next]_vars

-------------------------------------------------------------------------------
(* Properties *)

Required == {i \in DOMAIN fields : fields[i].kind = "required"}
Before(i) == {j \in Required : j < i}
Tracked == {i \in Required : Cardinality(Before(i)) < MaxRequired}

\* Wherever the searches have left it, the iterator points to its field in the struct, and
\* counts the required fields before it.
IteratorIsRight ==
  fields # <<>> => /\ iter.data = Layout(KindsOf(fields), iter.pos)
                   /\ iter.required = Cardinality(Before(iter.pos))

\* A message is accepted only with every required field that is tracked, and one that has them
\* is not refused for that reason.
RequiredIsExact ==
  /\ status = "ok" => \A i \in Tracked : 2 * i \in got
  /\ status = "missing required field" => \E i \in Tracked : 2 * i \notin got

\* An array of a fixed count has no number of entries that would tell how many are valid: a
\* message that has some of them is accepted only with all of them.
FixedIsFull ==
  status = "ok" => \A i \in DOMAIN fields : slots[i] \in {{}, 0..(ArraySize - 1)}

\* An extension that is registered is decoded whatever came before it.
ExtensionsFound == found = registered \cap got

===============================================================================

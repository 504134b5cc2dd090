-------------------------------- MODULE PbDecode --------------------------------
(***************************************************************************)
(* pb_decode of nanopb (pb_decode.c, with PB_ENABLE_MALLOC): how much of   *)
(* the stream is consumed, and who owns the memory that is allocated while *)
(* a message with pointers, arrays, submessages and a oneof is decoded.    *)
(*                                                                         *)
(* A tag, a length and a number take one byte.  The stream brings the      *)
(* fields in any order and number; a read or an allocation may fail at any *)
(* point.                                                                  *)
(***************************************************************************)
EXTENDS Integers, Sequences, FiniteSets, FiniteSetsExt, SequencesExt

CONSTANTS
  Fields,      \* the fields of the message type; other fields are unknown
  Size,        \* bytes in the stream
  Delimited    \* pb_decode_delimited, instead of pb_decode

\* The fields.  A submessage has a pointer to a string, "name", and a required number.
Known ==
  {"name",     \* optional string, pointer
   "names",    \* repeated string, pointer
   "part",     \* optional submessage, static
   "parts",    \* repeated submessage, pointer
   "nums",     \* repeated number, static array of ArraySize
   "list",     \* repeated number, pointer
   "u_sub",    \* oneof: submessage, static
   "u_str",    \* oneof: string, pointer
   "u_ref",    \* oneof: submessage, pointer
   "u_num"}    \* oneof: number, static
ArraySize == 2

PbDecodeAssumption == Fields \subseteq Known /\ Size \in Nat /\ Delimited \in BOOLEAN

VARIABLES
  msg,      \* dest_struct
  heap,     \* the allocated blocks: [address -> the items of an array, or <<>>]
  stack,    \* the messages being decoded, the innermost last: where, and what they have seen
  left,     \* bytes_left of their streams
  pos,      \* bytes consumed
  status,   \* "decoding", "failing", "ok", "failed", "released", "unclosed" and "aborted"
  forgotten,  \* the blocks to which a submessage pointed that memset has cleared
  wild      \* something that is no block was reallocated or freed, other than a number

vars == <<msg, heap, stack, left, pos, status, forgotten, wild>>

Null == 0
Wild == -1     \* a number, read as a pointer
Sub  == [name |-> Null]

\* A union is the pointer that its bytes spell: the pointer itself, the first member of the
\* submessage, or the bits of the number.
Defaults ==
  [name |-> Null, names |-> Null, part |-> Sub, parts |-> Null, nums |-> 0, list |-> Null,
   which |-> "", union |-> Null]

Frame(where, p, i) == [where |-> where, p |-> p, i |-> i, required |-> FALSE]
Top == Last(stack)
Outermost == Len(stack) = 1
Here == IF Outermost THEN Fields ELSE {"name"}

Init ==
  /\ msg = Defaults /\ heap = <<>> /\ stack = <<Frame("msg", Null, 0)>>
  /\ left = <<Size>> /\ pos = 0 /\ status = "decoding" /\ wild = FALSE /\ forgotten = {}

-------------------------------------------------------------------------------
(* Streams *)

\* pb_read and pb_readbyte
Read(n) ==
  /\ status = "decoding" /\ n <= Last(left)
  /\ pos' = pos + n /\ left' = [left EXCEPT ![Len(left)] = @ - n]

\* pb_make_string_substream, after a tag and a length: the parent gives the bytes away.
MakeSubstream(n) ==
  /\ status = "decoding" /\ n + 2 <= Last(left)
  /\ pos' = pos + 2 /\ left' = Append([left EXCEPT ![Len(left)] = @ - 2 - n], n)

\* pb_close_string_substream: what is left of the substream is skipped.
CloseSubstream == pos' = pos + Last(left) /\ left' = Front(left)

-------------------------------------------------------------------------------
(* Memory *)

IsBlock(h, p) == p \in DOMAIN h
Fresh(h) == CHOOSE a \in 1..(Cardinality(DOMAIN h) + 1) : a \notin DOMAIN h
Items(h, p) == IF IsBlock(h, p) THEN h[p] ELSE <<>>

\* allocate_field: the block for a pointer, and the heap with items added to that block
Block(h, p) == IF IsBlock(h, p) THEN p ELSE Fresh(h)
Grown(h, p, items) ==
  [b \in DOMAIN h \cup {Block(h, p)} |-> IF b = Block(h, p) THEN Items(h, p) \o items ELSE h[b]]
IsWild(h, p) == p \notin {Null, Wild} /\ ~IsBlock(h, p)

\* pb_free of one pointer after the other
Freed(h, ps) == [b \in DOMAIN h \ Range(ps) |-> h[b]]
FreesBadly(h, ps) ==
  LET real == SelectSeq(ps, LAMBDA p : p \notin {Null, Wild})
  IN  ~(Range(real) \subseteq DOMAIN h) \/ Cardinality(Range(real)) < Len(real)

\* What pb_release_single_field frees of the union, and pb_release of the message
NamesOf(subs) == [i \in DOMAIN subs |-> subs[i].name]
UnionPointers ==
  IF msg.which = "u_ref" THEN NamesOf(Items(heap, msg.union)) \o <<msg.union>>
  ELSE IF msg.which \in {"u_str", "u_sub"} THEN <<msg.union>>
  ELSE <<>>
Pointers ==
  <<msg.name>> \o Items(heap, msg.names) \o <<msg.names, msg.part.name>>
    \o NamesOf(Items(heap, msg.parts)) \o <<msg.parts, msg.list>> \o UnionPointers

\* The allocator stops the program when it is given a number for a pointer.
Abort == status' = "aborted" /\ UNCHANGED <<msg, heap, stack, left, pos, forgotten, wild>>

\* Variant: what is freed is still pointed to.
ReleaseUnionDangling(new) ==
  [freed |-> IF msg.which \in {"", new} THEN <<>> ELSE UnionPointers, union |-> msg.union]

\* pb_release_union_field, before a field of the oneof: what it frees, and what is left there
ReleaseUnion(new) ==
  IF msg.which \in {"", new} THEN [freed |-> <<>>, union |-> msg.union]
  ELSE [freed |-> UnionPointers, union |-> IF msg.which = "u_num" THEN msg.union ELSE Null]

-------------------------------------------------------------------------------
(* decode_field *)

\* The outcome of what follows: the field is decoded, or a read or an allocation fails.
Outcome == status' \in {"decoding", "failing"}

\* A field that fails before it has changed anything: its tag, its length, or its first
\* allocation
Fail ==
  /\ status = "decoding" /\ status' = "failing"
  /\ UNCHANGED <<msg, heap, stack, left, pos, forgotten, wild>>

\* A pointer to a string, by pb_dec_string: in the message itself, or in a submessage
DecodeName ==
  LET old == CASE Top.where = "msg" -> msg.name
               [] Top.where = "part" -> msg.part.name
               [] Top.where = "u_sub" -> msg.union
               [] Top.where \in {"parts", "u_ref"} -> heap[Top.p][Top.i].name
      new == Block(heap, old)
      h == Grown(heap, old, <<>>)
  IN /\ "name" \in Here
     /\ \E n \in 0..1 : Read(2 + n)
     /\ CASE Top.where = "msg" -> msg' = [msg EXCEPT !.name = new] /\ heap' = h
          [] Top.where = "part" -> msg' = [msg EXCEPT !.part.name = new] /\ heap' = h
          [] Top.where = "u_sub" -> msg' = [msg EXCEPT !.union = new] /\ heap' = h
          [] Top.where \in {"parts", "u_ref"} ->
               heap' = [h EXCEPT ![Top.p][Top.i].name = new] /\ UNCHANGED msg
     /\ wild' = (wild \/ IsWild(heap, old))
     /\ Outcome /\ UNCHANGED <<stack, forgotten>>

\* An entry of an array of strings: the array grows by a null pointer, then the string is
\* allocated, or not.
DecodeNames ==
  LET array == Block(heap, msg.names)
      h == Grown(heap, msg.names, <<Null>>)
      item == Fresh(h)
      filled == [h EXCEPT ![array][Len(h[array])] = item]
  IN /\ Outermost /\ "names" \in Fields
     /\ \E n \in 0..1 : Read(2 + n)
     /\ msg' = [msg EXCEPT !.names = array]
     /\ \/ heap' = Grown(filled, item, <<>>) /\ Outcome
        \/ heap' = h /\ status' = "failing"
     /\ UNCHANGED <<stack, forgotten, wild>>

\* Numbers of a static array, one or a packed sequence: more than it holds are an error.
DecodeNums ==
  /\ Outermost /\ "nums" \in Fields
  /\ \/ /\ Read(2) /\ msg' = [msg EXCEPT !.nums = @ + 1]
        /\ IF msg.nums >= ArraySize THEN status' = "failing" ELSE Outcome
     \/ \E n \in 0..(ArraySize + 1) :
          /\ Read(2 + n) /\ msg' = [msg EXCEPT !.nums = Min({@ + n, ArraySize})]
          /\ IF msg.nums + n > ArraySize THEN status' = "failing" ELSE Outcome
  /\ UNCHANGED <<heap, stack, forgotten, wild>>

\* Numbers of an allocated array, one or a packed sequence; no number, no array
DecodeList ==
  /\ Outermost /\ "list" \in Fields
  /\ \/ /\ \E bytes \in 2..4 : Read(bytes)
        /\ msg' = [msg EXCEPT !.list = Block(heap, msg.list)]
        /\ heap' = Grown(heap, msg.list, <<>>)
     \/ Read(2) /\ UNCHANGED <<msg, heap>>
  /\ Outcome /\ UNCHANGED <<stack, forgotten, wild>>

\* The required number of a submessage
DecodeNumber ==
  /\ ~Outermost /\ Read(2)
  /\ stack' = [stack EXCEPT ![Len(stack)].required = TRUE]
  /\ Outcome /\ UNCHANGED <<msg, heap, forgotten, wild>>

\* Any unknown field, by pb_skip_field
SkipField ==
  /\ \E n \in 1..2 : Read(1 + n)
  /\ Outcome /\ UNCHANGED <<msg, heap, stack, forgotten, wild>>

\* pb_dec_submessage begins, with n bytes
Enter(frame, n) == MakeSubstream(n) /\ stack' = Append(stack, frame) /\ Outcome

DecodePart(n) ==
  /\ Outermost /\ "part" \in Fields
  /\ Enter(Frame("part", Null, 0), n)
  /\ UNCHANGED <<msg, heap, forgotten, wild>>

DecodeParts(n) ==
  LET array == Block(heap, msg.parts) IN
  /\ Outermost /\ "parts" \in Fields
  /\ msg' = [msg EXCEPT !.parts = array]
  /\ heap' = Grown(heap, msg.parts, <<Sub>>)
  /\ Enter(Frame("parts", array, Len(heap'[array])), n)
  /\ UNCHANGED <<forgotten, wild>>

\* A field of the oneof: what it holds is released, then overwritten.  A submessage that comes
\* again is not released, since it would be merged, but it is cleared.
DecodeUnionSub(n) ==
  LET r == ReleaseUnion("u_sub") IN
  /\ Outermost /\ "u_sub" \in Fields
  /\ heap' = Freed(heap, r.freed)
  /\ msg' = [msg EXCEPT !.which = "u_sub", !.union = Null]
  /\ forgotten' = forgotten \cup (IF msg.which = "u_sub" THEN {msg.union} \ {Null} ELSE {})
  /\ Enter(Frame("u_sub", Null, 0), n)
  /\ wild' = (wild \/ FreesBadly(heap, r.freed))

\* A pointer of the oneof.  A number that was there before is taken for the block to reallocate.
DecodeUnionString ==
  LET r == ReleaseUnion("u_str")
      h == Freed(heap, r.freed)
  IN /\ Outermost /\ "u_str" \in Fields /\ status = "decoding"
     /\ \/ r.union = Wild /\ Abort
        \/ /\ r.union # Wild
           /\ \E n \in 0..1 : Read(2 + n)
           /\ heap' = Grown(h, r.union, <<>>)
           /\ msg' = [msg EXCEPT !.which = "u_str", !.union = Block(h, r.union)]
           /\ wild' = (wild \/ FreesBadly(heap, r.freed) \/ IsWild(h, r.union)) /\ Outcome
           /\ UNCHANGED <<stack, forgotten>>
        \/ /\ heap' = h /\ msg' = [msg EXCEPT !.which = "u_str", !.union = r.union]
           /\ wild' = (wild \/ FreesBadly(heap, r.freed)) /\ status' = "failing"
           /\ UNCHANGED <<stack, left, pos, forgotten>>

DecodeUnionRef(n) ==
  LET r == ReleaseUnion("u_ref")
      again == msg.which = "u_ref"    \* decode_pointer_field releases the old submessage
      freed == IF again THEN UnionPointers ELSE r.freed
      old == IF again THEN Null ELSE r.union
      h == Freed(heap, freed)
  IN /\ Outermost /\ "u_ref" \in Fields /\ status = "decoding"
     /\ \/ old = Wild /\ Abort
        \/ /\ old # Wild
           /\ heap' = Grown(h, old, <<Sub>>)
           /\ msg' = [msg EXCEPT !.which = "u_ref", !.union = Block(h, old)]
           /\ Enter(Frame("u_ref", Block(h, old), 1), n)
           /\ wild' = (wild \/ FreesBadly(heap, freed) \/ IsWild(h, old)) /\ UNCHANGED forgotten
        \/ /\ old # Wild /\ heap' = h /\ msg' = [msg EXCEPT !.which = "u_ref", !.union = old]
           /\ wild' = (wild \/ FreesBadly(heap, freed)) /\ status' = "failing"
           /\ UNCHANGED <<stack, left, pos, forgotten>>

DecodeUnionNumber ==
  LET r == ReleaseUnion("u_num") IN
  /\ Outermost /\ "u_num" \in Fields /\ Read(2)
  /\ heap' = Freed(heap, r.freed)
  /\ \E bits \in {Null, Wild} : msg' = [msg EXCEPT !.which = "u_num", !.union = bits]
  /\ wild' = (wild \/ FreesBadly(heap, r.freed))
  /\ Outcome /\ UNCHANGED <<stack, forgotten>>

-------------------------------------------------------------------------------
(* pb_decode *)

\* The end of a submessage, or a zero byte in it: required fields are looked for, and the
\* substream is closed.
EndSubmessage ==
  /\ status = "decoding" /\ ~Outermost
  /\ IF Top.required
     THEN CloseSubstream /\ stack' = Front(stack) /\ Outcome
     ELSE status' = "failing" /\ UNCHANGED <<pos, left, stack>>
  /\ UNCHANGED <<msg, heap, forgotten, wild>>

\* The end of the message, or a zero byte, which is read.  pb_decode_delimited then closes its
\* substream.
EndMessage ==
  /\ Outermost /\ Read(IF Delimited THEN Last(left) ELSE Min({1, Last(left)}))
  /\ status' = "ok" /\ UNCHANGED <<msg, heap, stack, forgotten, wild>>

\* That may fail if something follows the zero byte: the message is decoded, and nothing is
\* released.
DelimitedCloseFails ==
  /\ Delimited /\ Outermost /\ Last(left) > 1 /\ Read(1)
  /\ status' = "unclosed" /\ UNCHANGED <<msg, heap, stack, forgotten, wild>>

\* A submessage fails.  pb_decode, which decodes the entries of arrays, releases it first;
\* pb_decode_noinit, for the others, does not.
Unwind ==
  LET p == IF Top.where = "parts" THEN heap[Top.p][Top.i].name ELSE Null IN
  /\ status = "failing" /\ ~Outermost
  /\ stack' = Front(stack) /\ left' = Front(left)
  /\ heap' = IF p = Null THEN heap ELSE [Freed(heap, <<p>>) EXCEPT ![Top.p][Top.i].name = Null]
  /\ wild' = (wild \/ FreesBadly(heap, <<p>>))
  /\ UNCHANGED <<msg, pos, status, forgotten>>

\* pb_release: by pb_decode when it fails, by its caller otherwise
Release ==
  /\ status \in {"failing", "ok"} /\ Outermost
  /\ \/ Wild \in Range(Pointers) /\ Abort
     \/ /\ Wild \notin Range(Pointers)
        /\ status' = IF status = "ok" THEN "released" ELSE "failed"
        /\ heap' = Freed(heap, Pointers) /\ msg' = Defaults
        /\ wild' = (wild \/ FreesBadly(heap, Pointers))
        /\ UNCHANGED <<stack, left, pos, forgotten>>

Next ==
  \/ Fail \/ DecodeName \/ DecodeNames \/ DecodeNums \/ DecodeList \/ DecodeNumber \/ SkipField
  \/ \E n \in 0..Size : DecodePart(n) \/ DecodeParts(n) \/ DecodeUnionSub(n) \/ DecodeUnionRef(n)
  \/ DecodeUnionString \/ DecodeUnionNumber
  \/ EndSubmessage \/ EndMessage \/ DelimitedCloseFails \/ Unwind \/ Release

Spec == Init /\ [][Next]_vars

-------------------------------------------------------------------------------
(* Properties *)

\* All along, every allocated block is owned by exactly one pointer that pb_release would free:
\* nothing is leaked, freed twice, or used after it was freed; but for the submessage of a oneof
\* that comes again, of which the blocks are forgotten.
EveryBlockIsOwned ==
  /\ ~FreesBadly(heap, Pointers)
  /\ DOMAIN heap \subseteq Range(Pointers) \cup forgotten /\ forgotten \cap Range(Pointers) = {}

\* "If pb_decode() returns with an error, the message is already released", and after pb_release
\* nothing is left either, but what was forgotten.
NothingLeftBehind == status \in {"failed", "released"} => DOMAIN heap = forgotten

\* "if there has already been a field inside this oneof, release it before overwriting with a
\* different one": only blocks and null pointers are ever reallocated and freed, but for a number
\* of the oneof that comes before a pointer.
NoWildPointer == ~wild

\* A stream and the substreams cut out of it never share a byte, and none is lost: what has
\* been read and what the open streams have left is the input.
EveryByteOnce ==
  status \in {"decoding", "ok"} => pos + FoldFunction(LAMBDA a, b : a + b, 0, left) = Size

===============================================================================

-------------------------------- MODULE PbEncode --------------------------------
(***************************************************************************)
(* pb_encode of nanopb (pb_encode.c): a message goes out in one pass over  *)
(* its fields, but the length of a submessage or of a packed array comes   *)
(* before its bytes, so that these are encoded first into a stream that    *)
(* only counts, and then again into the real one.  A callback is called in *)
(* every pass, and may write something else each time.                     *)
(*                                                                         *)
(* A tag and a number take one byte, a length one or two.  An output byte  *)
(* is a record of what it is.                                              *)
(***************************************************************************)
EXTENDS Integers, Sequences, FiniteSets, FiniteSetsExt, SequencesExt

CONSTANTS
  MaxSize,      \* the largest buffer
  ShortLength,  \* lengths below this take one byte, the others two
  Depth         \* submessages in submessages

PbEncodeAssumption == MaxSize \in Nat /\ ShortLength \in Nat \ {0} /\ Depth \in Nat

ArraySize == 2

VARIABLES
  msg,       \* the fields of src_struct
  api,       \* "pb_encode", "pb_encode_delimited", "pb_encode_nullterminated"
  next,      \* the field that is next
  stream,    \* the output stream
  done       \* the call has returned

vars == <<msg, api, next, stream, done>>

-------------------------------------------------------------------------------
(* Messages *)

Field(kind, n) == [kind |-> kind, n |-> n, calls |-> <<>>, sub |-> <<>>]

\* has is 0 or 1; the lengths of strings and arrays; a required pointer may be null (0); the
\* callback writes a field with so many bytes of content in its first, second and later calls.
Leaves ==
  {Field("number", has) : has \in 0..1}
    \cup {Field("string", n) : n \in 0..1}
    \cup {Field("required", there) : there \in 0..1}
    \cup {Field("packed", n) : n \in {0, 2, 3}}
    \cup {Field("strings", n) : n \in {0, 2}}
    \cup {[Field("callback", 0) EXCEPT !.calls = c] :
            c \in {<<1, 1, 1>>, <<1, 2, 2>>, <<2, 1, 1>>, <<1, 2, 1>>, <<1, 1, 2>>}}
SubField(m) == [Field("sub", 1) EXCEPT !.sub = m]

RECURSIVE Inner(_)
Inner(depth) ==
  LET subs == IF depth = 0 THEN {} ELSE {SubField(m) : m \in Inner(depth - 1)}
  IN  {<<>>} \cup {<<f>> : f \in Leaves \cup subs}
        \cup {<<f, Field("number", 1)>> : f \in subs}
Messages ==
  LET fields == Leaves \cup {SubField(m) : m \in Inner(Depth)} \cup {Field("sub", 0)}
  IN  {<<f, g>> : f \in fields, g \in {Field("number", 1), Field("packed", 2)}}
        \cup {<<f, f>> : f \in fields}

-------------------------------------------------------------------------------
(* Streams *)

\* calls counts the calls of callbacks, which the passes share.
Stream(writing, max, calls) ==
  [writing |-> writing, max |-> max, written |-> 0, out |-> <<>>, ok |-> TRUE, calls |-> calls]
Sizing(calls) == Stream(FALSE, 0, calls)

\* pb_write with buf_write
pb_write(s, bytes) ==
  IF ~s.ok THEN s
  ELSE IF bytes # <<>> /\ s.writing /\ s.written + Len(bytes) > s.max THEN [s EXCEPT !.ok = FALSE]
  ELSE [s EXCEPT !.written = @ + Len(bytes), !.out = IF s.writing THEN @ \o bytes ELSE @]

\* A pass that only counts adds a size, without bytes.
Count(s, size) == IF s.ok THEN [s EXCEPT !.written = @ + size] ELSE s
Fail(s) == [s EXCEPT !.ok = FALSE]

Byte(is, n) == [is |-> is, n |-> n]
Repeated(byte, n) == [i \in 1..n |-> byte]
Tag(kind) == <<Byte(kind, 0)>>
Length(n) == IF n < ShortLength THEN <<Byte("length", n)>>
             ELSE <<Byte("length", n), Byte("length", 0)>>

\* pb_encode_string
pb_encode_string(s, n) == pb_write(pb_write(s, Length(n)), Repeated(Byte("char", 0), n))

-------------------------------------------------------------------------------
(* Fields *)

\* encode_array: numbers are packed, after a pass over them that counts; strings are not.
PackedArray(s, n) ==
  LET sized == Sizing(s.calls)
      size == pb_write(sized, Repeated(Byte("digit", 0), n)).written
      head == pb_write(pb_write(s, Tag("packed")), Length(size))
  IN  IF n = 0 THEN s
      ELSE IF n > ArraySize \/ ~s.ok THEN Fail(s)
      ELSE IF ~s.writing THEN Count(head, size)
      ELSE pb_write(head, Repeated(Byte("digit", 0), n))
StringArray(s, n) ==
  FoldLeft(LAMBDA acc, i : pb_encode_string(pb_write(acc, Tag("string")), 1), s, [i \in 1..n |-> i])

\* encode_callback_field: the user's function writes a string field, the length of which
\* depends on how often it has been called.
Callback(s, f) ==
  LET call == Min({s.calls + 1, Len(f.calls)})
      counted == [s EXCEPT !.calls = @ + 1]
  IN  IF s.ok THEN pb_encode_string(pb_write(counted, Tag("string")), f.calls[call]) ELSE s

\* Variant: the second pass is not compared with the first.
RECURSIVE pb_encode(_, _)
SubmessageUnverified(s, m) ==
  LET first == pb_encode(Sizing(s.calls), m)
      head == [pb_write(s, Length(first.written)) EXCEPT !.calls = first.calls]
      second == pb_encode(Stream(TRUE, head.max - head.written, head.calls), m)
  IN  IF ~s.ok \/ ~first.ok \/ ~head.ok THEN Fail(s)
      ELSE IF ~s.writing THEN Count(head, first.written)
      ELSE [head EXCEPT !.written = @ + second.written, !.out = @ \o second.out,
                        !.calls = second.calls, !.ok = second.ok]

\* pb_encode_submessage: a pass that counts, the length, and a pass into a stream that has
\* room for exactly that.
Submessage(s, m) ==
  LET first == pb_encode(Sizing(s.calls), m)
      head == [pb_write(s, Length(first.written)) EXCEPT !.calls = first.calls]
      second == pb_encode(Stream(TRUE, first.written, head.calls), m)
  IN  IF ~s.ok \/ ~first.ok \/ ~head.ok THEN Fail(s)
      ELSE IF ~s.writing THEN Count(head, first.written)
      ELSE IF head.written + first.written > head.max THEN Fail(head)
      ELSE [head EXCEPT !.written = @ + second.written, !.out = @ \o second.out, !.calls = second.calls,
                        !.ok = second.ok /\ second.written = first.written]

\* encode_field and encode_basic_field
EncodeField(s, f) ==
  CASE f.kind = "number" -> IF f.n = 0 THEN s ELSE pb_write(pb_write(s, Tag("number")), <<Byte("digit", 0)>>)
    [] f.kind = "string" -> pb_encode_string(pb_write(s, Tag("string")), f.n)
    [] f.kind = "required" -> IF f.n = 0 THEN Fail(s) ELSE pb_encode_string(pb_write(s, Tag("string")), 1)
    [] f.kind = "packed" -> PackedArray(s, f.n)
    [] f.kind = "strings" -> StringArray(s, f.n)
    [] f.kind = "callback" -> Callback(s, f)
    [] f.kind = "sub" -> IF f.n = 0 THEN s ELSE Submessage(pb_write(s, Tag("sub")), f.sub)

\* pb_encode, all fields
pb_encode(s, m) == FoldLeft(EncodeField, s, m)

\* pb_get_encoded_size
EncodedSize(m) == pb_encode(Sizing(0), m)

-------------------------------------------------------------------------------
Init ==
  /\ msg \in Messages /\ api \in {"pb_encode", "pb_encode_delimited", "pb_encode_nullterminated"}
  /\ next = 1 /\ done = FALSE /\ \E max \in 0..MaxSize : stream = Stream(TRUE, max, 0)

\* The loop of pb_encode
EncodeNext ==
  /\ ~done /\ api # "pb_encode_delimited" /\ next <= Len(msg)
  /\ stream' = EncodeField(stream, msg[next]) /\ next' = next + 1
  /\ done' = ~stream'.ok /\ UNCHANGED <<msg, api>>

Return ==
  /\ ~done /\ api = "pb_encode" /\ next > Len(msg)
  /\ done' = TRUE /\ UNCHANGED <<msg, api, next, stream>>

EncodeNullterminated ==
  /\ ~done /\ api = "pb_encode_nullterminated" /\ next > Len(msg)
  /\ stream' = pb_write(stream, <<Byte("zero", 0)>>)
  /\ done' = TRUE /\ UNCHANGED <<msg, api, next>>

EncodeDelimited ==
  /\ ~done /\ api = "pb_encode_delimited"
  /\ stream' = Submessage(stream, msg) /\ next' = Len(msg) + 1
  /\ done' = TRUE /\ UNCHANGED <<msg, api>>

Next == EncodeNext \/ Return \/ EncodeNullterminated \/ EncodeDelimited
Spec == Init /\ [][Next]_vars

-------------------------------------------------------------------------------
(* Properties *)

\* Where reading from position i of the first n bytes of out ends: a field is skipped by its
\* wire type, a submessage is read field by field.  -1: the bytes are no fields.
RECURSIVE ReadFields(_, _, _)
ReadFields(out, i, n) ==
  IF i > n THEN i
  ELSE IF out[i].is = "number" THEN ReadFields(out, i + 2, n)
  ELSE IF out[i].is \notin {"string", "packed", "sub"} \/ i = n \/ out[i + 1].is # "length" THEN -1
  ELSE LET size == out[i + 1].n
           end == i + 1 + Len(Length(size)) + size
       IN  IF end - 1 > n THEN -1
           ELSE IF out[i].is = "sub" /\ ReadFields(out, end - size, end - 1) # end THEN -1
           ELSE ReadFields(out, end, n)
IsMessage(out) == ReadFields(out, 1, Len(out)) = Len(out) + 1

\* The stream never holds more than its limit, and bytes_written is what it holds, whether the
\* call succeeds or fails.
WithinLimit == stream.written <= stream.max /\ stream.written = Len(stream.out)

\* What a call that succeeds has written can be read back: every length is that of the bytes
\* that follow it, even if "a callback" writes "more than what it did the first time".
WellFramed ==
  done /\ stream.ok =>
    CASE api = "pb_encode" -> IsMessage(stream.out)
      [] api = "pb_encode_nullterminated" -> IsMessage(Front(stream.out))
      [] api = "pb_encode_delimited" -> IsMessage(<<Byte("sub", 0)>> \o stream.out)

\* No callback changes its mind.
RECURSIVE Steady(_)
Steady(m) == \A i \in DOMAIN m : m[i].calls \in {<<>>, <<1, 1, 1>>} /\ Steady(m[i].sub)

\* A message without surprises, that is without callbacks that change their mind, is encoded if
\* and only if the buffer has the room that pb_get_encoded_size tells.
SizeIsExact ==
  done /\ Steady(msg) =>
    LET size == EncodedSize(msg)
        extra == CASE api = "pb_encode" -> 0
                   [] api = "pb_encode_nullterminated" -> 1
                   [] api = "pb_encode_delimited" -> Len(Length(size.written))
    IN  /\ stream.ok <=> size.ok /\ size.written + extra <= stream.max
        /\ stream.ok => Len(stream.out) = size.written + extra

===============================================================================

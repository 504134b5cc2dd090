--------------------------------- MODULE Varint ---------------------------------
(***************************************************************************)
(* The variable-length integers of nanopb (pb_decode.c, pb_encode.c) and   *)
(* of leveldb (util/coding.cc), with their real widths: a word is the set  *)
(* of the positions of its bits, a byte a subset of 0..7 whose bit 7 says  *)
(* that more follow.                                                       *)
(*                                                                         *)
(* Four decoders read the same bytes: any bytes, or the encoding of a      *)
(* field of a message.                                                     *)
(***************************************************************************)
EXTENDS Integers, Sequences, FiniteSets, FiniteSetsExt, SequencesExt

CONSTANTS
  Bytes,      \* the bytes that arrive; {}: those of an encoded field
  MaxBytes    \* as many as are read

More == 7
Bits(w) == 0..(w - 1)
Shl(word, n) == {b + n : b \in word}
Shr(word, n) == {b - n : b \in {c \in word : c >= n}}
Low7(byte) == byte \ {More}

VARIABLES
  field,     \* the field that is encoded
  input,     \* its bytes that have not been read; unused when any bytes arrive
  count,     \* bytes read
  value,     \* the number they spell, without a limit on its width
  dec        \* the decoders: whether they go on, the result, and their shift

vars == <<field, input, count, value, dec>>

-------------------------------------------------------------------------------
(* Encoders *)

\* The loop of pb_encode_varint marks every byte.
RECURSIVE PbGroups(_)
PbGroups(word) ==
  IF word = {} THEN <<>>
  ELSE <<(word \cap 0..6) \cup {More}>> \o PbGroups(Shr(word, 7))

\* pb_encode_varint: the mark of the last byte is taken back.
PbEncodeVarint(word) ==
  LET buffer == PbGroups(word)
  IN  IF word \subseteq 0..6 THEN <<word>> ELSE [buffer EXCEPT ![Len(buffer)] = Low7(@)]

\* EncodeVarint64
RECURSIVE EncodeVarint64(_)
EncodeVarint64(word) ==
  IF word \subseteq 0..6 THEN <<word>>
  ELSE <<(word \cap 0..6) \cup {More}>> \o EncodeVarint64(Shr(word, 7))

\* EncodeVarint32: five cases, and the cast of the last byte to a character
EncodeVarint32(word) ==
  LET n == Min({m \in 1..4 : word \subseteq Bits(7 * m)} \cup {5})
  IN  [i \in 1..n |-> LET b == Shr(word, 7 * (i - 1)) \cap 0..7
                      IN  IF i < n THEN b \cup {More} ELSE b]

\* VarintLength
RECURSIVE VarintLength(_)
VarintLength(word) == IF word \subseteq 0..6 THEN 1 ELSE 1 + VarintLength(Shr(word, 7))

-------------------------------------------------------------------------------
(* Fields *)

FieldTypes == {"varint", "uvarint", "svarint"} \X {8, 16, 32, 64} \cup {<<"bool", 1>>, <<"tag", 29>>}

\* The conversion of a w bit number to 64 bits
SignExtend(word, w) == (word \cap Bits(w)) \cup (IF w - 1 \in word THEN w..63 ELSE {})

\* pb_encode_svarint and pb_decode_svarint: the sign goes to bit 0.
Zigzag(word) ==
  LET shifted == Shl(word, 1) \cap Bits(64) IN IF 63 \in word THEN Bits(64) \ shifted ELSE shifted
Unzigzag(word) == IF 0 \in word THEN Bits(64) \ Shr(word, 1) ELSE Shr(word, 1)

\* The 64 bit word that is encoded for a field of w bits that stores word.  The wire type of a
\* tag is 2.
pb_enc_varint(w, word)  == SignExtend(word, w)
pb_enc_uvarint(w, word) == word
pb_enc_svarint(w, word) == Zigzag(SignExtend(word, w))
pb_enc_bool(word)       == IF word = {} THEN {} ELSE {0}
pb_encode_tag(word)     == Shl(word, 3) \cup {1}
ToWire(type, w, word) ==
  CASE type = "varint" -> pb_enc_varint(w, word)
    [] type = "uvarint" -> pb_enc_uvarint(w, word)
    [] type = "svarint" -> pb_enc_svarint(w, word)
    [] type = "bool" -> pb_enc_bool(word)
    [] type = "tag" -> pb_encode_tag(word)

Error == {-1}
Clamp(w, word) == IF SignExtend(word, w) = word THEN word \cap Bits(w) ELSE Error

\* What the field stores for the word that is decoded, if it fits.  A signed field of at most
\* 32 bits takes the low 32 bits for the number.
pb_dec_varint(w, word)  == Clamp(w, IF w = 64 THEN word ELSE SignExtend(word, 32))
pb_dec_uvarint(w, word) == IF word \subseteq Bits(w) THEN word ELSE Error
pb_dec_svarint(w, word) == Clamp(w, Unzigzag(word))
pb_dec_bool(word)       == IF word = {} THEN {} ELSE {0}
pb_decode_tag(word)     == Shr(word, 3)
FromWire(type, w, word) ==
  CASE type = "varint" -> pb_dec_varint(w, word)
    [] type = "uvarint" -> pb_dec_uvarint(w, word)
    [] type = "svarint" -> pb_dec_svarint(w, word)
    [] type = "bool" -> pb_dec_bool(word)
    [] type = "tag" -> pb_decode_tag(word)

\* Numbers at the edges: one bit, the lowest bits and the highest bits
EdgeWords == {{}} \cup {{i} : i \in Bits(64)} \cup {0..i : i \in Bits(64)} \cup {i..63 : i \in Bits(64)}

-------------------------------------------------------------------------------
(* Decoders *)

Decoders == {"pb32", "pb64", "get32", "get64"}
Start == [st |-> "more", result |-> {}, shift |-> 0]
After(d, byte, result) ==
  [st |-> IF More \in byte THEN "more" ELSE "ok", result |-> result, shift |-> (d.shift + 7) % 256]
Overflow(d) == [d EXCEPT !.st = "error"]

\* Variant: the bytes beyond 32 bits are taken as they come.
PbDecodeVarint32Unchecked(d, byte) ==
  After(d, byte, d.result \cup (Shl(Low7(byte), d.shift % 32) \cap Bits(32)))

\* pb_decode_varint32_eof: beyond 32 bits only zeros may follow, or the extension of the sign.
\* The shift is a uint_fast8_t.
PbDecodeVarint32(d, byte) ==
  IF d.shift >= 32 THEN
    LET extension == IF d.shift < 63 THEN 0..7 ELSE {0} IN
    IF Low7(byte) # {} /\ (31 \notin d.result \/ byte # extension)
    THEN Overflow(d)
    ELSE After(d, byte, d.result)
  ELSE IF d.shift = 28 /\ More \notin byte /\ byte \cap 4..6 # {}
    THEN Overflow(d)
    ELSE After(d, byte, d.result \cup (Shl(Low7(byte), d.shift) \cap Bits(32)))

\* pb_decode_varint: another byte is not even read at 64 bits.
PbDecodeVarint(d, byte) ==
  IF More \in byte /\ d.shift + 7 >= 64 THEN Overflow(d)
  ELSE After(d, byte, d.result \cup (Shl(Low7(byte), d.shift) \cap Bits(64)))

\* GetVarint32Ptr and its fallback: five bytes at most
GetVarint32(d, byte) ==
  IF More \in byte /\ d.shift + 7 > 28 THEN Overflow(d)
  ELSE After(d, byte, d.result \cup (Shl(Low7(byte), d.shift) \cap Bits(32)))

\* GetVarint64Ptr: ten
GetVarint64(d, byte) ==
  IF More \in byte /\ d.shift + 7 > 63 THEN Overflow(d)
  ELSE After(d, byte, d.result \cup (Shl(Low7(byte), d.shift) \cap Bits(64)))

Step(name, d, byte) ==
  IF d.st # "more" THEN d
  ELSE CASE name = "pb32" -> PbDecodeVarint32(d, byte)
         [] name = "pb64" -> PbDecodeVarint(d, byte)
         [] name = "get32" -> GetVarint32(d, byte)
         [] name = "get64" -> GetVarint64(d, byte)

-------------------------------------------------------------------------------
Wire == ToWire(field.type, field.w, field.word)

Init ==
  /\ IF Bytes # {} THEN field = [type |-> "uvarint", w |-> 64, word |-> {}]
     ELSE \E ft \in FieldTypes, word \in EdgeWords :
            field = [type |-> ft[1], w |-> ft[2], word |-> word \cap Bits(ft[2])]
  /\ input = IF Bytes # {} THEN <<>> ELSE PbEncodeVarint(Wire)
  /\ count = 0 /\ value = {} /\ dec = [name \in Decoders |-> Start]

Running == \E name \in Decoders : dec[name].st = "more"

Take(byte) ==
  /\ count' = count + 1 /\ value' = value \cup Shl(Low7(byte), 7 * count)
  /\ dec' = [name \in Decoders |-> Step(name, dec[name], byte)]
  /\ UNCHANGED field

\* The decoders read a byte.
ReadAny == /\ Running /\ count < MaxBytes
           /\ \E byte \in Bytes : Take(byte)
           /\ UNCHANGED input
ReadEncoded == input # <<>> /\ Take(Head(input)) /\ input' = Tail(input)

Next == ReadAny \/ ReadEncoded
Spec == Init /\ [][Next]_vars

-------------------------------------------------------------------------------
(* Properties *)

Ok(name) == dec[name].st = "ok"

\* The decoders of nanopb and leveldb for 64 bits agree on all bytes, and with the number that
\* the bytes spell.  Each stops within the bytes that its width can have.
DecodersAgree ==
  /\ dec["pb64"] = dec["get64"]
  /\ \A name \in Decoders, w \in {32, 64} :
       <<name, w>> \in {<<"pb64", 64>>, <<"get64", 64>>, <<"get32", 32>>} =>
         /\ Ok(name) => dec[name].result = value \cap Bits(w)
         /\ dec[name].st = "more" => 7 * count < w

\* Those for 32 bits differ.  What both accept is the same number.  Of what leveldb accepts nanopb
\* refuses the numbers that do not fit, of which leveldb drops bits; and nanopb accepts what
\* leveldb finds too long: every number of 32 bits that the 64 bit decoder accepts, also if it was
\* encoded with its sign extended.
Decoders32Agree ==
  /\ Ok("get32") => (Ok("pb32") <=> value \subseteq Bits(32))
  /\ Ok("get32") /\ Ok("pb32") => dec["get32"].result = dec["pb32"].result
  /\ Ok("pb64") /\ value \in {value \cap Bits(32), SignExtend(value, 32)} => Ok("pb32")

\* The 32 bit decoder of nanopb returns the low 32 bits of what the bytes spell: after them
\* "the varint could have trailing 0x80 bytes, or 0xFF for negative", and nothing else.  But the
\* decoder sets no limit on them, and from the 38th byte on its shift, which has wrapped, is small.
LowBits == Ok("pb32") /\ count < 38 => dec["pb32"].result = value \cap Bits(32)

\* Every field is stored again as it was: the encoders agree, their bytes are read to the last
\* one, a prefix is never taken for a number, and the number comes back.
RoundTrip ==
  Bytes = {} =>
    /\ count = 0 => /\ input = EncodeVarint64(Wire) /\ Len(input) = VarintLength(Wire)
                    /\ Wire \subseteq Bits(32) => input = EncodeVarint32(Wire)
    /\ Ok("pb64") <=> input = <<>>
    /\ Ok("get64") <=> input = <<>>
    /\ Wire \subseteq Bits(32) => (Ok("get32") <=> input = <<>>) /\ (Ok("pb32") <=> input = <<>>)
    /\ input = <<>> =>
         /\ FromWire(field.type, field.w, dec["pb64"].result) = field.word
         /\ Ok("pb32") => dec["pb32"].result = Wire \cap Bits(32)

\* A field that stores a number has not changed it: encoded again it is the same number, in 64
\* bits, or in 32 for a signed field of at most 32.
NothingIsCut ==
  Ok("pb64") =>
    \A ft \in FieldTypes \ {<<"bool", 1>>, <<"tag", 29>>} :
      LET stored == FromWire(ft[1], ft[2], dec["pb64"].result)
          again == ToWire(ft[1], ft[2], stored)
      IN  stored # Error =>
            IF ft[1] = "varint" /\ ft[2] < 64
            THEN again \cap Bits(32) = value \cap Bits(32)
            ELSE again = value \cap Bits(64)

===============================================================================

----------------------------- MODULE MCEncodings ------------------------------
(*****************************************************************************)
(* The wire formats for TLC: messages and varints of nanopb, base64 of       *)
(* SocketRocket.                                                             *)
(*                                                                           *)
(* A behaviour is one of one part, which keeps the variables of its module   *)
(* in the first of v1, v2, ... and leaves the others alone.                  *)
(*****************************************************************************)
EXTENDS Integers

VARIABLES part, v1, v2, v3, v4, v5, v6, v7, v8, v9, v10, v11

-------------------------------------------------------------------------------
Message == INSTANCE PbDecode WITH Fields <- {"name", "names", "part", "parts", "nums", "list"},
    Size <- 14, Delimited <- FALSE, msg <- v1, heap <- v2, stack <- v3, left <- v4, pos <- v5,
    status <- v6, wild <- v7, forgotten <- v8
Union == INSTANCE PbDecode WITH Fields <- {"name", "u_sub", "u_str", "u_ref", "u_num"}, Size <- 14,
    Delimited <- FALSE, msg <- v1, heap <- v2, stack <- v3, left <- v4, pos <- v5, status <- v6,
    wild <- v7, forgotten <- v8
DelimitedUnion == INSTANCE PbDecode WITH Fields <- {"nums", "u_sub", "u_str", "u_num"}, Size <- 12,
    Delimited <- TRUE, msg <- v1, heap <- v2, stack <- v3, left <- v4, pos <- v5, status <- v6,
    wild <- v7, forgotten <- v8
Required == INSTANCE PbFields WITH Kinds <- {"required", "optional"}, MaxFields <- 5, MaxInput <- 5,
    WordBits <- 2, MaxRequired <- 4, fields <- v1, registered <- v2, iter <- v3, seen <- v4,
    range <- v5, count <- v6, status <- v7, got <- v8, inputs <- v9, slots <- v10, found <- v11
Fields == INSTANCE PbFields WITH Kinds <- {"required", "fixed", "small", "large", "extension"},
    MaxFields <- 3, MaxInput <- 5, WordBits <- 2, MaxRequired <- 4, fields <- v1, registered <- v2,
    iter <- v3, seen <- v4, range <- v5, count <- v6, status <- v7, got <- v8, inputs <- v9,
    slots <- v10, found <- v11
Encode == INSTANCE PbEncode WITH MaxSize <- 20, ShortLength <- 4, Depth <- 2, msg <- v1, api <- v2,
    next <- v3, stream <- v4, done <- v5
AnyBytes == INSTANCE Varint WITH Bytes <- {{}, {7}, {0}, 0..7, 0..6, {4, 7}, 0..3}, MaxBytes <- 11,
    field <- v1, input <- v2, count <- v3, value <- v4, dec <- v5
LongBytes == INSTANCE Varint WITH Bytes <- {{}, {7}, {0}, 0..7}, MaxBytes <- 40, field <- v1,
    input <- v2, count <- v3, value <- v4, dec <- v5
Numbers == INSTANCE Varint WITH Bytes <- {}, MaxBytes <- 10, field <- v1, input <- v2, count <- v3,
    value <- v4, dec <- v5
Base == INSTANCE Base64 WITH Bytes <- {0, 1, 90, 255}, MaxBytes <- 4, Digits <- {0, 1, 16, 63},
    MaxChars <- 6, MaxSpaces <- 1, Sizes <- {0, 1, 2, 3, 4, 5, 8, 9}, data <- v1, src <- v2,
    ntop <- v3, text <- v4, any <- v5, pton <- v6, pc <- v7

ASSUME MessageAssumption == Message!PbDecodeAssumption /\ Union!PbDecodeAssumption /\ DelimitedUnion!PbDecodeAssumption
ASSUME FieldsAssumption == Required!PbFieldsAssumption /\ Fields!PbFieldsAssumption
ASSUME BytesAssumption == Encode!PbEncodeAssumption /\ Base!Base64Assumption

-------------------------------------------------------------------------------
\* The variables that the part does not need
after5 == <<v6, v7, v8, v9, v10, v11>>
after7 == <<v8, v9, v10, v11>>
after8 == <<v9, v10, v11>>
vars == <<part, v1, v2, v3, v4, v5, v6, v7, v8, v9, v10, v11>>

Unused5 == v6 = 0 /\ v7 = 0 /\ v8 = 0 /\ v9 = 0 /\ v10 = 0 /\ v11 = 0
Unused7 == v8 = 0 /\ v9 = 0 /\ v10 = 0 /\ v11 = 0
Unused8 == v9 = 0 /\ v10 = 0 /\ v11 = 0

Init ==
  \/ part = "message" /\ Message!Init /\ Unused8
  \/ part = "union" /\ Union!Init /\ Unused8
  \/ part = "delimited_union" /\ DelimitedUnion!Init /\ Unused8
  \/ part = "required" /\ Required!Init
  \/ part = "fields" /\ Fields!Init
  \/ part = "encode" /\ Encode!Init /\ Unused5
  \/ part = "bytes" /\ AnyBytes!Init /\ Unused5
  \/ part = "long_bytes" /\ LongBytes!Init /\ Unused5
  \/ part = "numbers" /\ Numbers!Init /\ Unused5
  \/ part = "base64" /\ Base!Init /\ Unused7

Next ==
  \/ part = "message" /\ Message!Next /\ UNCHANGED <<part, after8>>
  \/ part = "union" /\ Union!Next /\ UNCHANGED <<part, after8>>
  \/ part = "delimited_union" /\ DelimitedUnion!Next /\ UNCHANGED <<part, after8>>
  \/ part = "required" /\ Required!Next /\ UNCHANGED part
  \/ part = "fields" /\ Fields!Next /\ UNCHANGED part
  \/ part = "encode" /\ Encode!Next /\ UNCHANGED <<part, after5>>
  \/ part = "bytes" /\ AnyBytes!Next /\ UNCHANGED <<part, after5>>
  \/ part = "long_bytes" /\ LongBytes!Next /\ UNCHANGED <<part, after5>>
  \/ part = "numbers" /\ Numbers!Next /\ UNCHANGED <<part, after5>>
  \/ part = "base64" /\ Base!Next /\ UNCHANGED <<part, after7>>

Spec == Init /\ [][Next]_vars

-------------------------------------------------------------------------------
\* However the bytes of a message are cut, repeated or wrong, and whichever call of pb_decode
\* fails: every block that was allocated is reached from one field of the message (pb_release
\* frees it, once), no pointer of a message or of a oneof leads elsewhere, after a failure nothing
\* is left, and every byte of the input is read by one field.  The code makes three exceptions:
\* the bits of a number in a oneof are taken for a pointer by the member that follows; what a
\* static submessage of a oneof points to is forgotten when it comes again; and a message that
\* was decoded is not released if the rest of its delimited stream cannot be skipped.
MemoryIsOwned ==
  /\ part = "message" => Message!EveryBlockIsOwned /\ Message!NothingLeftBehind
  /\ part = "message" => Message!NoWildPointer /\ Message!EveryByteOnce
  /\ part = "union" => Union!EveryBlockIsOwned /\ Union!NothingLeftBehind
  /\ part = "union" => Union!NoWildPointer /\ Union!EveryByteOnce
  /\ part = "delimited_union" => DelimitedUnion!EveryBlockIsOwned /\ DelimitedUnion!NothingLeftBehind
  /\ part = "delimited_union" => DelimitedUnion!NoWildPointer /\ DelimitedUnion!EveryByteOnce

\* pb_decode accepts a message exactly when each of its required fields (up to
\* PB_MAX_REQUIRED_FIELDS) came, wherever the search for a field had stopped before; the
\* iterator stands on the field it says, a fixed array that ends well is full, and a
\* field that the message does not know reaches the extension that does.
FieldsAreRight ==
  /\ part = "required" => Required!RequiredIsExact /\ Required!IteratorIsRight
  /\ part = "fields" => Fields!RequiredIsExact /\ Fields!IteratorIsRight
  /\ part = "fields" => Fields!FixedIsFull /\ Fields!ExtensionsFound

\* Into a buffer of any size the encoder writes no byte past its end; what it has encoded
\* with success can be read again, every submessage being as long as the length before it
\* says although it is encoded twice; and a message whose callbacks do not change their
\* mind is encoded if and only if the buffer has the room that pb_get_encoded_size tells.
EncoderIsExact ==
  part = "encode" => Encode!WithinLimit /\ Encode!WellFramed /\ Encode!SizeIsExact

\* The 64 bit decoders of varints in nanopb and in leveldb read the same number from the same
\* bytes or refuse them alike.  The 32 bit decoders read the same number where both accept; nanopb's
\* takes longer forms, as it must for negative numbers, and refuses numbers that do not fit in a
\* fifth byte, where leveldb's drops bits; and it returns the low 32 bits of what it reads, up to
\* 37 bytes.  No decoder of a field cuts off bits of a number that it stores, and what either
\* encoder writes comes back.  Base64 text comes back as the data it was made of, nothing is written
\* outside of the target however small it is, and of all texts for some data one is accepted.
ConversionsAgree ==
  /\ part = "bytes" => AnyBytes!DecodersAgree /\ AnyBytes!Decoders32Agree /\ AnyBytes!LowBits
  /\ part = "bytes" => AnyBytes!NothingIsCut
  /\ part = "long_bytes" => LongBytes!DecodersAgree /\ LongBytes!Decoders32Agree /\ LongBytes!LowBits
  /\ part = "numbers" => Numbers!DecodersAgree /\ Numbers!Decoders32Agree /\ Numbers!LowBits
  /\ part = "numbers" => Numbers!NothingIsCut /\ Numbers!RoundTrip
  /\ part = "base64" => Base!InsideTarget /\ Base!OneTextForData /\ Base!RoundTrip

===============================================================================

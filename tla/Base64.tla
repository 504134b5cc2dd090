-------------------------------- MODULE Base64 --------------------------------
(***************************************************************************)
(* The base 64 conversion of the web socket of FirebaseDatabase            *)
(* (third_party/SocketRocket/fbase64.c).  f_b64_ntop encodes three bytes   *)
(* at a time, f_b64_pton decodes one character at a time into a buffer     *)
(* that may be too small, or missing.  It reads what the encoder made,     *)
(* with white space put in anywhere, or any text.                          *)
(***************************************************************************)
EXTENDS Integers, Sequences, FiniteSetsExt, SequencesExt

CONSTANTS
  Bytes, MaxBytes,    \* the data that are encoded
  Digits,             \* the characters of other texts, by their value in 0..63
  MaxChars,           \* the length of these texts
  MaxSpaces,          \* put into an encoded text
  Sizes               \* targsize

Base64Assumption ==
  Bytes \subseteq 0..255 /\ Digits \subseteq 0..63 /\ {MaxBytes, MaxChars, MaxSpaces} \subseteq Nat /\ Sizes \subseteq Nat

Pad == 64      \* '='
Space == 65
Other == 66    \* not a character of base 64
End == 67      \* '\0'
Garbage == -1  \* what a byte of a buffer is before it is written

VARIABLES
  data,    \* what was to be encoded
  src,     \* what the running conversion has not read: bytes, then characters
  ntop,    \* the target of the encoder and its size
  text,    \* what the decoder has read
  any,     \* it may read anything
  pton,    \* its target, Null if there is none; tarindex and state
  pc       \* "ntop", "digits", "second =", "after =", or how the last call ended

vars == <<data, src, ntop, text, any, pton, pc>>

Buffer(size) == [i \in 0..(size - 1) |-> Garbage]
Null == [i \in {-1} |-> Garbage]  \* no target
Targets == {Null} \cup {Buffer(n) : n \in Sizes}

Init ==
  /\ data \in BoundedSeq(Bytes, MaxBytes) /\ src = data
  /\ any \in BOOLEAN /\ (any => data = <<>>) /\ text = <<>>
  /\ \E n \in (IF any THEN {0} ELSE Sizes) : ntop = [target |-> <<>>, targsize |-> n]
  /\ \E t \in Targets : pton = [target |-> t, tarindex |-> 0, state |-> 0, outside |-> FALSE]
  /\ pc = IF any THEN "digits" ELSE "ntop"

-------------------------------------------------------------------------------
\* f_b64_ntop

\* output[]
Output(a, b, c) == <<a \div 4, (a % 4) * 16 + b \div 16, (b % 16) * 4 + c \div 64, c % 64>>

\* target[datalength++] four times, if there is room
Put(chars, rest) ==
  LET fits == Len(ntop.target) + 4 <= ntop.targsize
  IN  /\ pc' = IF fits THEN "ntop" ELSE "ntop failed"
      /\ ntop' = IF fits THEN [ntop EXCEPT !.target = @ \o chars] ELSE ntop
      /\ src' = rest
      /\ UNCHANGED <<data, text, any, pton>>

EncodeGroup ==
  /\ pc = "ntop" /\ Len(src) > 2
  /\ Put(Output(src[1], src[2], src[3]), SubSeq(src, 4, Len(src)))

EncodeRest ==
  /\ pc = "ntop" /\ Len(src) \in 1..2
  /\ LET o == Output(src[1], IF Len(src) = 2 THEN src[2] ELSE 0, 0)
     IN  Put(<<o[1], o[2], IF Len(src) = 1 THEN Pad ELSE o[3], Pad>>, <<>>)

\* The zero has to fit too; then somebody decodes it.
EncodeEnd ==
  /\ pc = "ntop" /\ src = <<>>
  /\ LET fits == Len(ntop.target) < ntop.targsize
     IN  /\ pc' = IF fits THEN "digits" ELSE "ntop failed"
         /\ src' = IF fits THEN ntop.target ELSE src
  /\ UNCHANGED <<data, ntop, text, any, pton>>

-------------------------------------------------------------------------------
\* f_b64_pton

\* *src++
Read(ch) ==
  /\ pc \in {"digits", "second =", "after ="}
  /\ \/ any /\ ch \in Digits \cup {Pad, Other} /\ Len(text) < MaxChars /\ src' = src
     \/ ch = Space /\ Len(text) + Len(src) < (IF any THEN MaxChars ELSE Len(ntop.target) + MaxSpaces) /\ src' = src
     \/ ~any /\ src # <<>> /\ ch = Head(src) /\ src' = Tail(src)
     \/ src = <<>> /\ ch = End /\ src' = src
  /\ text' = Append(text, ch)
  /\ UNCHANGED <<data, ntop, any>>

Return(how) == pc' = how /\ UNCHANGED pton

SkipSpace == Read(Space) /\ UNCHANGED <<pton, pc>>

NotBase64 == pc = "digits" /\ Read(Other) /\ Return("pton failed")

\* The bits of a digit that complete the byte at tarindex, and those that begin the next
High(d, state) == <<d * 4, d \div 16, d \div 4, d>>[state + 1]
Low(d, state) == <<0, (d % 16) * 16, (d % 4) * 64, 0>>[state + 1]

\* target[i] = value, |= if it is old; the bits do not overlap
Store(p, i, value, old) ==
  IF i \notin DOMAIN p.target \/ (old /\ p.target[i] = Garbage) THEN [p EXCEPT !.outside = TRUE]
  ELSE [p EXCEPT !.target[i] = value + (IF old THEN @ ELSE 0)]

\* tarindex, or tarindex + 1 when two bytes are written, is less than targsize
Room(p) == p.target = Null \/ (p.tarindex + (IF p.state \in {1, 2} THEN 1 ELSE 0)) \in DOMAIN p.target

Digit(d) ==
  /\ pc = "digits" /\ Read(d)
  /\ IF ~Room(pton) THEN Return("pton failed")
     ELSE LET first == IF pton.target = Null THEN pton ELSE Store(pton, pton.tarindex, High(d, pton.state), pton.state # 0)
              both == IF pton.target = Null \/ pton.state \in {0, 3} THEN first
                      ELSE Store(first, pton.tarindex + 1, Low(d, pton.state), FALSE)
          IN  /\ pton' = [both EXCEPT !.tarindex = @ + (IF pton.state = 0 THEN 0 ELSE 1), !.state = (@ + 1) % 4]
              /\ pc' = pc

PadFound ==
  /\ pc = "digits" /\ Read(Pad)
  /\ Return(CASE pton.state = 2 -> "second =" [] pton.state = 3 -> "after =" [] OTHER -> "pton failed")

EndFound == pc = "digits" /\ Read(End) /\ Return(IF pton.state = 0 THEN "decoded" ELSE "pton failed")

SecondPad == pc = "second =" /\ Read(Pad) /\ Return("after =")

NoSecondPad == pc = "second =" /\ (\E ch \in Digits \cup {Other, End} : Read(ch)) /\ Return("pton failed")

AfterPads == pc = "after =" /\ (\E ch \in Digits \cup {Pad, Other} : Read(ch)) /\ Return("pton failed")

\* The bits that slopped past the last byte must be zero.
EndAfterPads ==
  /\ pc = "after =" /\ Read(End)
  /\ Return(IF pton.target # Null /\ pton.target[pton.tarindex] # 0 THEN "pton failed" ELSE "decoded")

Next ==
  \/ EncodeGroup \/ EncodeRest \/ EncodeEnd
  \/ SkipSpace \/ NotBase64 \/ (\E d \in 0..63 : Digit(d)) \/ PadFound \/ EndFound
  \/ SecondPad \/ NoSecondPad \/ AfterPads \/ EndAfterPads

Spec == Init /\ [][Next]_vars

-------------------------------------------------------------------------------
\* The encoding by its definition: the bits in groups of six, filled up with zeros to whole
\* digits, and with '=' to four characters.
BitOf(d, i) == IF i < 8 * Len(d) THEN (d[i \div 8 + 1] \div 2^(7 - (i % 8))) % 2 ELSE 0
DigitOf(d, k) == MapThenSumSet(LAMBDA j : BitOf(d, 6 * k + j) * 2^(5 - j), 0..5)
Encoding(d) ==
  [k \in 1..(4 * ((Len(d) + 2) \div 3)) |-> IF 6 * (k - 1) < 8 * Len(d) THEN DigitOf(d, k - 1) ELSE Pad]

Characters == SelectSeq(text, LAMBDA ch : ch \notin {Space, End})
Decoded == [i \in 1..pton.tarindex |-> pton.target[i - 1]]

\* No byte outside of the target, and none that was not written, is touched, however small the
\* target is and wherever the text ends.
InsideTarget ==
  /\ ~pton.outside
  /\ pc = "after =" /\ pton.target # Null => pton.tarindex \in DOMAIN pton.target /\ pton.target[pton.tarindex] # Garbage

\* Of every data there is one text that is accepted, apart from white space: a text that is
\* accepted is the encoding of what it was decoded to.
OneTextForData == pc = "decoded" /\ pton.target # Null => Characters = Encoding(Decoded)

\* What f_b64_ntop has encoded comes back, with white space in it or not.  The encoder fails only
\* for want of room for the text and its zero, the decoder only for want of a byte of room,
\* and one more where the data end inside of a group.
RoundTrip ==
  ~any =>
    /\ pc = "ntop failed" <=> ntop.targsize <= Len(Encoding(data)) /\ pc # "ntop"
    /\ pc = "pton failed" => Cardinality(DOMAIN pton.target) < Len(data) + (IF Len(data) % 3 = 0 THEN 0 ELSE 1)
    /\ pc = "decoded" /\ pton.target # Null => Decoded = data
    /\ pc = "decoded" => pton.tarindex = Len(data)
===============================================================================

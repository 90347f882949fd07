------------------------------ MODULE UTF8Decoder -----------------------------
(***************************************************************************)
(* UTF8StreamDecoder and encodeUTF8 (util/utf-8.{hpp,cpp}) between a byte  *)
(* input and a reader that takes characters until the end of the file.     *)
(*                                                                         *)
(* The decoder works in the buffer of its input, and stops three bytes     *)
(* before its end so that it never needs a byte that is not there; what is *)
(* left in the buffer goes in front of the next fill.  When the input has  *)
(* no more than three bytes left they are decoded in a small array, padded *)
(* with 0xFF.  Offsets count from 0, as in the code.                       *)
(*                                                                         *)
(* A definition marked "Faulty" is not part of the model: it is what a     *)
(* plausible slip would make of the one behind it.                         *)
(***************************************************************************)
EXTENDS Integers, Sequences

CONSTANTS
  Source,          \* the possible contents of the input: sequences of bytes
  Window,          \* the possible numbers of bytes a filled input buffer has
  OutSize,         \* characters per doRead: BUFSIZE - UNGET_LIMIT
  StackByte        \* what the bytes behind the small array may hold

MAX_UTF8_LEN == 4

ASSUME SourceAssumption == Source \subseteq Seq(0..255)
ASSUME WindowAssumption == \A w \in Window : w \in Nat /\ w >= MAX_UTF8_LEN
ASSUME OutSizeAssumption == OutSize \in Nat \ {0}

VARIABLES
  bytes,           \* the contents of the input
  window,          \* size of the input buffer
  inHead,          \* m_in.offset()
  inTail,          \* the offset of m_in.tail()
  pc,              \* "read": in the loop of doRead; "decode": of decodeBuffer
  from,            \* the offset of decodeBuffer's from
  out,             \* the characters decoded so far
  tail,            \* m_tail: how many of them have been stored by decodeBuffer
  end,             \* the end of the buffer that doRead fills
  errors,          \* what m_errors was told: [in, out]
  eof              \* the reader has met the end of the file

vars == <<bytes, window, inHead, inTail, pc, from, out, tail, end, errors, eof>>

UNICODE_REPLACEMENT_CHARACTER == 65533
UNICODE_MAX_VALUE == 1114111

-----------------------------------------------------------------------------
(* encodeUTF8, up to the four bytes that a code point needs                *)
Continuation(cp, shift) == ((cp \div shift) % 64) + 128

encodeUTF8(cp) ==
  IF cp <= 127 THEN <<cp>>
  ELSE IF cp <= 2047
  THEN <<(cp \div 64) + 192, Continuation(cp, 1)>>
  ELSE IF cp <= 65535
  THEN <<(cp \div 4096) + 224, Continuation(cp, 64), Continuation(cp, 1)>>
  ELSE <<((cp \div 262144) % 8) + 240, Continuation(cp, 4096), Continuation(cp, 64),
         Continuation(cp, 1)>>

-----------------------------------------------------------------------------
(* decodeBuffer, one character: b[0], ..., b[3] are the bytes at "from".   *)

(* How far the lead byte makes "from" advance.                             *)
SizeOf(ch) ==
  IF ch \div 32 = 6 THEN 2
  ELSE IF ch \div 16 = 14 THEN 3
  ELSE IF ch \div 8 = 30 THEN 4
  ELSE 1

ContinuationBytes(b, n) == \A i \in 1..(n - 1) : b[i] \div 64 = 2

Assembled(b, n) ==
  IF n = 1 THEN b[0]
  ELSE IF n = 2 THEN (b[0] % 32) * 64 + (b[1] % 64)
  ELSE IF n = 3 THEN (b[0] % 16) * 4096 + (b[1] % 64) * 64 + (b[2] % 64)
  ELSE (b[0] % 8) * 262144 + (b[1] % 64) * 4096 + (b[2] % 64) * 64 + (b[3] % 64)

(* Encodings that are not the shortest, surrogates and values beyond the   *)
(* last code point are refused; so is a byte that cannot lead.             *)
AcceptableSurrogates(n, cp) ==      \* faulty
  \/ n = 1 /\ cp <= 127
  \/ n = 2 /\ cp > 127
  \/ n = 3 /\ cp > 2047
  \/ n = 4 /\ cp > 65535 /\ cp <= UNICODE_MAX_VALUE

Acceptable(n, cp) ==
  \/ n = 1 /\ cp <= 127
  \/ n = 2 /\ cp > 127
  \/ n = 3 /\ cp > 2047 /\ ~(cp >= 55296 /\ cp <= 57343)
  \/ n = 4 /\ cp > 65535 /\ cp <= UNICODE_MAX_VALUE

Decoded(b) ==
  LET n == SizeOf(b[0])
      valid == ContinuationBytes(b, n) /\ Acceptable(n, Assembled(b, n))
  IN  [size |-> n, valid |-> valid,
       result |-> IF valid THEN Assembled(b, n) ELSE UNICODE_REPLACEMENT_CHARACTER]

-----------------------------------------------------------------------------
Init ==
  /\ bytes \in Source
  /\ window \in Window
  /\ inHead = 0
  /\ inTail = 0
  /\ pc = "idle"
  /\ from = 0
  /\ out = <<>>
  /\ tail = 0
  /\ end = 0
  /\ errors = <<>>
  /\ eof = FALSE

available == inTail - inHead

(* The reader has taken all characters and asks for another one: slowGet   *)
(* calls fillBuffer, that calls doRead.                                    *)
Get ==
  /\ pc = "idle"
  /\ ~eof
  /\ pc' = "read"
  /\ end' = tail + OutSize
  /\ UNCHANGED <<bytes, window, inHead, inTail, from, out, tail, errors, eof>>

(* An input buffer with fewer than MAX_UTF8_LEN bytes is filled.           *)
inTailFilled ==
  IF available >= MAX_UTF8_LEN THEN inTail
  ELSE IF inHead + window < Len(bytes) THEN inHead + window ELSE Len(bytes)

(* doRead returns with what was decoded, m_tail being what it was at the   *)
(* start if nothing was.  Faulty: compared with the end.                   *)
AtEndOfBuffer == tail = end
NothingDecoded == tail = end - OutSize

(* The loop of doRead, up to decodeBuffer or to the return at an end of    *)
(* file; the reader meets it if nothing was decoded.                       *)
DoRead ==
  /\ pc = "read"
  /\ inTail' = inTailFilled
  /\ IF inTailFilled = inHead
     THEN /\ pc' = "idle"
          /\ eof' = NothingDecoded
          /\ UNCHANGED from
     ELSE /\ pc' = "decode"
          /\ from' = inHead
          /\ UNCHANGED eof
  /\ UNCHANGED <<bytes, window, inHead, out, tail, end, errors>>

(* decodeBuffer's "to": the end of the small array's contents, or of the   *)
(* bytes of the buffer that have three more behind them.                   *)
SlowPath == available < MAX_UTF8_LEN
toTail == inTail        \* faulty: nothing is kept back
to == IF SlowPath THEN inTail ELSE inTail - MAX_UTF8_LEN + 1

(* What decodeBuffer sees at an offset: the input, behind it the padding   *)
(* of the small array, and behind that what the stack happens to hold.     *)
ByteAt(o, stack) ==
  IF o < inTail THEN bytes[o + 1]
  ELSE IF o - inHead < MAX_UTF8_LEN THEN 255
  ELSE stack[o - inHead]

(* UTF8StreamDecoder::outOffset, before the characters of this call are    *)
(* stored                                                                  *)
outOffset == tail

(* How far the input advances when decoding stopped before "next": not     *)
(* beyond its end.  Faulty: that is not looked at; all of it is skipped.   *)
ConsumedUnchecked(next) == next
ConsumedAll(next) == inTail
Consumed(next) == IF next < inTail THEN next ELSE inTail

(* One round of decodeBuffer's loop and, after the last one, the rest of   *)
(* doRead's: m_tail is stored and the input advances by what was decoded.  *)
DecodeBuffer ==
  /\ pc = "decode"
  /\ \E stack \in [MAX_UTF8_LEN..(MAX_UTF8_LEN + 1) -> StackByte] :
       LET char == Decoded([i \in 0..(MAX_UTF8_LEN - 1) |->
                              IF i < SizeOf(bytes[from + 1])
                              THEN ByteAt(from + i, stack) ELSE 0])
           next == from + char.size
           full == Len(out) + 1 = end
       IN  /\ out' = Append(out, char.result)
           /\ errors' = IF char.valid THEN errors
                        ELSE Append(errors, [in |-> from, out |-> outOffset])
           /\ from' = next
           /\ IF next < to /\ ~full
              THEN UNCHANGED <<pc, tail, inHead>>
              ELSE /\ tail' = Len(out) + 1
                   /\ inHead' = Consumed(next)
                   /\ pc' = IF full THEN "idle" ELSE "read"
  /\ UNCHANGED <<bytes, window, inTail, end, eof>>

Next == Get \/ DoRead \/ DecodeBuffer

Spec == Init /\ [][Next]_vars

(* Nothing blocks, and the reader goes on until it meets the end.          *)
FairSpec == Spec /\ WF_vars(Next)

-----------------------------------------------------------------------------
TypeOK ==
  /\ bytes \in Seq(0..255)
  /\ window \in Window
  /\ inHead \in 0..Len(bytes)
  /\ inTail \in inHead..Len(bytes)
  /\ pc \in {"idle", "read", "decode"}
  /\ from \in Nat
  /\ out \in Seq(Nat)
  /\ tail \in 0..Len(out)
  /\ end \in Nat
  /\ errors \in Seq([in : Nat, out : Nat])
  /\ eof \in BOOLEAN

Text == INSTANCE UnicodeText

(* However the characters fall on the ends of buffers, on both sides, they *)
(* are those of the whole input, and encoding one gives back the bytes it  *)
(* was decoded from.                                                       *)
DecodesTheText ==
  LET text == Text!Decoding(bytes)
  IN  /\ Len(out) <= Len(text)
      /\ \A k \in 1..Len(out) :
           LET s == Text!BytesOfChar(bytes, k)
           IN  out[k] = text[k] /\ (Text!WellFormed(s) => encodeUTF8(out[k]) = s)
      /\ eof => out = text

(* Every ill-formed character is reported, once and where it is.           *)
ReportsIllFormed ==
  LET told == {errors[i].in : i \in 1..Len(errors)}
      reached == {o \in Text!IllFormed(bytes) : o < IF pc = "decode" THEN from ELSE inHead}
  IN  /\ told = reached
      /\ \A i, j \in 1..Len(errors) : i < j => errors[i].in < errors[j].in

(* Outside of decodeBuffer the input stands at the beginning of the        *)
(* character that comes next, and doRead has not written past its end.     *)
StopsBetweenCharacters ==
  /\ pc # "decode" =>
       inHead = LET p == Text!StartOf(bytes)[Len(out)]
                IN  IF p < Len(bytes) THEN p ELSE Len(bytes)
  /\ Len(out) <= end

(* Every character is decoded in the end, and the end is met.              *)
ReachesTheEnd == <>eof

===============================================================================

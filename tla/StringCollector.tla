---------------------------- MODULE StringCollector ---------------------------
(***************************************************************************)
(* detail::StringCollector (parser/StringCollector.cpp and its header): a  *)
(* buffer that starts inside the object, moves to the heap when it grows,  *)
(* and may itself become the string that is made of its contents.          *)
(*                                                                         *)
(* "memory" is all the memory there ever was, the static buffer first;     *)
(* m_buf is an index into it.  Fresh memory holds Junk.  Sizes stay far    *)
(* below 2^30, where m_len*4 would wrap.                                   *)
(*                                                                         *)
(* A definition marked "Faulty" is not part of the model: it is what a     *)
(* plausible slip would make of the one behind it.                         *)
(***************************************************************************)
EXTENDS Integers, Sequences

CONSTANTS
  Char,            \* the bytes of texts
  Junk,            \* what memory holds that nobody wrote
  Piece,           \* what is appended at once: sequences of bytes
  Encoding,        \* the ones among them that encodeUTF8 writes
  StaticSize,      \* sizeof(m_staticBuf)
  EncodingRoom     \* the free space that appendUTF8 asks for

ASSUME PieceAssumption ==
  /\ Piece \subseteq Seq(Char)
  /\ Encoding \subseteq Piece

ASSUME SizeAssumption ==
  /\ StaticSize \in Nat
  /\ EncodingRoom \in Nat
  /\ \A e \in Encoding : Len(e) <= EncodingRoom

VARIABLES
  memory,          \* the buffers
  buf,             \* m_buf
  bufSize,         \* m_bufSize
  len,             \* m_len
  made             \* the strings made: [at, len]

vars == <<memory, buf, bufSize, len, made>>

static == 1

Byte == Char \cup {Junk}
Fresh(size) == [i \in 1..size |-> Junk]

Init ==
  /\ memory = <<Fresh(StaticSize)>>
  /\ buf = static
  /\ bufSize = StaticSize
  /\ len = 0
  /\ made = <<>>

-----------------------------------------------------------------------------
(* growBuffer.  Faulty: only doubles the size.                             *)
DoubledSize(minSize) == 2 * bufSize

NewSize(minSize) == IF 2 * bufSize < minSize THEN minSize ELSE 2 * bufSize

Grown(minSize) ==
  [memory |-> Append(memory, [i \in 1..NewSize(minSize) |->
                                IF i <= len THEN memory[buf][i] ELSE Junk]),
   buf |-> Len(memory) + 1,
   bufSize |-> NewSize(minSize)]

(* ensureFreeSpace                                                         *)
Ensured(freeSpace) ==
  IF len + freeSpace > bufSize THEN Grown(len + freeSpace)
  ELSE [memory |-> memory, buf |-> buf, bufSize |-> bufSize]

(* The piece is written behind the text, in the buffer "in" describes.     *)
Write(in, piece) ==
  /\ memory' = [in.memory EXCEPT ![in.buf] =
                  [i \in DOMAIN @ |-> IF i \in (len + 1)..(len + Len(piece))
                                      THEN piece[i - len] ELSE @[i]]]
  /\ buf' = in.buf
  /\ bufSize' = in.bufSize
  /\ len' = len + Len(piece)
  /\ UNCHANGED made

(* append, of one char or of several                                       *)
AppendPiece(piece) == Write(Ensured(Len(piece)), piece)

(* appendUTF8; appendCodePoint of a code point below 128 is append.        *)
AppendUTF8(encoding) == Write(Ensured(EncodingRoom), encoding)

Reset ==
  /\ len' = 0
  /\ UNCHANGED <<memory, buf, bufSize, made>>

(* createGCString.  A heap buffer that is full to three quarters becomes   *)
(* the string; otherwise the text is copied.                               *)
FullEnough == buf # static /\ 4 * len >= 3 * bufSize

(* Faulty: the collector goes on using the buffer.                         *)
HandOverKept ==
  /\ FullEnough
  /\ made' = Append(made, [at |-> buf, len |-> len])
  /\ len' = 0
  /\ UNCHANGED <<memory, buf, bufSize>>

HandOver ==
  /\ FullEnough
  /\ made' = Append(made, [at |-> buf, len |-> len])
  /\ buf' = static
  /\ bufSize' = StaticSize
  /\ len' = 0
  /\ UNCHANGED memory

(* Faulty: the text is kept.                                               *)
CopyKeepsText ==
  /\ ~FullEnough
  /\ memory' = Append(memory, SubSeq(memory[buf], 1, len))
  /\ made' = Append(made, [at |-> Len(memory) + 1, len |-> len])
  /\ UNCHANGED <<buf, bufSize, len>>

Copy ==
  /\ ~FullEnough
  /\ memory' = Append(memory, SubSeq(memory[buf], 1, len))
  /\ made' = Append(made, [at |-> Len(memory) + 1, len |-> len])
  /\ len' = 0
  /\ UNCHANGED <<buf, bufSize>>

Next ==
  \/ \E piece \in Piece : AppendPiece(piece)
  \/ \E encoding \in Encoding : AppendUTF8(encoding)
  \/ Reset
  \/ HandOver
  \/ Copy

Spec == Init /\ [][Next]_vars

-----------------------------------------------------------------------------
(* m_bufSize is the size of the buffer m_buf points to, and no write, of   *)
(* a text of any length or of an encoded character, goes beyond it.        *)
TypeOK ==
  /\ memory \in Seq(Seq(Byte))
  /\ buf \in 1..Len(memory)
  /\ Len(memory[buf]) = bufSize
  /\ len \in 0..bufSize
  /\ made \in Seq([at : Nat, len : Nat])

(* The destructor frees m_buf if it is on the heap: it is never the memory *)
(* of a string that was handed out.                                        *)
FreesOnlyItsOwn ==
  buf # static => \A i \in 1..Len(made) : made[i].at # buf

(* Through growth, hand-over and re-use of the buffers, the text is what   *)
(* was appended, and a string that was made stays what it was then.        *)
Text(at, n) == SubSeq(memory[at], 1, n)

Builder == INSTANCE StringBuilder WITH
  text <- Text(buf, len),
  strings <- [i \in 1..Len(made) |-> Text(made[i].at, made[i].len)]

ImplementsBuilder == Builder!Spec

===============================================================================

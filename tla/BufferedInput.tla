----------------------------- MODULE BufferedInput ----------------------------
(***************************************************************************)
(* FastInput and BufferedInput (util/FastInput.hpp) over a source read by  *)
(* FastFileInput or FastStdioInput.                                        *)
(*                                                                         *)
(* The unread elements are buf[head], ..., buf[tail - 1]; pointers are     *)
(* indices from 0.  The reader is a program that keeps the contract of     *)
(* unget: it puts back no more than UngetLimit of the elements it has      *)
(* read.  Which elements it puts back is up to it.                         *)
(*                                                                         *)
(* A definition marked "Faulty" is not part of the model: it is what a     *)
(* plausible slip would make of the one behind it.                         *)
(***************************************************************************)
EXTENDS Integers, Sequences

CONSTANTS
  Elem,            \* the elements that buffers hold
  Returned,        \* the ones among them that readers put back
  Source,          \* the possible contents of the source: sequences of Elem
  BufSize,         \* m_bufSize
  UngetLimit       \* UNGET_LIMIT

(* The assertion of the constructor.                                       *)
ASSUME BufSizeAssumption ==
  /\ UngetLimit \in Nat
  /\ BufSize \in Nat
  /\ BufSize > UngetLimit

ASSUME SourceAssumption == Source \subseteq Seq(Elem) /\ Returned \subseteq Elem

VARIABLES
  buf,             \* m_buf
  head, tail,      \* m_head - m_buf, m_tail - m_buf
  bufOffset,       \* m_bufOffset
  src,             \* what the source has not delivered yet
  want,            \* elements a slowRead in progress still has to fetch
  res,             \* what the last call returned, <<>> for end of file
  debt             \* elements put back and not read again (the reader's own)

vars == <<buf, head, tail, bufOffset, src, want, res, debt>>

Smaller(a, b) == IF a < b THEN a ELSE b

Available == tail - head
Offset == bufOffset + head
Unread == [i \in 1..Available |-> buf[head + i - 1]]

Init ==
  /\ buf \in [0..(BufSize - 1) -> Elem]
  /\ head = 0
  /\ tail = 0
  /\ bufOffset = 0
  /\ src \in Source
  /\ want = 0
  /\ res = <<>>
  /\ debt = 0

-----------------------------------------------------------------------------
(* BufferedInput::fillBuffer makes room, then reads.  Unread data is moved *)
(* down if there is more than UngetLimit before it; an empty buffer starts *)
(* again behind the room for unget.                                        *)
Moved(first, offset) ==
  [buf |-> [i \in DOMAIN buf |->
              IF i \in first..(first + Available - 1)
              THEN buf[i - first + head] ELSE buf[i]],
   head |-> first,
   tail |-> first + Available,
   bufOffset |-> offset]

Stay == [buf |-> buf, head |-> head, tail |-> tail, bufOffset |-> bufOffset]

(* Faulty: no room is left for unget; it is forgotten in the offset.       *)
RoomAtFront ==
  IF head < tail /\ head <= UngetLimit THEN Stay ELSE Moved(0, bufOffset + head)

RoomMiscounted ==
  IF head < tail /\ head <= UngetLimit THEN Stay
  ELSE Moved(UngetLimit, bufOffset + head)

Room ==
  IF head < tail /\ head <= UngetLimit THEN Stay
  ELSE Moved(UngetLimit, bufOffset + head - UngetLimit)

(* doRead asks for all the space behind the unread data.  It gets k        *)
(* elements when the source ends, for now or for good, or fails after k.   *)
ReadableTooMuch == 0..Smaller(BufSize - Room.tail + 1, Len(src))   \* faulty

Readable == 0..Smaller(BufSize - Room.tail, Len(src))

Filled(k) ==
  [Room EXCEPT !.tail = @ + k,
               !.buf = [i \in DOMAIN buf |->
                          IF i \in Room.tail..(Room.tail + k - 1)
                          THEN src[i - Room.tail + 1] ELSE Room.buf[i]]]

SetInput(in, k) ==
  /\ buf' = in.buf
  /\ tail' = in.tail
  /\ bufOffset' = in.bufOffset
  /\ src' = SubSeq(src, k + 1, Len(src))

(* n elements of the buffer "in" are taken.                                *)
Consume(in, n) ==
  /\ head' = in.head + n
  /\ res' = [i \in 1..n |-> in.buf[in.head + i - 1]]
  /\ debt' = IF debt > n THEN debt - n ELSE 0

-----------------------------------------------------------------------------
(* FastInput::get with slowGet *)
Get ==
  /\ want = 0
  /\ IF head # tail
     THEN /\ Consume([buf |-> buf, head |-> head], 1)
          /\ UNCHANGED <<buf, tail, bufOffset, src>>
     ELSE \E k \in Readable :
            /\ SetInput(Filled(k), k)
            /\ Consume(Filled(k), IF k > 0 THEN 1 ELSE 0)
  /\ UNCHANGED want

(* FastInput::peek with slowPeek *)
Peek ==
  /\ want = 0
  /\ IF head # tail
     THEN /\ res' = <<buf[head]>>
          /\ UNCHANGED <<buf, head, tail, bufOffset, src>>
     ELSE \E k \in Readable :
            /\ SetInput(Filled(k), k)
            /\ head' = Filled(k).head
            /\ res' = IF k > 0 THEN <<Filled(k).buf[head']>> ELSE <<>>
  /\ UNCHANGED <<want, debt>>

(* FastInput::advance: the reader used head() and tail() and skips len     *)
(* elements; the assertion asks that they were there.                      *)
Advance(len) ==
  /\ want = 0
  /\ len <= Available
  /\ head' = head + len
  /\ debt' = IF debt > len THEN debt - len ELSE 0
  /\ UNCHANGED <<buf, tail, bufOffset, src, want, res>>

(* FastInput::read, when the buffer holds all of count.                    *)
Read(count) ==
  /\ want = 0
  /\ count <= Available
  /\ Consume([buf |-> buf, head |-> head], count)
  /\ UNCHANGED <<buf, tail, bufOffset, src, want>>

(* FastInput::slowRead: the rest of the buffer, then as many fills as it   *)
(* takes; it ends early when a fill brings nothing.                        *)
SlowRead(count) ==
  /\ want = 0
  /\ count > Available
  /\ Consume([buf |-> buf, head |-> head], Available)
  /\ want' = count - Available
  /\ UNCHANGED <<buf, tail, bufOffset, src>>

SlowReadMore ==
  /\ want > 0
  /\ \E k \in Readable :
       LET in == Filled(k)
           len == Smaller(k, want)
       IN  /\ SetInput(in, k)
           /\ Consume(in, len)
           /\ want' = IF k = 0 THEN 0 ELSE want - len

(* BufferedInput::fillBuffer, called by a reader that wants more lookahead *)
(* than the buffer holds, or by a get, peek or read that doRead left with  *)
(* an io_error.                                                            *)
FillBuffer ==
  /\ \E k \in Readable :
       /\ SetInput(Filled(k), k)
       /\ head' = Filled(k).head
  /\ want' = 0
  /\ UNCHANGED <<res, debt>>

(* BufferedInput::unget.  The assertion m_head > m_buf is in HasRoom.      *)
MayUnget == want = 0 /\ debt < UngetLimit /\ Offset > 0

Unget(x) ==
  /\ MayUnget
  /\ head' = head - 1
  /\ buf' = [buf EXCEPT ![head - 1] = x]
  /\ debt' = debt + 1
  /\ UNCHANGED <<tail, bufOffset, src, want, res>>

Next ==
  \/ Get
  \/ Peek
  \/ \E n \in 1..BufSize : Advance(n) \/ Read(n) \/ SlowRead(n)
  \/ SlowReadMore
  \/ FillBuffer
  \/ \E x \in Returned : Unget(x)

Spec == Init /\ [][Next]_vars

-----------------------------------------------------------------------------
TypeOK ==
  /\ buf \in [0..(BufSize - 1) -> Elem]
  /\ head \in 0..BufSize
  /\ tail \in 0..BufSize
  /\ head <= tail
  /\ bufOffset \in Int
  /\ src \in Seq(Elem)
  /\ want \in Nat
  /\ res \in Seq(Elem)
  /\ debt \in 0..UngetLimit

(* Wherever refills happen there is room on both sides: for what a reader  *)
(* puts back that keeps to UngetLimit (the assertion of unget), and, once  *)
(* the buffer is empty, for doRead, so that only the source reports an end *)
(* of file.                                                                *)
HasRoom ==
  /\ MayUnget => head > 0
  /\ head = tail => Room.tail < BufSize

(* Neither refills nor put-back elements lose, repeat or reorder anything, *)
(* and offset() counts exactly what was taken.                             *)
Stream == INSTANCE InputStream WITH rest <- Unread \o src, offset <- Offset

ImplementsStream == Stream!Spec

===============================================================================

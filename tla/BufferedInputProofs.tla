-------------------------- MODULE BufferedInputProofs -------------------------
(***************************************************************************)
(* Theorems about BufferedInput, for every buffer size, limit and source.  *)
(***************************************************************************)
EXTENDS BufferedInput, SequenceTheorems, TLAPS

(* The room before the head: until the first fill nothing was read, and    *)
(* from then on the head is at least UngetLimit from the start, less what  *)
(* is put back at the moment.                                              *)
Headroom ==
  \/ head = 0 /\ tail = 0 /\ bufOffset = 0 /\ debt = 0
  \/ head + debt >= UngetLimit

IInv == TypeOK /\ Headroom

-----------------------------------------------------------------------------
(* Making room keeps the unread elements inside the buffer.                *)
LEMMA RoomProperties ==
  ASSUME TypeOK
  PROVE  /\ Room.head \in 0..BufSize /\ Room.tail \in 0..BufSize
         /\ Room.head <= Room.tail
         /\ Room.tail - Room.head = tail - head
         /\ Room.bufOffset \in Int
         /\ Room.bufOffset + Room.head = bufOffset + head
         /\ Room.buf \in [0..(BufSize - 1) -> Elem]
         /\ Room.head = head \/ Room.head = UngetLimit
         /\ head = tail => Room.head = UngetLimit
<1> USE BufSizeAssumption
<1>1. CASE head < tail /\ head <= UngetLimit
  BY <1>1 DEF TypeOK, Room, Stay
<1>2. CASE ~(head < tail /\ head <= UngetLimit)
  <2>1. /\ head \in Nat /\ tail \in Nat /\ head <= tail /\ tail <= BufSize
        /\ UngetLimit + Available <= BufSize
    BY <1>2 DEF TypeOK, Available
  <2>2. \A i \in DOMAIN buf : i \in UngetLimit..(UngetLimit + Available - 1) =>
          i - UngetLimit + head \in DOMAIN buf
    BY <2>1 DEF TypeOK, Available
  <2>3. [i \in DOMAIN buf |-> IF i \in UngetLimit..(UngetLimit + Available - 1)
                             THEN buf[i - UngetLimit + head] ELSE buf[i]]
          \in [0..(BufSize - 1) -> Elem]
    BY <2>2 DEF TypeOK
  <2>4. /\ Room.head = UngetLimit
        /\ Room.tail = UngetLimit + Available
        /\ Room.bufOffset = bufOffset + head - UngetLimit
        /\ Room.buf = [i \in DOMAIN buf |->
                         IF i \in UngetLimit..(UngetLimit + Available - 1)
                         THEN buf[i - UngetLimit + head] ELSE buf[i]]
    BY <1>2 DEF Room, Moved
  <2>5. bufOffset \in Int
    BY DEF TypeOK
  <2>6. Room.buf \in [0..(BufSize - 1) -> Elem]
    BY <2>3, <2>4
  <2>7. /\ Room.head \in 0..BufSize /\ Room.tail \in 0..BufSize
        /\ Room.head <= Room.tail
        /\ Room.tail - Room.head = tail - head
        /\ Room.bufOffset \in Int
        /\ Room.bufOffset + Room.head = bufOffset + head
        /\ Room.head = UngetLimit
    BY <2>1, <2>4, <2>5 DEF Available
  <2> QED BY <2>6, <2>7
<1> QED BY <1>1, <1>2

(* So does reading into it; the offset of the head does not change.        *)
LEMMA FilledProperties ==
  ASSUME TypeOK, NEW k \in Readable
  PROVE  /\ k \in Nat /\ k <= Len(src)
         /\ Filled(k).head = Room.head
         /\ Filled(k).tail = Room.tail + k
         /\ Filled(k).tail \in 0..BufSize
         /\ Filled(k).bufOffset = Room.bufOffset
         /\ Filled(k).buf \in [0..(BufSize - 1) -> Elem]
         /\ SubSeq(src, k + 1, Len(src)) \in Seq(Elem)
<1>1. /\ src \in Seq(Elem) /\ Len(src) \in Nat
      /\ Room.tail \in 0..BufSize /\ Room.buf \in [0..(BufSize - 1) -> Elem]
      /\ DOMAIN buf = 0..(BufSize - 1) /\ BufSize \in Nat
  BY RoomProperties, BufSizeAssumption, LenProperties DEF TypeOK
<1>2. k \in Nat /\ k <= Len(src) /\ Room.tail + k <= BufSize
  BY <1>1 DEF Readable, Smaller
<1>3. \A i \in 1..Len(src) : src[i] \in Elem
  BY <1>1, ElementOfSeq
<1>4. [i \in DOMAIN buf |-> IF i \in Room.tail..(Room.tail + k - 1)
                           THEN src[i - Room.tail + 1] ELSE Room.buf[i]]
        \in [0..(BufSize - 1) -> Elem]
  <2> SUFFICES ASSUME NEW i \in 0..(BufSize - 1)
               PROVE  (IF i \in Room.tail..(Room.tail + k - 1)
                       THEN src[i - Room.tail + 1] ELSE Room.buf[i]) \in Elem
    BY <1>1
  <2>1. CASE i \in Room.tail..(Room.tail + k - 1)
    <3>1. i - Room.tail + 1 \in 1..Len(src)
      BY <1>1, <1>2, <2>1
    <3> QED BY <1>3, <2>1, <3>1
  <2>2. CASE i \notin Room.tail..(Room.tail + k - 1)
    BY <1>1, <2>2
  <2> QED BY <2>1, <2>2
<1>5. SubSeq(src, k + 1, Len(src)) \in Seq(Elem)
  <2>1. k + 1 \in Int /\ Len(src) \in Int /\ \A i \in (k + 1)..Len(src) : src[i] \in Elem
    BY <1>1, <1>2, <1>3
  <2> QED BY <2>1, SubSeqProperties
<1>6. PICK b, h, t, o : Room = [buf |-> b, head |-> h, tail |-> t, bufOffset |-> o]
  BY DEF Room, Stay, Moved
<1>7. Filled(k) = [buf |-> [i \in DOMAIN buf |-> IF i \in Room.tail..(Room.tail + k - 1)
                                                 THEN src[i - Room.tail + 1] ELSE Room.buf[i]],
                   head |-> Room.head, tail |-> Room.tail + k, bufOffset |-> Room.bufOffset]
  <2> DEFINE f == [i \in DOMAIN buf |-> IF i \in Room.tail..(Room.tail + k - 1)
                                      THEN src[i - Room.tail + 1] ELSE Room.buf[i]]
  <2>1. Filled(k) = [Room EXCEPT !.tail = Room.tail + k, !.buf = f]
    BY DEF Filled
  <2>2. Room.buf = b /\ Room.head = h /\ Room.tail = t /\ Room.bufOffset = o
    BY <1>6
  <2> HIDE DEF f
  <2>3. Filled(k) = [buf |-> f, head |-> h, tail |-> t + k, bufOffset |-> o]
    BY <1>6, <2>1, <2>2
  <2> QED BY <2>2, <2>3 DEF f
<1> QED BY <1>1, <1>2, <1>4, <1>5, <1>7

-----------------------------------------------------------------------------
LEMMA InitIInv == Init => IInv
BY BufSizeAssumption, SourceAssumption, EmptySeq DEF Init, IInv, TypeOK, Headroom

(* After a refill there is room to put back what the reader may put back. *)
LEMMA RefillHeadroom ==
  ASSUME IInv, NEW k \in Readable,
         NEW n \in Nat, Filled(k).head + n <= Filled(k).tail
  PROVE  LET h == Filled(k).head + n
             d == IF debt > n THEN debt - n ELSE 0
         IN  /\ h \in 0..BufSize
             /\ d \in 0..UngetLimit
             /\ h + d >= UngetLimit
<1>1. /\ Filled(k).head \in Nat /\ Filled(k).tail \in 0..BufSize
      /\ Filled(k).head = head \/ Filled(k).head = UngetLimit
      /\ head = tail => Filled(k).head = UngetLimit
  BY RoomProperties, FilledProperties DEF IInv
<1>2. /\ debt \in 0..UngetLimit /\ head \in Nat /\ UngetLimit \in Nat /\ BufSize \in Nat
      /\ head = tail \/ head + debt >= UngetLimit
  BY BufSizeAssumption DEF IInv, TypeOK, Headroom
<1> QED BY <1>1, <1>2

(* A window of a buffer is a sequence of elements.                         *)
LEMMA WindowSeq ==
  ASSUME NEW b \in [0..(BufSize - 1) -> Elem], NEW h \in Nat, NEW n \in Nat, h + n <= BufSize
  PROVE  [i \in 1..n |-> b[h + i - 1]] \in Seq(Elem)
<1>1. \A i \in 1..n : b[h + i - 1] \in Elem
  BY BufSizeAssumption
<1> QED BY <1>1, IsASeq

LEMMA RefillIInv ==
  ASSUME IInv, NEW k \in Readable,
         NEW n \in Nat, Filled(k).head + n <= Filled(k).tail,
         SetInput(Filled(k), k), head' = Filled(k).head + n,
         debt' = IF debt > n THEN debt - n ELSE 0,
         want' \in Nat, res' \in Seq(Elem)
  PROVE  IInv'
<1>1. /\ head' \in 0..BufSize /\ debt' \in 0..UngetLimit /\ head' + debt' >= UngetLimit
  BY RefillHeadroom
<1>2. /\ buf' \in [0..(BufSize - 1) -> Elem] /\ tail' \in 0..BufSize /\ head' <= tail'
      /\ bufOffset' \in Int /\ src' \in Seq(Elem)
  BY FilledProperties, RoomProperties DEF IInv, SetInput
<1> QED BY <1>1, <1>2 DEF IInv, TypeOK, Headroom

(* What is taken from the buffer leaves the room it was read from.         *)
LEMMA ConsumeIInv ==
  ASSUME IInv, NEW n \in Nat, n <= Available,
         head' = head + n, debt' = IF debt > n THEN debt - n ELSE 0,
         UNCHANGED <<buf, tail, bufOffset, src>>, want' \in Nat, res' \in Seq(Elem)
  PROVE  IInv'
BY BufSizeAssumption DEF IInv, TypeOK, Headroom, Available

LEMMA GetIInv ==
  ASSUME IInv, Get PROVE IInv'
<1> USE DEF Get
<1>1. want' \in Nat /\ head \in 0..BufSize /\ tail \in 0..BufSize /\ head <= tail
  BY DEF IInv, TypeOK
<1>2. CASE head # tail
  <2>1. res' \in Seq(Elem)
    BY <1>1, <1>2, WindowSeq, BufSizeAssumption DEF Consume, IInv, TypeOK
  <2> QED BY <1>1, <1>2, <2>1, ConsumeIInv DEF Consume, Available
<1>3. CASE head = tail
  <2>1. PICK k \in Readable : /\ SetInput(Filled(k), k)
                             /\ Consume(Filled(k), IF k > 0 THEN 1 ELSE 0)
    BY <1>3
  <2> DEFINE n == IF k > 0 THEN 1 ELSE 0
  <2>2. /\ n \in Nat /\ Filled(k).head + n <= Filled(k).tail /\ Filled(k).tail <= BufSize
        /\ Filled(k).tail \in Nat
        /\ Filled(k).head \in Nat /\ Filled(k).buf \in [0..(BufSize - 1) -> Elem]
    BY FilledProperties, RoomProperties DEF IInv
  <2>3. res' \in Seq(Elem)
    <3>1. res' = [i \in 1..n |-> Filled(k).buf[Filled(k).head + i - 1]]
      BY <2>1 DEF Consume
    <3>2. Filled(k).head + n <= BufSize
      BY <2>2, BufSizeAssumption
    <3> DEFINE b == Filled(k).buf
               h == Filled(k).head
    <3>3. /\ b \in [0..(BufSize - 1) -> Elem] /\ h \in Nat /\ n \in Nat /\ h + n <= BufSize
          /\ res' = [i \in 1..n |-> b[h + i - 1]]
      BY <2>2, <3>1, <3>2
    <3> HIDE DEF n, b, h
    <3> QED BY <3>3, WindowSeq
  <2>4. head' = Filled(k).head + n /\ debt' = IF debt > n THEN debt - n ELSE 0
    BY <2>1 DEF Consume
  <2> HIDE DEF n
  <2> QED BY <1>1, <2>1, <2>2, <2>3, <2>4, RefillIInv
<1> QED BY <1>2, <1>3

LEMMA PeekIInv ==
  ASSUME IInv, Peek PROVE IInv'
<1> USE DEF Peek
<1>1. want' \in Nat /\ head \in 0..BufSize /\ tail \in 0..BufSize /\ head <= tail
      /\ debt \in Nat /\ BufSize \in Nat /\ buf \in [0..(BufSize - 1) -> Elem]
  BY BufSizeAssumption DEF IInv, TypeOK
<1>2. CASE head # tail
  <2>1. res' = <<buf[head]>> /\ buf[head] \in Elem
    BY <1>1, <1>2
  <2>2. res' \in Seq(Elem)
    BY <2>1
  <2> QED BY <1>1, <1>2, <2>2 DEF IInv, TypeOK, Headroom
<1>3. CASE head = tail
  <2>1. PICK k \in Readable :
          /\ SetInput(Filled(k), k)
          /\ head' = Filled(k).head
          /\ res' = IF k > 0 THEN <<Filled(k).buf[head']>> ELSE <<>>
    BY <1>3
  <2>2. /\ k \in Nat /\ Filled(k).head + 0 <= Filled(k).tail /\ Filled(k).tail <= BufSize
        /\ k > 0 => Filled(k).head < Filled(k).tail
        /\ Filled(k).head \in Nat /\ Filled(k).tail \in Nat
        /\ Filled(k).buf \in [0..(BufSize - 1) -> Elem]
    BY FilledProperties, RoomProperties DEF IInv
  <2>3. res' \in Seq(Elem)
    <3>1. CASE k > 0
      <4>1. Filled(k).buf[head'] \in Elem
        BY <1>1, <2>1, <2>2, <3>1
      <4> QED BY <2>1, <3>1, <4>1
    <3>2. CASE ~(k > 0)
      BY <2>1, <3>2
    <3> QED BY <3>1, <3>2
  <2>4. head' = Filled(k).head + 0 /\ debt' = IF debt > 0 THEN debt - 0 ELSE 0
    BY <1>1, <2>1, <2>2
  <2> QED BY <1>1, <2>1, <2>2, <2>3, <2>4, RefillIInv
<1> QED BY <1>2, <1>3

LEMMA SlowReadMoreIInv ==
  ASSUME IInv, SlowReadMore PROVE IInv'
<1>1. PICK k \in Readable :
        /\ SetInput(Filled(k), k)
        /\ Consume(Filled(k), Smaller(k, want))
        /\ want' = IF k = 0 THEN 0 ELSE want - Smaller(k, want)
  BY DEF SlowReadMore
<1> DEFINE n == Smaller(k, want)
<1>2. want \in Nat /\ k \in Nat /\ n \in Nat /\ n <= k /\ n <= want
  BY FilledProperties DEF IInv, TypeOK, Smaller
<1>3. /\ Filled(k).head + n <= Filled(k).tail /\ Filled(k).tail <= BufSize
      /\ Filled(k).head \in Nat /\ Filled(k).tail \in Nat
      /\ Filled(k).buf \in [0..(BufSize - 1) -> Elem]
  <2>1. /\ Filled(k).head \in Nat /\ Filled(k).tail \in Nat
        /\ Filled(k).head + k <= Filled(k).tail /\ Filled(k).tail <= BufSize
        /\ Filled(k).buf \in [0..(BufSize - 1) -> Elem]
    BY FilledProperties, RoomProperties DEF IInv
  <2> QED BY <1>2, <2>1
<1>4. res' \in Seq(Elem)
  <2>1. res' = [i \in 1..n |-> Filled(k).buf[Filled(k).head + i - 1]]
    BY <1>1 DEF Consume
  <2>2. Filled(k).head + n <= BufSize
    BY <1>2, <1>3, BufSizeAssumption
  <2> DEFINE b == Filled(k).buf
             h == Filled(k).head
  <2>3. /\ b \in [0..(BufSize - 1) -> Elem] /\ h \in Nat /\ n \in Nat /\ h + n <= BufSize
        /\ res' = [i \in 1..n |-> b[h + i - 1]]
    BY <1>2, <1>3, <2>1, <2>2
  <2> HIDE DEF n, b, h
  <2> QED BY <2>3, WindowSeq
<1>5. head' = Filled(k).head + n /\ debt' = IF debt > n THEN debt - n ELSE 0
  BY <1>1 DEF Consume
<1>6. want' \in Nat
  BY <1>1, <1>2
<1> HIDE DEF n
<1> QED BY <1>1, <1>2, <1>3, <1>4, <1>5, <1>6, RefillIInv

LEMMA FillBufferIInv ==
  ASSUME IInv, FillBuffer PROVE IInv'
<1>1. PICK k \in Readable : SetInput(Filled(k), k) /\ head' = Filled(k).head
  BY DEF FillBuffer
<1>2. Filled(k).head + 0 <= Filled(k).tail /\ Filled(k).head \in Nat
  BY FilledProperties, RoomProperties DEF IInv
<1>3. debt \in Nat /\ res \in Seq(Elem)
  BY BufSizeAssumption DEF IInv, TypeOK
<1>4. want' = 0 /\ res' = res /\ debt' = debt
  BY DEF FillBuffer
<1>5. /\ want' \in Nat /\ res' \in Seq(Elem)
      /\ head' = Filled(k).head + 0 /\ debt' = IF debt > 0 THEN debt - 0 ELSE 0
  BY <1>1, <1>2, <1>3, <1>4
<1> QED BY <1>1, <1>2, <1>5, RefillIInv

LEMMA AdvanceIInv ==
  ASSUME IInv, NEW n \in 1..BufSize, Advance(n) PROVE IInv'
BY ConsumeIInv, BufSizeAssumption DEF Advance, IInv, TypeOK

LEMMA ReadIInv ==
  ASSUME IInv, NEW n \in 1..BufSize, Read(n) \/ SlowRead(n) PROVE IInv'
<1>1. /\ n \in Nat /\ head \in Nat /\ tail \in 0..BufSize /\ BufSize \in Nat
      /\ Available \in Nat /\ head + Available <= BufSize
      /\ want \in Nat /\ buf \in [0..(BufSize - 1) -> Elem]
  BY BufSizeAssumption DEF IInv, TypeOK, Available
<1>2. CASE Read(n)
  <2>1. res' \in Seq(Elem)
    BY <1>1, <1>2, WindowSeq DEF Read, Consume
  <2> QED BY <1>1, <1>2, <2>1, ConsumeIInv DEF Read, Consume
<1>3. CASE SlowRead(n)
  <2>1. res' \in Seq(Elem)
    BY <1>1, <1>3, WindowSeq DEF SlowRead, Consume
  <2>2. want' \in Nat
    BY <1>1, <1>3 DEF SlowRead
  <2> QED BY <1>1, <1>3, <2>1, <2>2, ConsumeIInv DEF SlowRead, Consume
<1> QED BY <1>2, <1>3

LEMMA UngetIInv ==
  ASSUME IInv, NEW x \in Returned, Unget(x) PROVE IInv'
<1>1. /\ head \in 0..BufSize /\ tail \in 0..BufSize /\ head <= tail /\ bufOffset \in Int
      /\ debt \in 0..UngetLimit /\ debt < UngetLimit /\ UngetLimit \in Nat /\ BufSize \in Nat
      /\ bufOffset + head > 0
      /\ buf \in [0..(BufSize - 1) -> Elem] /\ x \in Elem
  BY BufSizeAssumption, SourceAssumption DEF IInv, TypeOK, Unget, MayUnget, Offset
<1>2. head + debt >= UngetLimit /\ head > 0
  BY <1>1 DEF IInv, Headroom
<1>3. buf' \in [0..(BufSize - 1) -> Elem]
  BY <1>1 DEF Unget
<1>4. head' = head - 1 /\ debt' = debt + 1 /\ UNCHANGED <<tail, bufOffset, src, want, res>>
  BY DEF Unget
<1> QED BY <1>1, <1>2, <1>3, <1>4 DEF IInv, TypeOK, Headroom

(* The buffer keeps its pointers in order, and room to put back.           *)
THEOREM BufferedInputInvariant == Spec => []IInv
<1>1. IInv /\ [Next]_vars => IInv'
  <2> SUFFICES ASSUME IInv, [Next]_vars PROVE IInv'
    OBVIOUS
  <2>1. CASE UNCHANGED vars
    BY <2>1 DEF vars, IInv, TypeOK, Headroom
  <2> QED BY <2>1, GetIInv, PeekIInv, AdvanceIInv, ReadIInv, SlowReadMoreIInv,
             FillBufferIInv, UngetIInv DEF Next
<1> QED BY <1>1, InitIInv, PTL DEF Spec

(* m_buf <= m_head <= m_tail <= m_buf + m_bufSize, always.                 *)
THEOREM TypeCorrect == Spec => []TypeOK
<1>1. IInv => TypeOK
  BY DEF IInv
<1> QED BY <1>1, BufferedInputInvariant, PTL

(* The assertion of unget holds for a reader that keeps to UNGET_LIMIT: no *)
(* refill in between takes the room away.  An empty buffer has room to     *)
(* read into: get and peek report an end of file only if the source did.   *)
THEOREM BufferHasRoom == Spec => []HasRoom
<1>1. IInv => (MayUnget => head > 0)
  BY BufSizeAssumption DEF IInv, TypeOK, Headroom, MayUnget, Offset
<1>2. IInv => (head = tail => Room.tail < BufSize)
  BY BufSizeAssumption DEF IInv, TypeOK, Room, Available
<1>3. IInv => HasRoom
  BY <1>1, <1>2 DEF HasRoom
<1> QED BY <1>3, BufferedInputInvariant, PTL

-----------------------------------------------------------------------------
(***************************************************************************)
(* BufferedInput implements InputStream, for every buffer size, limit and  *)
(* source: each step, whatever refill it makes, takes, looks at, skips or  *)
(* puts back elements of the stream.                                       *)
(***************************************************************************)

(* The stream that a buffer b with head h and tail t and a source with s   *)
(* left still hold                                                         *)
Window(b, h, n) == [i \in 1..n |-> b[h + i - 1]]
Rest(b, h, t, s) == Window(b, h, t - h) \o s

IsBuffer(b, h, t, s) ==
  /\ b \in [0..(BufSize - 1) -> Elem]
  /\ h \in Nat /\ t \in Nat /\ h <= t /\ t <= BufSize
  /\ s \in Seq(Elem)

-----------------------------------------------------------------------------
LEMMA WindowProperties ==
  ASSUME NEW b, NEW h \in Nat, NEW n \in Nat,
         b \in [0..(BufSize - 1) -> Elem], h + n <= BufSize
  PROVE  /\ Window(b, h, n) \in Seq(Elem)
         /\ Len(Window(b, h, n)) = n
         /\ \A i \in 1..n : Window(b, h, n)[i] = b[h + i - 1]
<1>1. Window(b, h, n) \in Seq(Elem)
  BY WindowSeq DEF Window
<1>2. Len(Window(b, h, n)) = n
  BY DEF Window
<1> QED BY <1>1, <1>2 DEF Window

LEMMA RestProperties ==
  ASSUME NEW b, NEW h, NEW t, NEW s, IsBuffer(b, h, t, s)
  PROVE  /\ Rest(b, h, t, s) \in Seq(Elem)
         /\ Len(Rest(b, h, t, s)) = (t - h) + Len(s)
         /\ Len(s) \in Nat
         /\ \A i \in 1..((t - h) + Len(s)) :
              Rest(b, h, t, s)[i] = IF i <= t - h THEN b[h + i - 1] ELSE s[i - (t - h)]
<1>1. /\ b \in [0..(BufSize - 1) -> Elem] /\ h \in Nat /\ t \in Nat /\ h <= t /\ t <= BufSize
      /\ s \in Seq(Elem) /\ t - h \in Nat /\ h + (t - h) <= BufSize
  BY BufSizeAssumption DEF IsBuffer
<1> DEFINE n == t - h
           w == Window(b, h, n)
<1>2. n \in Nat /\ w \in Seq(Elem) /\ Len(w) = n /\ \A i \in 1..n : w[i] = b[h + i - 1]
  BY <1>1, WindowProperties
<1>3. Rest(b, h, t, s) = w \o s
  BY DEF Rest
<1> HIDE DEF w, n
<1>4. Len(s) \in Nat
  BY <1>1
<1>5. /\ w \o s \in Seq(Elem) /\ Len(w \o s) = n + Len(s)
      /\ \A i \in 1..(n + Len(s)) : (w \o s)[i] = IF i <= n THEN w[i] ELSE s[i - n]
  BY <1>1, <1>2, ConcatProperties
<1>6. \A i \in 1..(n + Len(s)) : (w \o s)[i] = IF i <= n THEN b[h + i - 1] ELSE s[i - n]
  BY <1>2, <1>4, <1>5
<1> QED BY <1>3, <1>4, <1>5, <1>6 DEF n

(* What is behind the first n elements of a sequence, and those elements,  *)
(* told by their lengths and elements                                      *)
LEMMA BehindIsSubSeq ==
  ASSUME NEW S, NEW r \in Seq(S), NEW q \in Seq(S), NEW n \in Nat,
         Len(r) = n + Len(q), \A i \in 1..Len(q) : q[i] = r[n + i]
  PROVE  q = SubSeq(r, n + 1, Len(r))
<1>1. Len(r) \in Nat /\ Len(q) \in Nat /\ \A i \in (n + 1)..Len(r) : r[i] \in S
  BY ElementOfSeq
<1> DEFINE d == SubSeq(r, n + 1, Len(r))
           m == Len(r)
<1>2. n + 1 \in Int /\ m \in Int /\ m = n + Len(q) /\ m - (n + 1) + 1 = Len(q)
  BY <1>1
<1>3. /\ d \in Seq(S) /\ Len(d) = IF n + 1 <= m THEN m - (n + 1) + 1 ELSE 0
      /\ \A i \in 1..(m - (n + 1) + 1) : d[i] = r[n + 1 + i - 1]
  BY <1>1, <1>2, SubSeqProperties
<1> HIDE DEF d, m
<1>4. Len(d) = Len(q)
  BY <1>1, <1>2, <1>3
<1>5. ASSUME NEW i \in 1..Len(q) PROVE d[i] = q[i]
  <2>1. d[i] = r[n + 1 + i - 1]
    BY <1>2, <1>3
  <2>2. n + 1 + i - 1 = n + i
    BY <1>1
  <2> QED BY <2>1, <2>2
<1>6. q = d
  BY <1>3, <1>4, <1>5, SeqEqual
<1> QED BY <1>6 DEF d, m

LEMMA FrontIsSubSeq ==
  ASSUME NEW S, NEW r \in Seq(S), NEW q \in Seq(S), NEW n \in Nat,
         Len(q) = n, n <= Len(r), \A i \in 1..n : q[i] = r[i]
  PROVE  q = SubSeq(r, 1, n)
<1>1. Len(r) \in Nat /\ \A i \in 1..n : r[i] \in S
  BY ElementOfSeq
<1> DEFINE d == SubSeq(r, 1, n)
<1>2. /\ d \in Seq(S) /\ Len(d) = IF 1 <= n THEN n - 1 + 1 ELSE 0
      /\ \A i \in 1..(n - 1 + 1) : d[i] = r[1 + i - 1]
  BY <1>1, SubSeqProperties
<1> HIDE DEF d
<1>3. Len(d) = Len(q)
  BY <1>2
<1>4. ASSUME NEW i \in 1..Len(q) PROVE d[i] = q[i]
  <2>1. d[i] = r[1 + i - 1]
    BY <1>2
  <2>2. 1 + i - 1 = i
    OBVIOUS
  <2> QED BY <2>1, <2>2
<1>5. q = d
  BY <1>2, <1>3, <1>4, SeqEqual
<1> QED BY <1>5 DEF d

-----------------------------------------------------------------------------
(* Taking n elements from a buffer takes them from the front of its stream. *)
LEMMA TakingFromBuffer ==
  ASSUME NEW b, NEW h, NEW t, NEW s, IsBuffer(b, h, t, s), NEW n \in Nat, n <= t - h
  PROVE  /\ n <= Len(Rest(b, h, t, s))
         /\ Window(b, h, n) = SubSeq(Rest(b, h, t, s), 1, n)
         /\ Rest(b, h + n, t, s) =
              SubSeq(Rest(b, h, t, s), n + 1, Len(Rest(b, h, t, s)))
<1> DEFINE r == Rest(b, h, t, s)
           q == Rest(b, h + n, t, s)
           w == Window(b, h, n)
<1>1. /\ b \in [0..(BufSize - 1) -> Elem] /\ h \in Nat /\ t \in Nat /\ h <= t /\ t <= BufSize
      /\ BufSize \in Nat
  BY BufSizeAssumption DEF IsBuffer
<1>2. IsBuffer(b, h + n, t, s)
  BY <1>1 DEF IsBuffer
<1>3. /\ r \in Seq(Elem) /\ Len(r) = (t - h) + Len(s) /\ Len(s) \in Nat
      /\ \A i \in 1..((t - h) + Len(s)) :
           r[i] = IF i <= t - h THEN b[h + i - 1] ELSE s[i - (t - h)]
  BY RestProperties
<1> DEFINE hn == h + n
<1>4. /\ q \in Seq(Elem) /\ Len(q) = (t - hn) + Len(s)
       /\ \A i \in 1..((t - hn) + Len(s)) :
            q[i] = IF i <= t - hn THEN b[hn + i - 1] ELSE s[i - (t - hn)]
  BY <1>2, RestProperties
<1>5. w \in Seq(Elem) /\ Len(w) = n /\ \A i \in 1..n : w[i] = b[h + i - 1]
  BY <1>1, WindowProperties
<1> HIDE DEF r, q, w
<1>6. n <= Len(r)
  BY <1>1, <1>3
<1>7. w = SubSeq(r, 1, n)
  <2>1. ASSUME NEW i \in 1..n PROVE w[i] = r[i]
    <3>1. i \in 1..((t - h) + Len(s)) /\ i <= t - h
      BY <1>1, <1>3
    <3>2. r[i] = IF i <= t - h THEN b[h + i - 1] ELSE s[i - (t - h)]
      BY <1>3, <3>1
    <3>3. w[i] = b[h + i - 1]
      BY <1>5
    <3> QED BY <3>1, <3>2, <3>3
  <2> QED BY <1>3, <1>5, <1>6, <2>1, FrontIsSubSeq
<1>8. q = SubSeq(r, n + 1, Len(r))
  <2>1. Len(r) = n + Len(q)
    BY <1>1, <1>3, <1>4
  <2>2. ASSUME NEW i \in 1..Len(q) PROVE q[i] = r[n + i]
    <3>1. /\ i \in 1..((t - hn) + Len(s)) /\ n + i \in 1..((t - h) + Len(s))
          /\ i <= t - hn <=> n + i <= t - h
          /\ hn + i - 1 = h + (n + i) - 1 /\ i - (t - hn) = (n + i) - (t - h)
      BY <1>1, <1>3, <1>4
    <3>2. q[i] = IF i <= t - hn THEN b[hn + i - 1] ELSE s[i - (t - hn)]
      BY <1>4, <3>1
    <3>3. r[n + i] = IF n + i <= t - h THEN b[h + (n + i) - 1] ELSE s[(n + i) - (t - h)]
      BY <1>3, <3>1
    <3>4. CASE i <= t - hn
      <4>1. n + i <= t - h
        BY <3>1, <3>4
      <4>2. q[i] = b[hn + i - 1] /\ r[n + i] = b[h + (n + i) - 1]
        BY <3>2, <3>3, <3>4, <4>1
      <4> HIDE DEF hn
      <4> QED BY ONLY <4>2, <3>1
    <3>5. CASE ~(i <= t - hn)
      <4>1. ~(n + i <= t - h)
        BY <3>1, <3>5
      <4>2. q[i] = s[i - (t - hn)] /\ r[n + i] = s[(n + i) - (t - h)]
        BY <3>2, <3>3, <3>5, <4>1
      <4> HIDE DEF hn
      <4> QED BY ONLY <4>2, <3>1
    <3> QED BY <3>4, <3>5
  <2> QED BY <1>3, <1>4, <2>1, <2>2, BehindIsSubSeq
<1> QED BY <1>6, <1>7, <1>8 DEF r, q, w

(* Making room moves what is not read, and nothing else is seen of it.     *)
LEMMA RoomKeepsUnread ==
  ASSUME TypeOK
  PROVE  \A i \in 1..(tail - head) : Room.buf[Room.head + i - 1] = buf[head + i - 1]
<1> USE BufSizeAssumption
<1>1. /\ head \in Nat /\ tail \in Nat /\ head <= tail /\ tail <= BufSize
      /\ UngetLimit \in Nat /\ BufSize \in Nat
      /\ buf \in [0..(BufSize - 1) -> Elem] /\ DOMAIN buf = 0..(BufSize - 1)
  BY DEF TypeOK
<1>2. CASE head < tail /\ head <= UngetLimit
  BY <1>2 DEF Room, Stay
<1>3. CASE ~(head < tail /\ head <= UngetLimit)
  <2>1. /\ Room.head = UngetLimit
        /\ Room.buf = [i \in DOMAIN buf |->
                         IF i \in UngetLimit..(UngetLimit + Available - 1)
                         THEN buf[i - UngetLimit + head] ELSE buf[i]]
    BY <1>3 DEF Room, Moved
  <2>2. ASSUME NEW i \in 1..(tail - head)
        PROVE  Room.buf[UngetLimit + i - 1] = buf[head + i - 1]
    <3>1. /\ UngetLimit + i - 1 \in 0..(BufSize - 1)
          /\ UngetLimit + i - 1 \in UngetLimit..(UngetLimit + (tail - head) - 1)
          /\ (UngetLimit + i - 1) - UngetLimit + head = head + i - 1
      BY <1>1, <1>3
    <3>2. Room.buf[UngetLimit + i - 1] =
            IF UngetLimit + i - 1 \in UngetLimit..(UngetLimit + (tail - head) - 1)
            THEN buf[(UngetLimit + i - 1) - UngetLimit + head] ELSE buf[UngetLimit + i - 1]
      BY <1>1, <2>1, <3>1 DEF Available
    <3> QED BY <3>1, <3>2
  <2> QED BY <2>1, <2>2
<1> QED BY <1>2, <1>3

LEMMA FilledBuf ==
  ASSUME NEW k
  PROVE  Filled(k).buf = [j \in DOMAIN buf |-> IF j \in Room.tail..(Room.tail + k - 1)
                                              THEN src[j - Room.tail + 1] ELSE Room.buf[j]]
<1>1. PICK b, h, t, o : Room = [buf |-> b, head |-> h, tail |-> t, bufOffset |-> o]
  BY DEF Room, Stay, Moved
<1> DEFINE f == [j \in DOMAIN buf |-> IF j \in Room.tail..(Room.tail + k - 1)
                                    THEN src[j - Room.tail + 1] ELSE Room.buf[j]]
<1>2. Filled(k) = [Room EXCEPT !.tail = Room.tail + k, !.buf = f]
  BY DEF Filled
<1> HIDE DEF f
<1>3. Filled(k).buf = f
  BY <1>1, <1>2
<1> QED BY <1>3 DEF f

(* What a refill reads is what the source no longer has.                   *)
LEMMA RefillKeepsStream ==
  ASSUME TypeOK, NEW k \in Readable
  PROVE  LET left == SubSeq(src, k + 1, Len(src))
         IN  /\ IsBuffer(Filled(k).buf, Filled(k).head, Filled(k).tail, left)
             /\ Rest(Filled(k).buf, Filled(k).head, Filled(k).tail, left) =
                  Rest(buf, head, tail, src)
             /\ Filled(k).tail - Filled(k).head = (tail - head) + k
             /\ Filled(k).bufOffset + Filled(k).head = bufOffset + head
<1> DEFINE left == SubSeq(src, k + 1, Len(src))
           b == Filled(k).buf
           h == Filled(k).head
           t == Filled(k).tail
           r == Rest(buf, head, tail, src)
           q == Rest(b, h, t, left)
           rh == Room.head
           rt == Room.tail
           ro == Room.bufOffset
<1>1. /\ k \in Nat /\ k <= Len(src) /\ h = rh /\ t = rt + k /\ t \in 0..BufSize
      /\ Filled(k).bufOffset = ro
      /\ b \in [0..(BufSize - 1) -> Elem] /\ left \in Seq(Elem)
  BY FilledProperties
<1>2. /\ rh \in 0..BufSize /\ rt \in 0..BufSize /\ rh <= rt
      /\ rt - rh = tail - head /\ ro + rh = bufOffset + head
      /\ ro \in Int
  BY RoomProperties
<1> DEFINE o == Filled(k).bufOffset
<1> HIDE DEF left, b, h, t, o, rh, rt, ro
<1>3. /\ BufSize \in Nat /\ head \in Nat /\ tail \in Nat /\ head <= tail /\ tail <= BufSize
      /\ buf \in [0..(BufSize - 1) -> Elem] /\ DOMAIN buf = 0..(BufSize - 1)
      /\ src \in Seq(Elem) /\ Len(src) \in Nat
  BY BufSizeAssumption, LenProperties DEF TypeOK
<1>4. IsBuffer(b, h, t, left) /\ IsBuffer(buf, head, tail, src)
  <2>1. h \in Nat /\ t \in Nat /\ h <= t /\ t <= BufSize
    BY <1>1, <1>2, <1>3
  <2> QED BY <1>1, <1>3, <2>1 DEF IsBuffer
<1>5. t - h = (tail - head) + k /\ o + h = bufOffset + head
  <2>1. rt \in Nat /\ rh \in Nat
    BY <1>2, <1>3
  <2>2. o = ro
    BY <1>1 DEF o
  <2> QED BY <1>1, <1>2, <1>3, <2>1, <2>2
<1>6. /\ Len(left) = Len(src) - k
      /\ \A i \in 1..(Len(src) - k) : left[i] = src[k + i]
  <2>1. k + 1 \in Int /\ Len(src) \in Int /\ \A i \in (k + 1)..Len(src) : src[i] \in Elem
    BY <1>1, <1>3, ElementOfSeq
  <2> DEFINE m == Len(src)
  <2>2. /\ Len(left) = IF k + 1 <= m THEN m - (k + 1) + 1 ELSE 0
        /\ \A i \in 1..(m - (k + 1) + 1) : left[i] = src[k + 1 + i - 1]
    BY <2>1, SubSeqProperties DEF left
  <2> HIDE DEF m
  <2>3. m \in Nat /\ k <= m /\ k \in Nat
    BY <1>1, <1>3 DEF m
  <2>4. Len(left) = m - k
    BY <2>2, <2>3
  <2>5. ASSUME NEW i \in 1..(m - k) PROVE left[i] = src[k + i]
    <3>1. i \in 1..(m - (k + 1) + 1) /\ k + 1 + i - 1 = k + i
      BY <2>3
    <3> QED BY <2>2, <3>1
  <2> QED BY <2>4, <2>5 DEF m
<1>7. \A i \in 1..(tail - head) : b[h + i - 1] = buf[head + i - 1]
  <2>1. ASSUME NEW i \in 1..(tail - head) PROVE b[h + i - 1] = buf[head + i - 1]
    <3>1. h + i - 1 \in 0..(BufSize - 1) /\ h + i - 1 \notin rt..(rt + k - 1)
      BY <1>1, <1>2, <1>3
    <3>2. b = [j \in DOMAIN buf |-> IF j \in rt..(rt + k - 1)
                                   THEN src[j - rt + 1] ELSE Room.buf[j]]
      BY FilledBuf DEF b, rt
    <3>3. b[h + i - 1] = Room.buf[rh + i - 1]
      BY <1>1, <1>3, <3>1, <3>2
    <3> QED BY <3>3, RoomKeepsUnread DEF rh
  <2> QED BY <2>1
<1>8. \A i \in 1..k : b[rt + i - 1] = src[i]
  <2>1. ASSUME NEW i \in 1..k PROVE b[rt + i - 1] = src[i]
    <3>1. /\ rt + i - 1 \in 0..(BufSize - 1)
          /\ rt + i - 1 \in rt..(rt + k - 1)
          /\ (rt + i - 1) - rt + 1 = i
      BY <1>1, <1>2, <1>3
    <3>2. b = [j \in DOMAIN buf |-> IF j \in rt..(rt + k - 1)
                                   THEN src[j - rt + 1] ELSE Room.buf[j]]
      BY FilledBuf DEF b, rt
    <3>3. b[rt + i - 1] = src[(rt + i - 1) - rt + 1]
      BY <1>3, <3>1, <3>2
    <3> QED BY <3>1, <3>3
  <2> QED BY <2>1
<1>9. /\ r \in Seq(Elem) /\ Len(r) = (tail - head) + Len(src)
      /\ \A i \in 1..((tail - head) + Len(src)) :
           r[i] = IF i <= tail - head THEN buf[head + i - 1] ELSE src[i - (tail - head)]
  BY <1>4, RestProperties
<1>10. /\ q \in Seq(Elem) /\ Len(q) = (t - h) + Len(left)
       /\ \A i \in 1..((t - h) + Len(left)) :
            q[i] = IF i <= t - h THEN b[h + i - 1] ELSE left[i - (t - h)]
  BY <1>4, RestProperties
<1> HIDE DEF r, q
<1>11. Len(q) = Len(r)
  BY <1>1, <1>3, <1>5, <1>6, <1>9, <1>10
<1>12. ASSUME NEW i \in 1..Len(q) PROVE q[i] = r[i]
  <2>1. /\ i \in 1..((t - h) + Len(left)) /\ i \in 1..((tail - head) + Len(src))
    BY <1>9, <1>10, <1>11
  <2>2. q[i] = IF i <= t - h THEN b[h + i - 1] ELSE left[i - (t - h)]
    BY <1>10, <2>1
  <2>3. r[i] = IF i <= tail - head THEN buf[head + i - 1] ELSE src[i - (tail - head)]
    BY <1>9, <2>1
  <2>4. CASE i <= tail - head
    <3>1. i <= t - h /\ i \in 1..(tail - head)
      BY <1>1, <1>3, <1>5, <2>4
    <3> QED BY <1>7, <2>2, <2>3, <2>4, <3>1
  <2>5. CASE i > tail - head /\ i <= t - h
    <3> DEFINE j == i - (tail - head)
    <3>0. i \in Nat /\ rt \in Nat /\ rh \in Nat /\ k \in Nat
      BY <1>1, <1>2, <1>3, <2>1
    <3>1. j \in 1..k /\ ~(i <= tail - head) /\ h + i - 1 = rt + j - 1
      BY <1>1, <1>2, <1>3, <1>5, <2>5, <3>0
    <3>2. q[i] = b[h + i - 1] /\ r[i] = src[j]
      BY <2>2, <2>3, <2>5, <3>1
    <3> HIDE DEF j
    <3>3. b[rt + j - 1] = src[j]
      BY <1>8, <3>1
    <3> QED BY <3>1, <3>2, <3>3
  <2>6. CASE i > t - h
    <3> DEFINE j == i - (t - h)
    <3>1. /\ ~(i <= tail - head) /\ ~(i <= t - h)
          /\ j \in 1..(Len(src) - k) /\ i - (tail - head) = k + j
      <4>1. i \in Nat /\ k \in Nat /\ tail - head \in Nat /\ i <= (tail - head) + Len(src)
        BY <1>1, <1>3, <2>1
      <4>2. t - h = (tail - head) + k /\ Len(src) \in Nat
        BY <1>3, <1>5
      <4> DEFINE u == tail - head
                 v == t - h
                 l == Len(src)
      <4> HIDE DEF u, v, l
      <4>3. i \in Nat /\ k \in Nat /\ u \in Nat /\ l \in Nat /\ i <= u + l /\ v = u + k /\ i > v
        BY <2>6, <4>1, <4>2 DEF u, v, l
      <4>4. ~(i <= u) /\ ~(i <= v) /\ i - v \in 1..(l - k) /\ i - u = k + (i - v)
        BY ONLY <4>3
      <4> QED BY <4>4 DEF u, v, l
    <3>2. q[i] = left[j] /\ r[i] = src[i - (tail - head)]
      BY <2>2, <2>3, <3>1
    <3> HIDE DEF j
    <3>3. left[j] = src[k + j]
      BY <1>6, <3>1
    <3> QED BY <3>1, <3>2, <3>3
  <2> QED BY <1>3, <1>1, <1>5, <2>4, <2>5, <2>6
<1>13. q = r
  BY <1>9, <1>10, <1>11, <1>12, SeqEqual
<1> QED BY <1>4, <1>5, <1>13 DEF left, b, h, t, o, r, q

-----------------------------------------------------------------------------
stream == Unread \o src

LEMMA StreamIsRest ==
  /\ stream = Rest(buf, head, tail, src)
  /\ stream' = Rest(buf', head', tail', src')
BY DEF stream, Unread, Available, Rest, Window

LEMMA TypesOfBuffer ==
  ASSUME TypeOK
  PROVE  /\ IsBuffer(buf, head, tail, src)
         /\ bufOffset \in Int /\ Available = tail - head /\ Available \in Nat
BY BufSizeAssumption DEF TypeOK, IsBuffer, Available

(* A refill alone is not seen.                                             *)
LEMMA RefillUnseen ==
  ASSUME TypeOK, NEW k \in Readable, SetInput(Filled(k), k), head' = Filled(k).head
  PROVE  stream' = stream /\ Offset' = Offset
<1>1. buf' = Filled(k).buf /\ tail' = Filled(k).tail /\ bufOffset' = Filled(k).bufOffset
      /\ src' = SubSeq(src, k + 1, Len(src))
  BY DEF SetInput
<1>2. Rest(buf', head', tail', src') = Rest(buf, head, tail, src)
  BY <1>1, RefillKeepsStream
<1>3. bufOffset' + head' = bufOffset + head
  BY <1>1, RefillKeepsStream
<1> QED BY <1>2, <1>3, StreamIsRest DEF Offset

(* With a refill or without one, n elements are taken from the stream.     *)
LEMMA TakesAfterRefill ==
  ASSUME TypeOK, NEW k \in Readable, SetInput(Filled(k), k),
         NEW n \in Nat, n <= k + Available, head' = Filled(k).head + n
  PROVE  /\ n <= Len(stream)
         /\ Window(Filled(k).buf, Filled(k).head, n) = SubSeq(stream, 1, n)
         /\ stream' = SubSeq(stream, n + 1, Len(stream))
         /\ Offset' = Offset + n
<1> DEFINE b == Filled(k).buf
           h == Filled(k).head
           t == Filled(k).tail
           o == Filled(k).bufOffset
           s == SubSeq(src, k + 1, Len(src))
<1>1. buf' = b /\ tail' = t /\ bufOffset' = o /\ src' = s /\ head' = h + n
  BY DEF SetInput
<1>2. /\ IsBuffer(b, h, t, s) /\ Rest(b, h, t, s) = Rest(buf, head, tail, src)
      /\ t - h = (tail - head) + k /\ o + h = bufOffset + head
  BY RefillKeepsStream
<1>3. k \in Nat /\ o \in Int /\ Available = tail - head /\ Available \in Nat
  BY FilledProperties, RoomProperties, TypesOfBuffer
<1> HIDE DEF b, h, t, o, s
<1>4. n <= t - h
  BY <1>2, <1>3
<1>5. /\ n <= Len(Rest(b, h, t, s))
      /\ Window(b, h, n) = SubSeq(Rest(b, h, t, s), 1, n)
      /\ Rest(b, h + n, t, s) = SubSeq(Rest(b, h, t, s), n + 1, Len(Rest(b, h, t, s)))
  BY <1>2, <1>4, TakingFromBuffer
<1>6. stream = Rest(b, h, t, s) /\ stream' = Rest(b, h + n, t, s)
  BY <1>1, <1>2, StreamIsRest
<1>7. Offset' = Offset + n
  <2>1. h \in Nat
    BY <1>2 DEF IsBuffer
  <2>2. Offset' = o + (h + n) /\ Offset = o + h
    BY <1>1, <1>2 DEF Offset
  <2> QED BY <1>3, <2>1, <2>2
<1> QED BY <1>5, <1>6, <1>7 DEF b, h

LEMMA TakesFromBuffer ==
  ASSUME TypeOK, NEW n \in Nat, n <= Available, head' = head + n,
         UNCHANGED <<buf, tail, bufOffset, src>>
  PROVE  /\ n <= Len(stream)
         /\ Window(buf, head, n) = SubSeq(stream, 1, n)
         /\ stream' = SubSeq(stream, n + 1, Len(stream))
         /\ Offset' = Offset + n
<1>1. IsBuffer(buf, head, tail, src) /\ n <= tail - head /\ bufOffset \in Int /\ head \in Nat
  BY TypesOfBuffer DEF IsBuffer
<1>2. /\ n <= Len(Rest(buf, head, tail, src))
      /\ Window(buf, head, n) = SubSeq(Rest(buf, head, tail, src), 1, n)
      /\ Rest(buf, head + n, tail, src) =
           SubSeq(Rest(buf, head, tail, src), n + 1, Len(Rest(buf, head, tail, src)))
  BY <1>1, TakingFromBuffer
<1>3. stream = Rest(buf, head, tail, src) /\ stream' = Rest(buf, head + n, tail, src)
  BY StreamIsRest
<1>4. Offset' = Offset + n
  BY <1>1 DEF Offset
<1> QED BY <1>2, <1>3, <1>4

-----------------------------------------------------------------------------
(* The steps                                                               *)
Taken(n) ==
  /\ res' = SubSeq(stream, 1, n)
  /\ stream' = SubSeq(stream, n + 1, Len(stream))
  /\ Offset' = Offset + n

LEMMA TakenImplements ==
  ASSUME NEW n \in Nat, n <= Len(stream), Taken(n), Len(stream) \in Nat
  PROVE  Stream!Next
<1>1. n \in 0..Len(Unread \o src)
  BY DEF stream
<1>2. Stream!Take(n)
  BY DEF Taken, stream, Stream!Take
<1> QED BY <1>1, <1>2 DEF Stream!Next

LEMMA StreamLength ==
  ASSUME TypeOK PROVE Len(stream) \in Nat /\ stream \in Seq(Elem)
<1>1. IsBuffer(buf, head, tail, src)
  BY TypesOfBuffer
<1>2. Rest(buf, head, tail, src) \in Seq(Elem)
  BY <1>1, RestProperties
<1> QED BY <1>2, StreamIsRest

LEMMA GetImplements ==
  ASSUME TypeOK, Get PROVE Stream!Next
<1>1. CASE head # tail
  <2>1. /\ 1 <= Available /\ head' = head + 1 /\ UNCHANGED <<buf, tail, bufOffset, src>>
        /\ res' = Window(buf, head, 1)
    BY <1>1, TypesOfBuffer DEF Get, Consume, Window, TypeOK
  <2> QED BY <2>1, TakesFromBuffer, StreamLength, TakenImplements DEF Taken
<1>2. CASE head = tail
  <2>1. PICK k \in Readable : /\ SetInput(Filled(k), k)
                             /\ Consume(Filled(k), IF k > 0 THEN 1 ELSE 0)
    BY <1>2 DEF Get
  <2> DEFINE n == IF k > 0 THEN 1 ELSE 0
  <2>2. k \in Nat /\ Available \in Nat
    BY FilledProperties, TypesOfBuffer
  <2>3. n \in Nat /\ n <= k + Available
    BY <2>2
  <2>4. head' = Filled(k).head + n /\ res' = Window(Filled(k).buf, Filled(k).head, n)
    BY <2>1 DEF Consume, Window
  <2> HIDE DEF n
  <2> QED BY <2>1, <2>3, <2>4, TakesAfterRefill, StreamLength, TakenImplements DEF Taken
<1> QED BY <1>1, <1>2

LEMMA PeekImplements ==
  ASSUME TypeOK, Peek PROVE Stream!Next
<1>1. CASE head # tail
  <2>1. IsBuffer(buf, head, tail, src) /\ 1 <= tail - head /\ res' = <<buf[head]>>
    BY <1>1, TypesOfBuffer DEF Peek, TypeOK
  <2>2. /\ 1 <= Len(Rest(buf, head, tail, src))
        /\ Window(buf, head, 1) = SubSeq(Rest(buf, head, tail, src), 1, 1)
    BY <2>1, TakingFromBuffer
  <2>3. Window(buf, head, 1) = <<buf[head]>>
    <3>1. head + 1 - 1 = head
      BY <2>1 DEF IsBuffer
    <3> QED BY <3>1 DEF Window
  <2>4. stream' = stream /\ Offset' = Offset
    BY <1>1 DEF Peek, stream, Unread, Available, Offset
  <2>5. Stream!Look(1)
    BY <2>1, <2>2, <2>3, <2>4, StreamIsRest DEF Stream!Look, stream
  <2>6. 1 <= Len(Unread \o src)
    BY <2>2, StreamIsRest DEF stream
  <2> QED BY <2>5, <2>6 DEF Stream!Next
<1>2. CASE head = tail
  <2>1. PICK k \in Readable :
          /\ SetInput(Filled(k), k)
          /\ head' = Filled(k).head
          /\ res' = IF k > 0 THEN <<Filled(k).buf[head']>> ELSE <<>>
    BY <1>2 DEF Peek
  <2>2. stream' = stream /\ Offset' = Offset
    BY <2>1, RefillUnseen
  <2> DEFINE b == Filled(k).buf
             h == Filled(k).head
             t == Filled(k).tail
             s == SubSeq(src, k + 1, Len(src))
             n == IF k > 0 THEN 1 ELSE 0
  <2>3. /\ IsBuffer(b, h, t, s) /\ Rest(b, h, t, s) = Rest(buf, head, tail, src)
        /\ t - h = (tail - head) + k
    BY RefillKeepsStream
  <2>4. k \in Nat /\ Available = tail - head /\ Available \in Nat
        /\ res' = IF k > 0 THEN <<b[h]>> ELSE <<>>
    BY <2>1, FilledProperties, TypesOfBuffer
  <2> HIDE DEF b, h, t, s
  <2>5. n \in {0, 1} /\ n \in Nat /\ n <= t - h
    BY <2>3, <2>4
  <2>6. res' = Window(b, h, n)
    <3>1. CASE k > 0
      <4>1. h + 1 - 1 = h
        BY <2>3 DEF IsBuffer
      <4> QED BY <2>4, <3>1, <4>1 DEF Window
    <3>2. CASE ~(k > 0)
      BY <2>4, <3>2 DEF Window
    <3> QED BY <3>1, <3>2
  <2> HIDE DEF n
  <2>7. /\ n <= Len(Rest(b, h, t, s))
        /\ Window(b, h, n) = SubSeq(Rest(b, h, t, s), 1, n)
    BY <2>3, <2>5, TakingFromBuffer
  <2>8. Stream!Look(n)
    BY <2>2, <2>3, <2>6, <2>7, StreamIsRest DEF Stream!Look, stream
  <2>9. n <= Len(Unread \o src)
    BY <2>3, <2>7, StreamIsRest DEF stream
  <2> QED BY <2>5, <2>8, <2>9 DEF Stream!Next
<1> QED BY <1>1, <1>2

LEMMA AdvanceImplements ==
  ASSUME TypeOK, NEW n \in 1..BufSize, Advance(n) PROVE Stream!Next
<1>1. /\ n \in Nat /\ n <= Available /\ head' = head + n /\ res' = res
      /\ UNCHANGED <<buf, tail, bufOffset, src>>
  BY BufSizeAssumption DEF Advance
<1>2. /\ n <= Len(stream) /\ stream' = SubSeq(stream, n + 1, Len(stream))
      /\ Offset' = Offset + n
  BY <1>1, TakesFromBuffer
<1>3. Stream!Skip(n)
  BY <1>1, <1>2 DEF Stream!Skip, stream
<1>4. n \in 0..Len(Unread \o src)
  BY <1>1, <1>2, StreamLength DEF stream
<1> QED BY <1>3, <1>4 DEF Stream!Next

LEMMA ReadImplements ==
  ASSUME TypeOK, NEW count \in 1..BufSize, Read(count) \/ SlowRead(count) PROVE Stream!Next
<1>1. PICK n \in Nat : /\ n <= Available /\ head' = head + n
                      /\ res' = [i \in 1..n |-> buf[head + i - 1]]
                      /\ UNCHANGED <<buf, tail, bufOffset, src>>
  <2>1. Available \in Nat /\ count \in Nat
    BY TypesOfBuffer, BufSizeAssumption
  <2>2. CASE Read(count)
    BY <2>1, <2>2 DEF Read, Consume
  <2>3. CASE SlowRead(count)
    BY <2>1, <2>3 DEF SlowRead, Consume
  <2> QED BY <2>2, <2>3
<1>2. res' = Window(buf, head, n)
  BY <1>1 DEF Window
<1> QED BY <1>1, <1>2, TakesFromBuffer, StreamLength, TakenImplements DEF Taken

LEMMA SlowReadMoreImplements ==
  ASSUME TypeOK, SlowReadMore PROVE Stream!Next
<1>1. PICK k \in Readable : SetInput(Filled(k), k) /\ Consume(Filled(k), Smaller(k, want))
  BY DEF SlowReadMore
<1> DEFINE n == Smaller(k, want)
<1>2. k \in Nat /\ want \in Nat /\ Available \in Nat
  BY FilledProperties, TypesOfBuffer DEF TypeOK
<1>3. n \in Nat /\ n <= k + Available
  BY <1>2 DEF Smaller
<1>4. head' = Filled(k).head + n /\ res' = Window(Filled(k).buf, Filled(k).head, n)
  BY <1>1 DEF Consume, Window
<1> HIDE DEF n
<1> QED BY <1>1, <1>3, <1>4, TakesAfterRefill, StreamLength, TakenImplements DEF Taken

LEMMA UngetImplements ==
  ASSUME IInv, NEW x \in Returned, Unget(x) PROVE Stream!Next
<1> DEFINE r == Rest(buf, head, tail, src)
           q == Rest(buf', head', tail', src')
           one == <<x>>
<1>1. /\ IsBuffer(buf, head, tail, src) /\ IsBuffer(buf', head', tail', src')
      /\ bufOffset \in Int
  BY UngetIInv, TypesOfBuffer, BufSizeAssumption DEF IInv, TypeOK, IsBuffer
<1>2. /\ head \in Nat /\ tail \in Nat /\ head <= tail /\ tail <= BufSize /\ BufSize \in Nat
      /\ head' \in Nat /\ head' = head - 1 /\ tail' = tail /\ src' = src /\ bufOffset' = bufOffset
      /\ buf \in [0..(BufSize - 1) -> Elem] /\ buf' = [buf EXCEPT ![head - 1] = x]
  BY <1>1, BufSizeAssumption DEF IsBuffer, Unget
<1>3. /\ r \in Seq(Elem) /\ Len(r) = (tail - head) + Len(src) /\ Len(src) \in Nat
      /\ \A i \in 1..((tail - head) + Len(src)) :
           r[i] = IF i <= tail - head THEN buf[head + i - 1] ELSE src[i - (tail - head)]
  BY <1>1, RestProperties
<1>4. /\ q \in Seq(Elem) /\ Len(q) = (tail' - head') + Len(src')
      /\ \A i \in 1..((tail' - head') + Len(src')) :
           q[i] = IF i <= tail' - head' THEN buf'[head' + i - 1] ELSE src'[i - (tail' - head')]
  BY <1>1, RestProperties
<1>5. one \in Seq(Elem) /\ Len(one) = 1 /\ one[1] = x
  BY SourceAssumption
<1> HIDE DEF r, q, one
<1>6. /\ one \o r \in Seq(Elem) /\ Len(one \o r) = 1 + Len(r)
      /\ \A i \in 1..(1 + Len(r)) : (one \o r)[i] = IF i <= 1 THEN one[i] ELSE r[i - 1]
  <2>1. /\ one \o r \in Seq(Elem) /\ Len(one \o r) = Len(one) + Len(r)
        /\ \A i \in 1..(Len(one) + Len(r)) :
             (one \o r)[i] = IF i <= Len(one) THEN one[i] ELSE r[i - Len(one)]
    BY <1>3, <1>5, ConcatProperties
  <2> QED BY <1>5, <2>1
<1>7. Len(q) = Len(one \o r)
  BY <1>2, <1>3, <1>4, <1>6
<1>8. ASSUME NEW i \in 1..Len(q) PROVE q[i] = (one \o r)[i]
  <2>1. /\ i \in 1..((tail - (head - 1)) + Len(src)) /\ i \in 1..(1 + Len(r))
    BY <1>2, <1>3, <1>4, <1>6, <1>7
  <2>2. q[i] = IF i <= tail - (head - 1) THEN buf'[(head - 1) + i - 1]
               ELSE src[i - (tail - (head - 1))]
    BY <1>2, <1>4, <2>1
  <2>3. (one \o r)[i] = IF i <= 1 THEN one[i] ELSE r[i - 1]
    BY <1>6, <2>1
  <2>4. CASE i = 1
    <3>1. q[i] = buf'[head - 1]
      <4>1. i <= tail - (head - 1) /\ (head - 1) + i - 1 = head - 1
        BY <1>2, <2>4
      <4> QED BY <2>2, <4>1
    <3>2. head - 1 \in 0..(BufSize - 1)
      BY <1>2
    <3> QED BY <1>2, <1>5, <2>3, <2>4, <3>1, <3>2
  <2>5. CASE i > 1
    <3> DEFINE j == i - 1
    <3>1. /\ j \in 1..((tail - head) + Len(src)) /\ ~(i <= 1)
          /\ i <= tail - (head - 1) <=> j <= tail - head
          /\ (head - 1) + i - 1 = head + j - 1
          /\ i - (tail - (head - 1)) = j - (tail - head)
      BY <1>2, <1>3, <2>1, <2>5
    <3>2. (one \o r)[i] = r[j]
      BY <2>3, <3>1
    <3> HIDE DEF j
    <3>3. r[j] = IF j <= tail - head THEN buf[head + j - 1] ELSE src[j - (tail - head)]
      BY <1>3, <3>1
    <3>4. q[i] = IF j <= tail - head THEN buf'[head + j - 1] ELSE src[j - (tail - head)]
      BY <2>2, <3>1
    <3>5. j <= tail - head => buf'[head + j - 1] = buf[head + j - 1]
      <4>1. j \in Nat /\ j >= 1
        BY <1>3, <3>1
      <4>2. j <= tail - head => head + j - 1 \in 0..(BufSize - 1) /\ head + j - 1 # head - 1
        BY <1>2, <4>1
      <4> QED BY <1>2, <4>2
    <3> QED BY <3>2, <3>3, <3>4, <3>5
  <2>6. i = 1 \/ i > 1
    BY <2>1
  <2> QED BY <2>4, <2>5, <2>6
<1>9. q = one \o r
  BY <1>4, <1>6, <1>7, <1>8, SeqEqual
<1>10. stream' = <<x>> \o stream
  BY <1>9, StreamIsRest DEF q, r, one
<1>11. Offset' = Offset - 1
  BY <1>1, <1>2 DEF Offset
<1>12. Stream!PutBack(x)
  BY <1>10, <1>11 DEF Stream!PutBack, stream, Unget
<1> QED BY <1>12, SourceAssumption DEF Stream!Next

(* A FillBuffer of its own is a step that the stream does not see.         *)
LEMMA StreamStep ==
  ASSUME IInv, [Next]_vars
  PROVE  [Stream!Next]_<<Unread \o src, Offset, res>>
<1>0. TypeOK
  BY DEF IInv
<1>1. CASE UNCHANGED vars
  BY <1>1 DEF vars, Unread, Available, Offset
<1>2. CASE FillBuffer
  <2>1. PICK k \in Readable : SetInput(Filled(k), k) /\ head' = Filled(k).head
    BY <1>2 DEF FillBuffer
  <2>2. stream' = stream /\ Offset' = Offset /\ res' = res
    BY <1>0, <1>2, <2>1, RefillUnseen DEF FillBuffer
  <2> QED BY <2>2 DEF stream
<1> QED BY <1>0, <1>1, <1>2, GetImplements, PeekImplements, AdvanceImplements, ReadImplements,
           SlowReadMoreImplements, UngetImplements DEF Next

(* Neither refills nor put-back elements lose, repeat or reorder anything, *)
(* and offset() counts exactly what was taken: BufferedInput is an         *)
(* InputStream.                                                            *)
THEOREM ImplementsInputStream == Spec => ImplementsStream
<1>1. Init => Stream!Init
  <2>1. ASSUME Init PROVE Unread \o src = src /\ Offset = 0
    <3>1. src \in Seq(Elem) /\ head = 0 /\ tail = 0 /\ bufOffset = 0
      BY <2>1, SourceAssumption DEF Init
    <3>2. Unread = <<>>
      BY <3>1 DEF Unread, Available
    <3> QED BY <3>1, <3>2, ConcatEmptySeq DEF Offset
  <2> QED BY <2>1 DEF Init, Stream!Init
<1>2. IInv /\ [Next]_vars => [Stream!Next]_<<Unread \o src, Offset, res>>
  BY StreamStep
<1> QED BY <1>1, <1>2, BufferedInputInvariant, PTL
           DEF Spec, ImplementsStream, Stream!Spec, Stream!vars

===============================================================================

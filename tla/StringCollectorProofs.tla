------------------------- MODULE StringCollectorProofs ------------------------
(***************************************************************************)
(* Theorems about StringCollector, for every size of the static buffer and *)
(* whatever is appended.                                                   *)
(***************************************************************************)
EXTENDS StringCollector, SequenceTheorems, TLAPS

(* The memory of a string is neither the static buffer nor the one in use. *)
Owned ==
  \A i \in 1..Len(made) :
    /\ made[i].at \in 2..Len(memory)
    /\ made[i].len \in 0..Len(memory[made[i].at])
    /\ made[i].at # buf

(* The static buffer is the first of all buffers and keeps its size, which *)
(* createGCString relies on when it returns to it.                         *)
StaticKept == Len(memory[static]) = StaticSize

IInv == TypeOK /\ Owned /\ StaticKept

-----------------------------------------------------------------------------
(* What SubSeq takes from the front of a sequence                          *)
LEMMA Prefix ==
  ASSUME NEW S, NEW s \in Seq(S), NEW n \in 0..Len(s)
  PROVE  /\ SubSeq(s, 1, n) \in Seq(S)
         /\ Len(SubSeq(s, 1, n)) = n
         /\ \A i \in 1..n : SubSeq(s, 1, n)[i] = s[i]
<1>1. Len(s) \in Nat /\ n \in Nat
  BY LenProperties
<1>2. \A i \in 1..n : s[i] \in S
  BY <1>1, ElementOfSeq
<1>3. /\ SubSeq(s, 1, n) \in Seq(S)
      /\ Len(SubSeq(s, 1, n)) = (IF 1 <= n THEN n - 1 + 1 ELSE 0)
      /\ \A i \in 1..(n - 1 + 1) : SubSeq(s, 1, n)[i] = s[1 + i - 1]
  BY <1>1, <1>2, SubSeqProperties
<1> QED BY <1>1, <1>3

(* The parts of the type invariant, for the steps below.                   *)
LEMMA Types ==
  ASSUME TypeOK
  PROVE  /\ memory \in Seq(Seq(Byte)) /\ Len(memory) \in Nat
         /\ \A j \in 1..Len(memory) : memory[j] \in Seq(Byte) /\ Len(memory[j]) \in Nat
         /\ buf \in 1..Len(memory) /\ memory[buf] \in Seq(Byte)
         /\ bufSize = Len(memory[buf]) /\ bufSize \in Nat
         /\ len \in Nat /\ len <= bufSize
         /\ made \in Seq([at : Nat, len : Nat]) /\ Len(made) \in Nat
         /\ \A i \in 1..Len(made) : made[i].at \in Nat /\ made[i].len \in Nat
<1>1. memory \in Seq(Seq(Byte)) /\ Len(memory) \in Nat
  BY LenProperties DEF TypeOK
<1>2. \A j \in 1..Len(memory) : memory[j] \in Seq(Byte) /\ Len(memory[j]) \in Nat
  BY <1>1, ElementOfSeq, LenProperties
<1>3. made \in Seq([at : Nat, len : Nat]) /\ Len(made) \in Nat
  BY LenProperties DEF TypeOK
<1>4. \A i \in 1..Len(made) : made[i] \in [at : Nat, len : Nat]
  BY <1>3, ElementOfSeq
<1>5. /\ buf \in 1..Len(memory) /\ bufSize = Len(memory[buf]) /\ len \in 0..bufSize
  BY DEF TypeOK
<1> QED BY <1>1, <1>2, <1>3, <1>4, <1>5

-----------------------------------------------------------------------------
(* After ensureFreeSpace the text is where m_buf points to, k bytes fit    *)
(* behind it, and the memory of strings is as it was.                      *)
LEMMA EnsuredProperties ==
  ASSUME TypeOK, NEW k \in Nat
  PROVE  /\ Ensured(k).memory \in Seq(Seq(Byte))
         /\ Len(Ensured(k).memory) \in Nat
         /\ Len(memory) <= Len(Ensured(k).memory)
         /\ Ensured(k).buf \in 1..Len(Ensured(k).memory)
         /\ Ensured(k).buf = buf \/ Ensured(k).buf = Len(memory) + 1
         /\ Len(Ensured(k).memory[Ensured(k).buf]) = Ensured(k).bufSize
         /\ Ensured(k).bufSize \in Nat
         /\ len + k <= Ensured(k).bufSize
         /\ \A j \in 1..Len(memory) : Ensured(k).memory[j] = memory[j]
         /\ \A i \in 1..len : Ensured(k).memory[Ensured(k).buf][i] = memory[buf][i]
<1>1. CASE ~(len + k > bufSize)
  BY <1>1, Types DEF Ensured
<1>2. CASE len + k > bufSize
  <2> DEFINE n == NewSize(len + k)
             b == [i \in 1..n |-> IF i <= len THEN memory[buf][i] ELSE Junk]
  <2>1. n \in Nat /\ len + k <= n
    BY Types DEF NewSize
  <2>2. \A i \in 1..n : b[i] \in Byte
    BY <2>1, Types, ElementOfSeq DEF Byte
  <2>3. b \in [1..n -> Byte]
    BY <2>2
  <2>4. b \in Seq(Byte) /\ Len(b) = n
    BY <2>1, <2>3
  <2>5. /\ Ensured(k).memory = Append(memory, b)
        /\ Ensured(k).buf = Len(memory) + 1
        /\ Ensured(k).bufSize = n
    BY <1>2 DEF Ensured, Grown
  <2>6. \A i \in 1..len : b[i] = memory[buf][i]
    BY <2>1, Types
  <2> HIDE DEF b, n
  <2>7. /\ Append(memory, b) \in Seq(Seq(Byte))
        /\ Len(Append(memory, b)) = Len(memory) + 1
        /\ \A j \in 1..Len(memory) : Append(memory, b)[j] = memory[j]
        /\ Append(memory, b)[Len(memory) + 1] = b
    BY <2>4, Types, AppendProperties
  <2>8. Ensured(k).memory[Ensured(k).buf] = b
    BY <2>5, <2>7
  <2>9. Len(memory) \in Nat /\ Len(memory) + 1 \in 1..(Len(memory) + 1)
    BY Types
  <2>10. /\ Len(Ensured(k).memory) = Len(memory) + 1
         /\ \A j \in 1..Len(memory) : Ensured(k).memory[j] = memory[j]
         /\ Ensured(k).memory \in Seq(Seq(Byte))
    BY <2>5, <2>7
  <2>11. /\ Len(Ensured(k).memory[Ensured(k).buf]) = Ensured(k).bufSize
         /\ \A i \in 1..len : Ensured(k).memory[Ensured(k).buf][i] = memory[buf][i]
    BY <2>4, <2>5, <2>6, <2>8
  <2> QED BY <2>1, <2>5, <2>9, <2>10, <2>11
<1> QED BY <1>1, <1>2

(* A piece that fits the ensured space is written behind the text and      *)
(* changes nothing but the buffer in use.                                  *)
LEMMA WriteProperties ==
  ASSUME TypeOK, NEW k \in Nat, NEW piece \in Seq(Char), Len(piece) <= k,
         Write(Ensured(k), piece)
  PROVE  /\ memory' \in Seq(Seq(Byte))
         /\ Len(memory') \in Nat
         /\ Len(memory) <= Len(memory')
         /\ buf' \in 1..Len(memory')
         /\ buf' = buf \/ buf' = Len(memory) + 1
         /\ Len(memory'[buf']) = bufSize'
         /\ len' = len + Len(piece)
         /\ len' \in 0..bufSize'
         /\ made' = made
         /\ \A j \in 1..Len(memory) : j # buf => memory'[j] = memory[j]
         /\ \A j \in 1..Len(memory) : Len(memory'[j]) = Len(memory[j])
         /\ \A i \in 1..len : memory'[buf'][i] = memory[buf][i]
         /\ \A i \in 1..Len(piece) : memory'[buf'][len + i] = piece[i]
<1> DEFINE in == Ensured(k)
           old == in.memory[in.buf]
           new == [i \in DOMAIN old |-> IF i \in (len + 1)..(len + Len(piece))
                                        THEN piece[i - len] ELSE old[i]]
<1>1. /\ in.memory \in Seq(Seq(Byte)) /\ Len(in.memory) \in Nat
      /\ Len(memory) <= Len(in.memory)
      /\ in.buf \in 1..Len(in.memory)
      /\ in.buf = buf \/ in.buf = Len(memory) + 1
      /\ Len(old) = in.bufSize /\ in.bufSize \in Nat /\ len + k <= in.bufSize
      /\ \A j \in 1..Len(memory) : in.memory[j] = memory[j]
      /\ \A i \in 1..len : old[i] = memory[buf][i]
  BY EnsuredProperties
<1>2. /\ memory' = [in.memory EXCEPT ![in.buf] = new]
      /\ buf' = in.buf /\ bufSize' = in.bufSize
      /\ len' = len + Len(piece) /\ made' = made
  BY DEF Write
<1> HIDE DEF in
<1>3. old \in Seq(Byte) /\ DOMAIN old = 1..Len(old)
  BY <1>1, ElementOfSeq, LenProperties
<1>4. Len(piece) \in Nat /\ \A i \in 1..Len(piece) : piece[i] \in Byte
  BY LenProperties, ElementOfSeq DEF Byte
<1>5. len \in Nat
  BY Types
<1>6. \A i \in 1..Len(old) : old[i] \in Byte
  BY <1>3, ElementOfSeq
<1>7. \A i \in 1..Len(old) : new[i] \in Byte
  BY <1>1, <1>3, <1>4, <1>5, <1>6
<1>8. /\ \A i \in 1..len : new[i] = old[i]
      /\ \A i \in 1..Len(piece) : new[len + i] = piece[i]
  <2>1. len + Len(piece) <= Len(old) /\ Len(old) \in Nat
    BY <1>1, <1>4, <1>5
  <2>2. \A m \in DOMAIN old : new[m] = IF m \in (len + 1)..(len + Len(piece))
                                      THEN piece[m - len] ELSE old[m]
    OBVIOUS
  <2> HIDE DEF new
  <2>3. ASSUME NEW i \in 1..len PROVE new[i] = old[i]
    <3>1. i \in DOMAIN old /\ i \notin (len + 1)..(len + Len(piece))
      BY <1>3, <1>4, <1>5, <2>1
    <3> QED BY <2>2, <3>1
  <2>4. ASSUME NEW i \in 1..Len(piece) PROVE new[len + i] = piece[i]
    <3>1. PICK m : m = len + i
      OBVIOUS
    <3>2. m \in DOMAIN old /\ m \in (len + 1)..(len + Len(piece)) /\ m - len = i
      BY <1>3, <1>4, <1>5, <2>1, <3>1
    <3>3. new[m] = piece[m - len]
      BY <2>2, <3>2
    <3> QED BY <3>1, <3>2, <3>3
  <2> QED BY <2>3, <2>4
<1>9. new \in [1..Len(old) -> Byte] /\ Len(old) \in Nat
  BY <1>1, <1>3, <1>7
<1> HIDE DEF new, old
<1>10. new \in Seq(Byte) /\ Len(new) = Len(old)
  BY <1>9
<1>11. /\ memory' \in Seq(Seq(Byte)) /\ Len(memory') = Len(in.memory)
       /\ \A j \in 1..Len(in.memory) : memory'[j] = IF j = in.buf THEN new ELSE in.memory[j]
  BY <1>1, <1>2, <1>10, ExceptSeq
<1>12. memory'[buf'] = new
  BY <1>1, <1>2, <1>11
<1>13. \A j \in 1..Len(memory) : j # buf => memory'[j] = memory[j]
  <2> SUFFICES ASSUME NEW j \in 1..Len(memory), j # buf
               PROVE  memory'[j] = memory[j]
    OBVIOUS
  <2>1. Len(memory) \in Nat
    BY Types
  <2>2. j \in 1..Len(in.memory) /\ j # in.buf
    BY <1>1, <2>1
  <2> QED BY <1>1, <1>11, <2>2
<1>14. \A j \in 1..Len(memory) : Len(memory'[j]) = Len(memory[j])
  <2> SUFFICES ASSUME NEW j \in 1..Len(memory)
               PROVE  Len(memory'[j]) = Len(memory[j])
    OBVIOUS
  <2>1. j \in 1..Len(in.memory) /\ in.memory[j] = memory[j]
    BY <1>1, Types
  <2>2. CASE j = in.buf
    BY <1>10, <1>11, <2>1, <2>2 DEF old
  <2>3. CASE j # in.buf
    BY <1>11, <2>1, <2>3
  <2> QED BY <2>2, <2>3
<1>15. /\ memory' \in Seq(Seq(Byte)) /\ Len(memory') \in Nat
       /\ Len(memory) <= Len(memory') /\ buf' \in 1..Len(memory')
       /\ buf' = buf \/ buf' = Len(memory) + 1
       /\ Len(memory'[buf']) = bufSize'
  BY <1>1, <1>2, <1>10, <1>11, <1>12
<1>16. len' = len + Len(piece) /\ len' \in 0..bufSize' /\ made' = made
  BY <1>1, <1>2, <1>4, <1>5
<1>17. \A i \in 1..len : memory'[buf'][i] = memory[buf][i]
  BY <1>1, <1>8, <1>12 DEF old
<1>18. \A i \in 1..Len(piece) : memory'[buf'][len + i] = piece[i]
  BY <1>8, <1>12
<1> QED BY <1>13, <1>14, <1>15, <1>16, <1>17, <1>18

(* Such a write preserves the invariant.                                   *)
LEMMA WriteInvariant ==
  ASSUME IInv, NEW k \in Nat, NEW piece \in Seq(Char), Len(piece) <= k,
         Write(Ensured(k), piece)
  PROVE  IInv'
<1>1. TypeOK /\ Owned /\ StaticKept
  BY DEF IInv
<1>2. TypeOK'
  BY <1>1, WriteProperties, Types DEF TypeOK
<1>3. Owned'
  <2> SUFFICES ASSUME NEW i \in 1..Len(made)
               PROVE  /\ made[i].at \in 2..Len(memory')
                      /\ made[i].len \in 0..Len(memory'[made[i].at])
                      /\ made[i].at # buf'
    BY <1>1, WriteProperties DEF Owned
  <2>1. /\ made[i].at \in 2..Len(memory) /\ made[i].at # buf
        /\ made[i].len \in 0..Len(memory[made[i].at])
    BY <1>1 DEF Owned
  <2>2. Len(memory) \in Nat
    BY <1>1, Types
  <2>3. memory'[made[i].at] = memory[made[i].at]
    <3>1. made[i].at \in 1..Len(memory)
      BY <2>1, <2>2
    <3>2. \A j \in 1..Len(memory) : j # buf => memory'[j] = memory[j]
      BY <1>1, WriteProperties
    <3> QED BY <2>1, <3>1, <3>2
  <2>4. /\ Len(memory') \in Nat /\ Len(memory) <= Len(memory')
        /\ buf' = buf \/ buf' = Len(memory) + 1
    BY <1>1, WriteProperties
  <2> QED BY <2>1, <2>2, <2>3, <2>4
<1>4. StaticKept'
  <2>1. static \in 1..Len(memory)
    BY <1>1, Types DEF static
  <2>2. Len(memory'[static]) = Len(memory[static])
    BY <1>1, <2>1, WriteProperties
  <2> QED BY <1>1, <2>2 DEF StaticKept
<1> QED BY <1>2, <1>3, <1>4 DEF IInv

(* append and appendUTF8 are such writes.                                  *)
LEMMA Appends ==
  /\ \A piece \in Piece : /\ piece \in Seq(Char) /\ Len(piece) \in Nat
                           /\ Len(piece) <= Len(piece)
  /\ \A e \in Encoding : /\ e \in Seq(Char) /\ e \in Piece
                          /\ EncodingRoom \in Nat /\ Len(e) <= EncodingRoom
<1>1. \A piece \in Piece : piece \in Seq(Char)
  BY PieceAssumption
<1>2. \A piece \in Piece : Len(piece) \in Nat
  BY <1>1, LenProperties
<1> QED BY <1>1, <1>2, PieceAssumption, SizeAssumption

-----------------------------------------------------------------------------
(* The empty text                                                          *)
LEMMA EmptyPrefix ==
  ASSUME NEW S, NEW s \in Seq(S)
  PROVE  SubSeq(s, 1, 0) = <<>>
<1>1. 0 \in 0..Len(s)
  BY LenProperties
<1>2. SubSeq(s, 1, 0) \in Seq(S) /\ Len(SubSeq(s, 1, 0)) = 0
  BY <1>1, Prefix
<1> QED BY <1>2, EmptySeq

LEMMA InitInvariant == Init => IInv
<1> SUFFICES ASSUME Init PROVE IInv
  OBVIOUS
<1> DEFINE f == Fresh(StaticSize)
<1>1. StaticSize \in Nat
  BY SizeAssumption
<1>2. f \in [1..StaticSize -> Byte]
  BY DEF Fresh, Byte
<1>3. f \in Seq(Byte) /\ Len(f) = StaticSize
  BY <1>1, <1>2
<1>4. memory = <<f>> /\ buf = 1 /\ bufSize = StaticSize /\ len = 0 /\ made = <<>>
  BY DEF Init, static
<1> HIDE DEF f
<1>5. memory \in Seq(Seq(Byte)) /\ Len(memory) = 1 /\ memory[1] = f
  BY <1>3, <1>4
<1>6. made \in Seq([at : Nat, len : Nat]) /\ Len(made) = 0
  BY <1>4
<1> QED BY <1>1, <1>3, <1>4, <1>5, <1>6 DEF IInv, TypeOK, Owned, StaticKept, static


-----------------------------------------------------------------------------
LEMMA ResetInvariant == IInv /\ Reset => IInv'
BY DEF IInv, TypeOK, Owned, StaticKept, Reset

(* One more string is made, in memory that is not in use.                  *)
LEMMA MadeProperties ==
  ASSUME TypeOK, NEW at \in Nat, made' = Append(made, [at |-> at, len |-> len])
  PROVE  /\ made' \in Seq([at : Nat, len : Nat])
         /\ Len(made') = Len(made) + 1
         /\ \A i \in 1..Len(made) : made'[i] = made[i]
         /\ made'[Len(made) + 1] = [at |-> at, len |-> len]
<1>1. [at |-> at, len |-> len] \in [at : Nat, len : Nat]
  BY Types
<1> QED BY <1>1, Types, AppendProperties

LEMMA HandOverInvariant ==
  ASSUME IInv, HandOver
  PROVE  IInv'
<1>1. TypeOK /\ Owned /\ StaticKept
  BY DEF IInv
<1>2. /\ made' = Append(made, [at |-> buf, len |-> len])
      /\ buf' = 1 /\ bufSize' = StaticSize /\ len' = 0 /\ memory' = memory
      /\ buf # 1
  BY DEF HandOver, FullEnough, static
<1>3. /\ memory \in Seq(Seq(Byte)) /\ Len(memory) \in Nat
      /\ buf \in 1..Len(memory) /\ bufSize = Len(memory[buf]) /\ bufSize \in Nat
      /\ len \in Nat /\ len <= bufSize /\ Len(made) \in Nat /\ buf \in Nat
  BY <1>1, Types
<1>4. /\ made' \in Seq([at : Nat, len : Nat])
      /\ Len(made') = Len(made) + 1
      /\ \A i \in 1..Len(made) : made'[i] = made[i]
      /\ made'[Len(made) + 1] = [at |-> buf, len |-> len]
  BY <1>1, <1>2, <1>3, MadeProperties
<1>5. TypeOK'
  BY <1>1, <1>2, <1>3, <1>4, SizeAssumption DEF TypeOK, StaticKept, static
<1>6. Owned'
  <2> SUFFICES ASSUME NEW i \in 1..(Len(made) + 1)
               PROVE  /\ made'[i].at \in 2..Len(memory)
                      /\ made'[i].len \in 0..Len(memory[made'[i].at])
                      /\ made'[i].at # 1
    BY <1>2, <1>4 DEF Owned
  <2>1. CASE i \in 1..Len(made)
    <3>1. /\ made[i].at \in 2..Len(memory)
          /\ made[i].len \in 0..Len(memory[made[i].at])
      BY <1>1, <2>1 DEF Owned
    <3>2. made'[i] = made[i]
      BY <1>4, <2>1
    <3> QED BY <1>3, <3>1, <3>2
  <2>2. CASE i = Len(made) + 1
    BY <1>2, <1>3, <1>4, <2>2
  <2> QED BY <1>3, <2>1, <2>2
<1>7. StaticKept'
  BY <1>1, <1>2 DEF StaticKept
<1> QED BY <1>5, <1>6, <1>7 DEF IInv

(* The memory a copy adds is the text.                                     *)
LEMMA CopyProperties ==
  ASSUME TypeOK, Copy
  PROVE  /\ memory' \in Seq(Seq(Byte))
         /\ Len(memory') = Len(memory) + 1
         /\ \A j \in 1..Len(memory) : memory'[j] = memory[j]
         /\ memory'[Len(memory) + 1] = Text(buf, len)
         /\ Text(buf, len) \in Seq(Byte)
         /\ Len(Text(buf, len)) = len
         /\ made' = Append(made, [at |-> Len(memory) + 1, len |-> len])
         /\ buf' = buf /\ bufSize' = bufSize /\ len' = 0
<1>1. memory[buf] \in Seq(Byte) /\ len \in 0..Len(memory[buf])
  BY Types
<1>2. Text(buf, len) \in Seq(Byte) /\ Len(Text(buf, len)) = len
  BY <1>1, Prefix DEF Text
<1>3. /\ memory' = Append(memory, Text(buf, len))
      /\ made' = Append(made, [at |-> Len(memory) + 1, len |-> len])
      /\ buf' = buf /\ bufSize' = bufSize /\ len' = 0
  BY DEF Copy, Text
<1> QED BY <1>2, <1>3, Types, AppendProperties

LEMMA CopyInvariant ==
  ASSUME IInv, Copy
  PROVE  IInv'
<1>1. TypeOK /\ Owned /\ StaticKept
  BY DEF IInv
<1>2. /\ memory' \in Seq(Seq(Byte))
      /\ Len(memory') = Len(memory) + 1
      /\ \A j \in 1..Len(memory) : memory'[j] = memory[j]
      /\ Len(memory'[Len(memory) + 1]) = len
      /\ made' = Append(made, [at |-> Len(memory) + 1, len |-> len])
      /\ buf' = buf /\ bufSize' = bufSize /\ len' = 0
  BY <1>1, CopyProperties
<1>3. /\ Len(memory) \in Nat /\ Len(memory) + 1 \in Nat
      /\ buf \in 1..Len(memory) /\ bufSize = Len(memory[buf]) /\ bufSize \in Nat
      /\ len \in Nat /\ Len(made) \in Nat
  BY <1>1, Types
<1>4. /\ made' \in Seq([at : Nat, len : Nat])
      /\ Len(made') = Len(made) + 1
      /\ \A i \in 1..Len(made) : made'[i] = made[i]
      /\ made'[Len(made) + 1] = [at |-> Len(memory) + 1, len |-> len]
  BY <1>1, <1>2, <1>3, MadeProperties
<1>5. TypeOK'
  BY <1>2, <1>3, <1>4 DEF TypeOK
<1>6. Owned'
  <2> SUFFICES ASSUME NEW i \in 1..(Len(made) + 1)
               PROVE  /\ made'[i].at \in 2..(Len(memory) + 1)
                      /\ made'[i].len \in 0..Len(memory'[made'[i].at])
                      /\ made'[i].at # buf
    BY <1>2, <1>4 DEF Owned
  <2>1. CASE i \in 1..Len(made)
    <3>1. /\ made[i].at \in 2..Len(memory) /\ made[i].at # buf
          /\ made[i].len \in 0..Len(memory[made[i].at])
      BY <1>1, <2>1 DEF Owned
    <3>2. made[i].at \in 1..Len(memory) /\ made[i].at \in 2..(Len(memory) + 1)
      BY <1>3, <3>1
    <3>3. memory'[made[i].at] = memory[made[i].at]
      BY <1>2, <3>2
    <3>4. made'[i] = made[i]
      BY <1>4, <2>1
    <3> QED BY <3>1, <3>2, <3>3, <3>4
  <2>2. CASE i = Len(made) + 1
    BY <1>2, <1>3, <1>4, <2>2
  <2> QED BY <1>3, <2>1, <2>2
<1>7. StaticKept'
  <2>1. static \in 1..Len(memory)
    BY <1>3 DEF static
  <2>2. memory'[static] = memory[static]
    BY <1>2, <2>1
  <2> QED BY <1>1, <2>2 DEF StaticKept
<1> QED BY <1>5, <1>6, <1>7 DEF IInv

LEMMA NextInvariant == IInv /\ [Next]_vars => IInv'
<1> SUFFICES ASSUME IInv, [Next]_vars
             PROVE  IInv'
  OBVIOUS
<1>1. ASSUME NEW piece \in Piece, AppendPiece(piece)
      PROVE  IInv'
  BY <1>1, Appends, WriteInvariant DEF AppendPiece
<1>2. ASSUME NEW e \in Encoding, AppendUTF8(e)
      PROVE  IInv'
  BY <1>2, Appends, WriteInvariant DEF AppendUTF8
<1>3. CASE Reset
  BY <1>3, ResetInvariant
<1>4. CASE HandOver
  BY <1>4, HandOverInvariant
<1>5. CASE Copy
  BY <1>5, CopyInvariant
<1>6. CASE UNCHANGED vars
  BY <1>6 DEF IInv, TypeOK, Owned, StaticKept, vars
<1> QED BY <1>1, <1>2, <1>3, <1>4, <1>5, <1>6 DEF Next

(* IInv is an invariant.                                                   *)
THEOREM StringCollectorInvariant == Spec => []IInv
BY InitInvariant, NextInvariant, PTL DEF Spec

(* m_bufSize is the size of the buffer in use and no write goes beyond it, *)
(* whatever is appended and whatever the size of the static buffer.        *)
THEOREM TypeCorrect == Spec => []TypeOK
<1>1. IInv => TypeOK
  BY DEF IInv
<1> QED BY <1>1, StringCollectorInvariant, PTL

(* The destructor never frees the memory of a string that was handed out.  *)
THEOREM NeverFreesStrings == Spec => []FreesOnlyItsOwn
<1>1. IInv => FreesOnlyItsOwn
  BY DEF IInv, Owned, FreesOnlyItsOwn
<1> QED BY <1>1, StringCollectorInvariant, PTL

-----------------------------------------------------------------------------
(* The mapping to StringBuilder: the text under construction, and the      *)
(* strings.                                                                *)
TextMade(i) == Text(made[i].at, made[i].len)
Strings == [i \in 1..Len(made) |-> TextMade(i)]

LEMMA StringsType ==
  ASSUME IInv
  PROVE  /\ \A i \in 1..Len(made) : TextMade(i) \in Seq(Byte)
         /\ Strings \in Seq(Seq(Byte)) /\ Len(Strings) = Len(made)
         /\ \A i \in 1..Len(made) : Strings[i] = TextMade(i)
         /\ Text(buf, len) \in Seq(Byte) /\ Len(Text(buf, len)) = len
<1>1. TypeOK /\ Owned
  BY DEF IInv
<1>2. ASSUME NEW i \in 1..Len(made) PROVE TextMade(i) \in Seq(Byte)
  <2>1. /\ made[i].at \in 2..Len(memory) /\ Len(memory) \in Nat
        /\ made[i].len \in 0..Len(memory[made[i].at])
    BY <1>1, <1>2, Types DEF Owned
  <2>2. memory[made[i].at] \in Seq(Byte)
    <3>1. made[i].at \in 1..Len(memory)
      BY <2>1
    <3>2. \A j \in 1..Len(memory) : memory[j] \in Seq(Byte)
      BY <1>1, Types
    <3> QED BY <3>1, <3>2
  <2> QED BY <2>1, <2>2, Prefix DEF TextMade, Text
<1>3. Len(made) \in Nat
  BY <1>1, Types
<1>4. Strings \in [1..Len(made) -> Seq(Byte)]
  BY <1>2 DEF Strings
<1>5. Strings \in Seq(Seq(Byte)) /\ Len(Strings) = Len(made)
  BY <1>3, <1>4
<1>6. memory[buf] \in Seq(Byte) /\ len \in 0..Len(memory[buf])
  BY <1>1, Types
<1>7. Text(buf, len) \in Seq(Byte) /\ Len(Text(buf, len)) = len
  BY <1>6, Prefix DEF Text
<1> QED BY <1>2, <1>5, <1>7 DEF Strings

(* What is in memory that is not in use stays a string.                    *)
LEMMA StringsKept ==
  ASSUME IInv, \A j \in 1..Len(memory) : j # buf => memory'[j] = memory[j],
         NEW i \in 1..Len(made), made'[i] = made[i]
  PROVE  TextMade(i)' = TextMade(i)
<1>1. /\ made[i].at \in 2..Len(memory) /\ made[i].at # buf
      /\ Len(memory) \in Nat
  BY Types DEF IInv, Owned
<1>2. memory'[made[i].at] = memory[made[i].at]
  BY <1>1
<1> QED BY <1>2 DEF TextMade, Text

(* A write appends the piece to the text.                                  *)
LEMMA WriteAdds ==
  ASSUME IInv, IInv', NEW k \in Nat, NEW piece \in Seq(Char), Len(piece) <= k,
         Write(Ensured(k), piece)
  PROVE  /\ Text(buf, len)' = Text(buf, len) \o piece
         /\ Strings' = Strings
<1>1. TypeOK /\ TypeOK'
  BY DEF IInv
<1>2. /\ memory' \in Seq(Seq(Byte)) /\ Len(memory') \in Nat
      /\ buf' \in 1..Len(memory') /\ Len(memory'[buf']) = bufSize'
      /\ len' = len + Len(piece) /\ len' \in 0..bufSize'
      /\ made' = made
      /\ \A j \in 1..Len(memory) : j # buf => memory'[j] = memory[j]
      /\ \A i \in 1..len : memory'[buf'][i] = memory[buf][i]
      /\ \A i \in 1..Len(piece) : memory'[buf'][len + i] = piece[i]
  BY <1>1, WriteProperties
<1>3. Strings' = Strings
  <2>1. \A i \in 1..Len(made) : TextMade(i)' = TextMade(i)
    BY <1>2, StringsKept
  <2> QED BY <1>2, <2>1 DEF Strings
<1> DEFINE t == SubSeq(memory[buf], 1, len)
           u == SubSeq(memory'[buf'], 1, len')
<1>4. /\ t \in Seq(Byte) /\ Len(t) = len
      /\ \A i \in 1..len : t[i] = memory[buf][i]
  <2>1. memory[buf] \in Seq(Byte) /\ len \in 0..Len(memory[buf])
    BY <1>1, Types
  <2> QED BY <2>1, Prefix
<1>5. /\ u \in Seq(Byte) /\ Len(u) = len'
      /\ \A i \in 1..len' : u[i] = memory'[buf'][i]
  <2>1. memory'[buf'] \in Seq(Byte)
    BY <1>2, ElementOfSeq
  <2>2. len' \in 0..Len(memory'[buf'])
    BY <1>2
  <2> QED BY <2>1, <2>2, Prefix
<1>6. len \in Nat /\ Len(piece) \in Nat
  BY <1>1, Types, LenProperties
<1>7. piece \in Seq(Byte)
  <2>1. Char \subseteq Byte
    BY DEF Byte
  <2> QED BY <2>1, SeqMonotonic, Zenon
<1> HIDE DEF t, u
<1>8. /\ t \o piece \in Seq(Byte) /\ Len(t \o piece) = len + Len(piece)
      /\ \A i \in 1..(len + Len(piece)) :
           (t \o piece)[i] = IF i <= len THEN t[i] ELSE piece[i - len]
  BY <1>4, <1>7, ConcatProperties
<1>9. ASSUME NEW i \in 1..(len + Len(piece)) PROVE u[i] = (t \o piece)[i]
  <2>1. CASE i <= len
    <3>1. i \in 1..len
      BY <1>6, <2>1
    <3> QED BY <1>2, <1>4, <1>5, <1>8, <1>9, <2>1, <3>1
  <2>2. CASE ~(i <= len)
    <3>1. i - len \in 1..Len(piece) /\ len + (i - len) = i
      BY <1>6, <1>9, <2>2
    <3>2. memory'[buf'][i] = piece[i - len]
      BY <1>2, <3>1
    <3> QED BY <1>2, <1>5, <1>8, <1>9, <2>2, <3>2
  <2> QED BY <2>1, <2>2
<1>10. u = t \o piece
  BY <1>2, <1>5, <1>8, <1>9, SeqEqual
<1> QED BY <1>3, <1>10 DEF t, u, Text

(* A string made of the text, in memory the strings before it do not use.  *)
LEMMA OneMoreString ==
  ASSUME IInv, IInv', Len(made') = Len(made) + 1,
         \A i \in 1..Len(made) : TextMade(i)' = TextMade(i),
         TextMade(Len(made))' = Text(buf, len)
  PROVE  Strings' = Append(Strings, Text(buf, len))
<1>1. /\ Strings \in Seq(Seq(Byte)) /\ Len(Strings) = Len(made)
      /\ \A i \in 1..Len(made) : Strings[i] = TextMade(i)
      /\ Text(buf, len) \in Seq(Byte)
  BY StringsType
<1>2. /\ Append(Strings, Text(buf, len)) \in Seq(Seq(Byte))
      /\ Len(Append(Strings, Text(buf, len))) = Len(made) + 1
      /\ \A i \in 1..Len(made) : Append(Strings, Text(buf, len))[i] = Strings[i]
      /\ Append(Strings, Text(buf, len))[Len(made) + 1] = Text(buf, len)
  BY <1>1, AppendProperties
<1>3. Strings' = [i \in 1..Len(made') |-> TextMade(i)']
  BY DEF Strings
<1>4. Len(made) \in Nat
  BY Types DEF IInv
<1>5. ASSUME NEW i \in 1..(Len(made) + 1)
      PROVE  TextMade(i)' = Append(Strings, Text(buf, len))[i]
  <2>1. CASE i \in 1..Len(made)
    BY <1>1, <1>2, <2>1
  <2>2. CASE i = Len(made')
    <3>1. TextMade(i)' = Text(buf, len)
      BY <2>2 DEF TextMade
    <3> QED BY <1>2, <2>2, <3>1
  <2>3. i \in 1..Len(made) \/ i = Len(made')
    BY <1>4, <1>5
  <2> QED BY <2>1, <2>2, <2>3
<1>6. Len(Strings') = Len(made) + 1 /\ Strings' \in Seq(Seq(Byte))
  <2>1. (IInv => Strings \in Seq(Seq(Byte)) /\ Len(Strings) = Len(made))'
    BY StringsType, PTL
  <2> QED BY <2>1
<1>7. \A i \in 1..Len(Strings') : Strings'[i] = Append(Strings, Text(buf, len))[i]
  BY <1>3, <1>5, <1>6
<1> QED BY <1>2, <1>6, <1>7, SeqEqual

LEMMA NoText ==
  ASSUME IInv, len = 0
  PROVE  Text(buf, len) = <<>>
<1>1. memory[buf] \in Seq(Byte)
  BY Types DEF IInv
<1> QED BY <1>1, EmptyPrefix DEF Text

LEMMA HandOverMakes ==
  ASSUME IInv, IInv', HandOver
  PROVE  Strings' = Append(Strings, Text(buf, len)) /\ Text(buf, len)' = <<>>
<1>1. /\ made' = Append(made, [at |-> buf, len |-> len])
      /\ memory' = memory /\ len' = 0
  BY DEF HandOver
<1>2. TypeOK /\ buf \in Nat
  BY Types DEF IInv
<1>3. /\ Len(made') = Len(made) + 1
      /\ \A i \in 1..Len(made) : made'[i] = made[i]
      /\ made'[Len(made) + 1] = [at |-> buf, len |-> len]
  BY <1>1, <1>2, MadeProperties
<1>4. \A i \in 1..Len(made) : TextMade(i)' = TextMade(i)
  BY <1>1, <1>3 DEF TextMade, Text
<1>5. TextMade(Len(made))' = Text(buf, len)
  <2>1. made'[Len(made')] = [at |-> buf, len |-> len]
    BY <1>3
  <2>2. TextMade(Len(made))' = SubSeq(memory'[made'[Len(made')].at], 1, made'[Len(made')].len)
    BY DEF TextMade, Text
  <2> QED BY <1>1, <2>1, <2>2 DEF Text
<1>6. Strings' = Append(Strings, Text(buf, len))
  BY <1>3, <1>4, <1>5, OneMoreString
<1>7. (IInv /\ len = 0 => Text(buf, len) = <<>>)'
  BY NoText, PTL
<1> QED BY <1>1, <1>6, <1>7

LEMMA CopyMakes ==
  ASSUME IInv, IInv', Copy
  PROVE  Strings' = Append(Strings, Text(buf, len)) /\ Text(buf, len)' = <<>>
<1> DEFINE t == SubSeq(memory[buf], 1, len)
<1>1. /\ \A j \in 1..Len(memory) : memory'[j] = memory[j]
      /\ memory'[Len(memory) + 1] = t
      /\ t \in Seq(Byte) /\ Len(t) = len
      /\ made' = Append(made, [at |-> Len(memory) + 1, len |-> len])
      /\ len' = 0
  BY CopyProperties DEF IInv, Text
<1>2. TypeOK /\ Len(memory) + 1 \in Nat
  BY Types DEF IInv
<1>3. /\ Len(made') = Len(made) + 1
      /\ \A i \in 1..Len(made) : made'[i] = made[i]
      /\ made'[Len(made) + 1] = [at |-> Len(memory) + 1, len |-> len]
  BY <1>1, <1>2, MadeProperties
<1>4. \A i \in 1..Len(made) : TextMade(i)' = TextMade(i)
  BY <1>1, <1>3, StringsKept
<1>5. TextMade(Len(made))' = SubSeq(memory'[Len(memory) + 1], 1, len)
  <2>1. made'[Len(made')] = [at |-> Len(memory) + 1, len |-> len]
    BY <1>3
  <2>2. made'[Len(made')].at = Len(memory) + 1 /\ made'[Len(made')].len = len
    BY <2>1
  <2>3. TextMade(Len(made))' = SubSeq(memory'[made'[Len(made')].at], 1, made'[Len(made')].len)
    BY DEF TextMade, Text
  <2> QED BY <2>2, <2>3, Zenon
<1>6. SubSeq(t, 1, Len(t)) = t
  BY <1>1, SubSeqFull
<1>7. TextMade(Len(made))' = t
  BY <1>1, <1>5, <1>6
<1>8. Strings' = Append(Strings, Text(buf, len))
  BY <1>3, <1>4, <1>7, OneMoreString DEF Text
<1>9. (IInv /\ len = 0 => Text(buf, len) = <<>>)'
  BY NoText, PTL
<1> QED BY <1>1, <1>8, <1>9

(* Every step of the collector is a step of the builder, or a stutter.     *)
LEMMA BuilderStep ==
  ASSUME IInv, IInv', [Next]_vars
  PROVE  [Builder!Next]_<<Text(buf, len), Strings>>
<1>1. ASSUME NEW piece \in Piece, AppendPiece(piece)
      PROVE  Builder!Add(piece)
  BY <1>1, Appends, WriteAdds DEF AppendPiece, Builder!Add, Strings, TextMade
<1>2. ASSUME NEW e \in Encoding, AppendUTF8(e)
      PROVE  e \in Piece /\ Builder!Add(e)
  BY <1>2, Appends, WriteAdds DEF AppendUTF8, Builder!Add, Strings, TextMade
<1>3. CASE Reset
  <2>1. (IInv /\ len = 0 => Text(buf, len) = <<>>)'
    BY NoText, PTL
  <2>2. len' = 0 /\ memory' = memory /\ made' = made
    BY <1>3 DEF Reset
  <2>3. Text(buf, len)' = <<>>
    BY <2>1, <2>2
  <2>4. Strings' = Strings
    BY <2>2 DEF Strings, TextMade, Text
  <2>5. Builder!Clear
    BY <2>3, <2>4 DEF Builder!Clear, Strings, TextMade
  <2> QED BY <2>5 DEF Builder!Next
<1>4. CASE HandOver
  <2>1. Builder!Make
    BY <1>4, HandOverMakes DEF Builder!Make, Strings, TextMade
  <2> QED BY <2>1 DEF Builder!Next
<1>5. CASE Copy
  <2>1. Builder!Make
    BY <1>5, CopyMakes DEF Builder!Make, Strings, TextMade
  <2> QED BY <2>1 DEF Builder!Next
<1>6. CASE UNCHANGED vars
  BY <1>6 DEF vars, Text, Strings, TextMade
<1> QED BY <1>1, <1>2, <1>3, <1>4, <1>5, <1>6 DEF Next, Builder!Next

(* The collector implements the builder: the text is what was appended,    *)
(* and a string never changes once it is made, through every growth,       *)
(* hand-over and re-use of the buffers.                                    *)
THEOREM ImplementsStringBuilder == Spec => ImplementsBuilder
<1>1. ASSUME Init, IInv
      PROVE  Builder!Init
  <2>1. len = 0 /\ made = <<>>
    BY <1>1 DEF Init
  <2>2. Text(buf, len) = <<>>
    BY <1>1, <2>1, NoText
  <2>3. Strings = <<>>
    BY <2>1 DEF Strings
  <2> QED BY <2>2, <2>3 DEF Builder!Init, Strings, TextMade
<1>2. IInv /\ IInv' /\ [Next]_vars => [Builder!Next]_<<Text(buf, len), Strings>>
  BY BuilderStep
<1>3. Init => IInv /\ Builder!Init
  BY <1>1, InitInvariant
<1> QED BY <1>2, <1>3, StringCollectorInvariant, PTL
      DEF Spec, ImplementsBuilder, Builder!Spec, Strings, TextMade

===============================================================================

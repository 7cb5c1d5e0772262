--------------------------- MODULE IvyFifoProofs ---------------------------
(***************************************************************************)
(* Proofs about IvyFifo, for every block size, limit and set of bytes: its *)
(* invariant, and that it implements ByteQueue.                            *)
(***************************************************************************)
EXTENDS IvyFifo, SequenceTheorems, TLAPS

(* The inductive invariant. *)
IInv == TypeOK /\ OneStrayByte

(* What a place of memory may hold. *)
Cell == Byte \cup {Junk}

-----------------------------------------------------------------------------
(* Where the bytes are *)

LEMMA LengthRange ==
    ASSUME TypeOK
    PROVE  Length \in 0..(size - 1)
BY DEF TypeOK, Length

(* Every place of the queue is a slot of the buffer, but for the one in    *)
(* front of it.                                                            *)
LEMMA SlotRange ==
    ASSUME TypeOK, NEW k \in 0..(size - 1)
    PROVE  /\ Slot(k) \in -1..(size - 1)
           /\ Slot(k) = -1 => k = 0 /\ rptr = -1 /\ ByteAt(Slot(k)) = Junk
           /\ Slot(k) # -1 => ByteAt(Slot(k)) = buffer[Slot(k)]
           /\ ByteAt(Slot(k)) \in Cell
<1>1. /\ size \in Nat /\ rptr \in -1..(size - 1) /\ k \in 0..(size - 1)
  BY DEF TypeOK
<1>2. Slot(k) \in -1..(size - 1) /\ (Slot(k) = -1 => k = 0 /\ rptr = -1)
  BY <1>1 DEF Slot
<1>3. Slot(k) # -1 => Slot(k) \in 0..(size - 1)
  BY <1>1, <1>2
<1> QED
  BY <1>1, <1>2, <1>3 DEF ByteAt, TypeOK, Cell

(* What waits in the ring is a sequence, of which only the first place may *)
(* hold what was not written.                                              *)
LEMMA ContentIsSeq ==
    ASSUME IInv
    PROVE  /\ Content \in Seq(Cell)
           /\ Len(Content) = Length
           /\ \A i \in 1..Length : Content[i] = ByteAt(Slot(i - 1))
           /\ \A i \in 1..Length : Content[i] \in Byte \/ (i = 1 /\ rptr <= 0)
<1>1. Length \in 0..(size - 1) /\ Length \in Nat
  BY LengthRange DEF IInv, TypeOK
<1>2. \A i \in 1..Length : i - 1 \in 0..(Length - 1) /\ i - 1 \in 0..(size - 1)
  BY <1>1 DEF IInv, TypeOK
<1>3. \A i \in 1..Length : ByteAt(Slot(i - 1)) \in Cell
  BY <1>2, SlotRange DEF IInv
<1>4. Content \in [1..Length -> Cell]
  BY <1>3 DEF Content
<1>5. \A i \in 1..Length : Content[i] = ByteAt(Slot(i - 1))
  BY DEF Content
<1>6. ASSUME NEW i \in 1..Length
      PROVE  Content[i] \in Byte \/ (i = 1 /\ rptr <= 0)
  <2>1. ByteAt(Slot(i - 1)) \in Byte \/ (i - 1 = 0 /\ rptr <= 0)
    BY <1>2 DEF IInv, OneStrayByte
  <2> QED
    BY <1>5, <2>1
<1> QED
  BY <1>1, <1>4, <1>5, <1>6

(* The sizes that Aligned() gives. *)
LEMMA AlignedRange ==
    ASSUME NEW n \in Nat
    PROVE  Aligned(n) \in Nat /\ Aligned(n) > n
<1>1. AllocSize \in Nat \ {0}
  BY SizeAssumption
<1>2. /\ n \div AllocSize \in Nat
      /\ n < (n \div AllocSize) * AllocSize + AllocSize
  <2>1. n = AllocSize * (n \div AllocSize) + (n % AllocSize) /\ n % AllocSize < AllocSize
    BY <1>1
  <2> QED
    BY <1>1, <2>1
<1>3. (n \div AllocSize + 1) * AllocSize = (n \div AllocSize) * AllocSize + AllocSize
  BY <1>1, <1>2
<1> QED
  BY <1>1, <1>2, <1>3 DEF Aligned

-----------------------------------------------------------------------------
(* Sequences *)

(* Bytes in the places of a sequence make up that sequence. *)
LEMMA ContentBecomes ==
    ASSUME NEW q \in Seq(Cell), TypeOK',
           Length' = Len(q),
           \A i \in 1..Len(q) : q[i] \in Byte \/ (i = 1 /\ rptr' <= 0),
           \A k \in 0..(Len(q) - 1) : ByteAt(Slot(k))' = q[k + 1]
    PROVE  Content' = q /\ OneStrayByte'
<1>1. \A i \in 1..Len(q) : ByteAt(Slot(i - 1))' = q[i]
  <2> TAKE i \in 1..Len(q)
  <2>1. i - 1 \in 0..(Len(q) - 1) /\ (i - 1) + 1 = i
    OBVIOUS
  <2> QED
    BY <2>1
<1>2. Content' = [i \in 1..Len(q) |-> q[i]]
  BY <1>1 DEF Content
<1>3. q = [i \in 1..Len(q) |-> q[i]]
  OBVIOUS
<1>4. OneStrayByte'
  <2> SUFFICES ASSUME NEW k \in 0..(Length' - 1)
               PROVE  ByteAt(Slot(k))' \in Byte \/ (k = 0 /\ rptr' <= 0)
    BY DEF OneStrayByte
  <2>1. k + 1 \in 1..Len(q) /\ (k + 1 = 1 => k = 0)
    OBVIOUS
  <2>2. ByteAt(Slot(k))' = q[k + 1]
    OBVIOUS
  <2> QED
    BY <2>1, <2>2
<1> QED
  BY <1>2, <1>3, <1>4

-----------------------------------------------------------------------------
(* Writing *)

(* Bytes stored behind the content leave it in place. *)
LEMMA StoreAppends ==
    ASSUME IInv, out' \in Seq(Cell),
           NEW data \in Seq(Byte), Fits(data), Store(data)
    PROVE  IInv' /\ Content' = Content \o data
<1> DEFINE n == Len(data)
           q == Content \o data
           place(i) == IF i >= wptr THEN i - wptr ELSE i - wptr + size
<1>1. /\ TypeOK
      /\ Length \in 0..(size - 1)
      /\ n \in Nat
      /\ Length + n < size
  BY LengthRange DEF IInv, Fits, Avail, TypeOK
<1>2. /\ q \in Seq(Cell)
      /\ Len(q) = Length + n
      /\ \A i \in 1..Length : q[i] = ByteAt(Slot(i - 1))
      /\ \A i \in 1..n : q[Length + i] = data[i]
      /\ \A i \in 1..Len(q) : q[i] \in Byte \/ (i = 1 /\ rptr <= 0)
  <2>1. Content \in Seq(Cell) /\ Len(Content) = Length /\ data \in Seq(Cell)
    BY ContentIsSeq DEF Cell
  <2>2. /\ q \in Seq(Cell)
        /\ Len(q) = Length + n
        /\ \A i \in 1..(Length + n) :
              q[i] = IF i <= Length THEN Content[i] ELSE data[i - Length]
    BY <2>1, ConcatProperties
  <2>3. \A i \in 1..Length : q[i] = ByteAt(Slot(i - 1))
    BY <1>1, <2>2, ContentIsSeq
  <2>4. ASSUME NEW i \in 1..n
        PROVE  q[Length + i] = data[i]
    <3>1. /\ Length + i \in 1..(Length + n)
          /\ ~(Length + i <= Length)
          /\ (Length + i) - Length = i
      BY <1>1
    <3> QED
      BY <2>2, <3>1
  <2>5. ASSUME NEW i \in 1..Len(q)
        PROVE  q[i] \in Byte \/ (i = 1 /\ rptr <= 0)
    <3>1. CASE i <= Length
      <4>1. i \in 1..Length /\ q[i] = Content[i]
        BY <1>1, <2>2, <3>1
      <4> QED
        BY <4>1, ContentIsSeq
    <3>2. CASE i > Length
      <4>1. i - Length \in 1..n /\ q[i] = data[i - Length]
        BY <1>1, <2>2, <3>2
      <4> QED
        BY <4>1
    <3> QED
      BY <1>1, <2>2, <3>1, <3>2
  <2> QED
    BY <2>2, <2>3, <2>4, <2>5
<1>3. /\ size' = size
      /\ rptr' = rptr
      /\ full' = full
      /\ wptr' = IF wptr + n >= size THEN wptr + n - size ELSE wptr + n
      /\ buffer' = [i \in 0..(size - 1) |->
                        IF place(i) < n THEN data[place(i) + 1] ELSE buffer[i]]
  BY DEF Store
<1>4. TypeOK'
  <2>1. buffer' \in [0..(size - 1) -> Byte \cup {Junk}]
    BY <1>1, <1>3 DEF TypeOK
  <2>2. wptr' \in 0..(size - 1) /\ (rptr = -1 => wptr' + 1 < size)
    BY <1>1, <1>3 DEF TypeOK, Length
  <2> QED
    BY <1>1, <1>3, <2>1, <2>2 DEF TypeOK, Cell
<1>5. Length' = Length + n
  BY <1>1, <1>3 DEF TypeOK, Length
<1> HIDE DEF q
<1>6. ASSUME NEW k \in 0..(Len(q) - 1)
      PROVE  ByteAt(Slot(k))' = q[k + 1]
  <2>1. /\ k \in 0..(size - 1)
        /\ Slot(k)' = Slot(k)
        /\ Slot(k) # -1 => Slot(k) \in 0..(size - 1)
        /\ ByteAt(Slot(k))' = IF Slot(k) = -1 THEN Junk ELSE buffer'[Slot(k)]
        /\ ByteAt(Slot(k)) = IF Slot(k) = -1 THEN Junk ELSE buffer[Slot(k)]
    <3>1. k \in 0..(size - 1)
      BY <1>1, <1>2 DEF TypeOK
    <3>2. Slot(k)' = Slot(k)
      BY <1>3 DEF Slot
    <3>3. Slot(k) \in -1..(size - 1) /\ size \in Nat
      BY <1>1, <3>1, SlotRange DEF TypeOK
    <3>4. Slot(k) # -1 => Slot(k) \in 0..(size - 1)
      BY <3>3
    <3>5. ByteAt(Slot(k))' = IF Slot(k) = -1 THEN Junk ELSE buffer'[Slot(k)]
      BY <1>3, <3>2, <3>3, <3>4 DEF ByteAt
    <3>6. ByteAt(Slot(k)) = IF Slot(k) = -1 THEN Junk ELSE buffer[Slot(k)]
      BY <3>3, <3>4 DEF ByteAt
    <3> QED
      BY <3>1, <3>2, <3>4, <3>5, <3>6
  <2>2. CASE k < Length
    <3>1. k + 1 \in 1..Length /\ (k + 1) - 1 = k
      BY <1>1, <2>2
    <3>2. q[k + 1] = ByteAt(Slot(k))
      BY <1>2, <3>1
    <3>3. CASE Slot(k) = -1
      BY <2>1, <3>2, <3>3
    <3>4. CASE Slot(k) # -1
      <4>1. ~(place(Slot(k)) < n)
        BY <1>1, <2>1, <2>2, <3>4 DEF TypeOK, Slot, Length
      <4>2. buffer'[Slot(k)] = buffer[Slot(k)]
        <5> HIDE DEF place, n
        <5> QED
          BY <1>3, <2>1, <3>4, <4>1
      <4> QED
        BY <2>1, <3>2, <3>4, <4>2
    <3> QED
      BY <3>3, <3>4
  <2>3. CASE k >= Length
    <3>0. Slot(k) # -1
      BY <1>1, <2>1, <2>3 DEF TypeOK, Slot, Length
    <3>1. place(Slot(k)) = k - Length
      BY <1>1, <2>1, <2>3 DEF TypeOK, Slot, Length
    <3>2. buffer'[Slot(k)] = data[k - Length + 1]
      <4>1. place(Slot(k)) < n
        BY <1>1, <1>2, <2>3, <3>1
      <4> HIDE DEF place, n
      <4> QED
        BY <1>3, <2>1, <3>0, <3>1, <4>1
    <3>3. k - Length + 1 \in 1..n /\ Length + (k - Length + 1) = k + 1
      BY <1>1, <1>2, <2>3
    <3> QED
      BY <1>1, <1>2, <2>1, <3>0, <3>2, <3>3
  <2> QED
    BY <1>1, <2>2, <2>3
<1>7. Content' = q /\ OneStrayByte'
  BY <1>2, <1>3, <1>4, <1>5, <1>6, ContentBecomes
<1> QED
  BY <1>4, <1>7 DEF IInv, q

(* Growing moves the content to the start of a larger buffer. *)
LEMMA GrowAppends ==
    ASSUME IInv, out' \in Seq(Cell),
           NEW data \in Seq(Byte), Grow(data)
    PROVE  /\ IInv'
           /\ Content' = Content \o data
           /\ Length + Len(data) < MaxSize
<1> DEFINE n == Length + Len(data)
           q == Content \o data
<1>1. n \in Nat
  BY LengthRange DEF IInv, TypeOK
<1>2. /\ q \in Seq(Cell) /\ Len(q) = n
      /\ \A i \in 1..n : q[i] \in Byte \/ i = 1
  <2>1. Content \in Seq(Cell) /\ Len(Content) = Length /\ data \in Seq(Cell)
    BY ContentIsSeq DEF Cell
  <2>2. /\ q \in Seq(Cell) /\ Len(q) = n
        /\ \A i \in 1..n : q[i] = IF i <= Length THEN Content[i] ELSE data[i - Length]
    BY <2>1, ConcatProperties
  <2>3. ASSUME NEW i \in 1..n
        PROVE  q[i] \in Byte \/ i = 1
    <3>0. Length \in Nat
      BY LengthRange DEF IInv, TypeOK
    <3>1. CASE i <= Length
      <4>1. i \in 1..Length /\ q[i] = Content[i]
        BY <2>2, <3>0, <3>1
      <4> QED
        BY <4>1, ContentIsSeq
    <3>2. CASE i > Length
      <4>1. i - Length \in 1..Len(data) /\ q[i] = data[i - Length]
        BY <2>2, <3>0, <3>2
      <4> QED
        BY <4>1
    <3>3. i <= Length \/ i > Length
      <4>1. i \in Nat
        BY <1>1
      <4> QED
        BY <3>0, <4>1
    <3> QED
      BY <3>1, <3>2, <3>3
  <2> QED
    BY <2>2, <2>3
<1>3. Aligned(n) \in Nat /\ Aligned(n) > n
  BY <1>1, AlignedRange
<1> DEFINE a == Aligned(n)
<1>4. /\ a <= MaxSize
      /\ size' = a
      /\ rptr' = 0
      /\ wptr' = n
      /\ full' = FALSE
      /\ buffer' = [i \in 0..(a - 1) |-> IF i < n THEN q[i + 1] ELSE Junk]
  BY DEF Grow
<1>5. a \in Nat /\ a > n
  BY <1>3
<1> HIDE DEF a, q, n
<1>6. \A i \in 0..(n - 1) : i + 1 \in 1..Len(q) /\ q[i + 1] \in Cell
  BY <1>1, <1>2
<1>7. TypeOK'
  <2>1. buffer' \in [0..(a - 1) -> Byte \cup {Junk}]
    BY <1>1, <1>4, <1>5, <1>6 DEF Cell
  <2> QED
    <3>1. size' \in 1..MaxSize
      <4>1. MaxSize \in Nat
        BY SizeAssumption
      <4> QED
        BY <1>1, <1>4, <1>5, <4>1
    <3>2. rptr' \in 0..(size' - 1) /\ wptr' \in 0..(size' - 1)
      BY <1>1, <1>4, <1>5
    <3>3. buffer' \in [0..(size' - 1) -> Byte \cup {Junk}]
      BY <1>4, <2>1
    <3>4. full' \in BOOLEAN
      BY <1>4
    <3> QED
      BY <1>4, <3>1, <3>2, <3>3, <3>4 DEF TypeOK, Cell
<1>8. Length' = n
  BY <1>1, <1>4 DEF Length
<1>9. ASSUME NEW k \in 0..(Len(q) - 1)
      PROVE  ByteAt(Slot(k))' = q[k + 1]
  <2>1. Slot(k)' = k
    BY <1>1, <1>2, <1>4, <1>5 DEF Slot
  <2>2. k \in 0..(a - 1) /\ k < n
    BY <1>1, <1>2, <1>5
  <2>3. buffer'[k] = q[k + 1]
    BY <1>4, <2>2
  <2> QED
    BY <1>4, <2>1, <2>2, <2>3 DEF ByteAt
<1>10. Content' = q /\ OneStrayByte'
  <2>1. \A i \in 1..Len(q) : q[i] \in Byte \/ (i = 1 /\ rptr' <= 0)
    BY <1>2, <1>4
  <2>2. Length' = Len(q)
    BY <1>2, <1>8
  <2> QED
    BY <1>2, <1>7, <1>9, <2>1, <2>2, ContentBecomes
<1> QED
  BY <1>1, <1>4, <1>5, <1>7, <1>10, SizeAssumption DEF IInv, q, n, a

(* A buffer of MaxSize bytes is too small only for as many bytes or more:  *)
(* MaxSize is a whole number of blocks.                                    *)
LEMMA OverflowsLate ==
    ASSUME NEW n \in Nat, Aligned(n) > MaxSize
    PROVE  n >= MaxSize
<1>1. PICK blocks \in 1..MaxSize : MaxSize = blocks * AllocSize
  BY SizeAssumption
<1>2. AllocSize \in Nat \ {0} /\ MaxSize \in Nat /\ blocks \in Nat
  BY SizeAssumption
<1> DEFINE d == n \div AllocSize
<1>3. d \in Nat /\ d * AllocSize <= n
  <2>1. n = AllocSize * d + (n % AllocSize) /\ n % AllocSize >= 0
    BY <1>2
  <2> QED
    BY <1>2, <2>1
<1>4. (d + 1) * AllocSize > blocks * AllocSize
  BY <1>1 DEF Aligned
<1> HIDE DEF d
<1>5. d + 1 > blocks
  BY <1>2, <1>3, <1>4
<1>6. d * AllocSize >= blocks * AllocSize
  BY <1>2, <1>3, <1>5
<1> QED
  BY <1>1, <1>2, <1>3, <1>6

-----------------------------------------------------------------------------
(* Reading *)

(* What is drained is a prefix; the rest keeps its order. *)
LEMMA DrainTakes ==
    ASSUME IInv, NEW n \in 0..Length, Drain(n), out' = SubSeq(Content, 1, n)
    PROVE  IInv' /\ Content' = SubSeq(Content, n + 1, Length)
<1> DEFINE q == SubSeq(Content, n + 1, Length)
<1>1. /\ TypeOK
      /\ Length \in 0..(size - 1)
      /\ Content \in Seq(Cell)
      /\ Len(Content) = Length
      /\ \A i \in 1..Length : Content[i] \in Cell
      /\ \A i \in 1..Length : Content[i] = ByteAt(Slot(i - 1))
      /\ \A i \in 1..Length : Content[i] \in Byte \/ (i = 1 /\ rptr <= 0)
  BY LengthRange, ContentIsSeq DEF IInv
<1>2. /\ q \in Seq(Cell)
      /\ Len(q) = Length - n
      /\ \A i \in 1..(Length - n) : q[i] = Content[n + i]
  <2>1. /\ n + 1 \in Int /\ Length \in Int
        /\ \A i \in (n + 1)..Length : Content[i] \in Cell
    BY <1>1 DEF TypeOK
  <2>2. /\ q \in Seq(Cell)
        /\ Len(q) = IF n + 1 <= Length THEN Length - (n + 1) + 1 ELSE 0
        /\ \A i \in 1..(Length - (n + 1) + 1) : q[i] = Content[(n + 1) + i - 1]
    BY <2>1, SubSeqProperties
  <2> HIDE DEF q
  <2>3. ASSUME NEW i \in 1..(Length - n)
        PROVE  q[i] = Content[n + i]
    <3>1. i \in 1..(Length - (n + 1) + 1) /\ (n + 1) + i - 1 = n + i
      BY <2>1
    <3> QED
      BY <2>2, <3>1
  <2> QED
    BY <2>1, <2>2, <2>3
<1>3. out' \in Seq(Cell)
  <2>1. \A i \in 1..n : Content[i] \in Cell
    BY <1>1 DEF TypeOK
  <2>2. 1 \in Int /\ n \in Int
    BY <1>1 DEF TypeOK
  <2> QED
    BY <2>1, <2>2, SubSeqProperties
<1>4. /\ size' = size
      /\ wptr' = wptr
      /\ buffer' = buffer
      /\ full' = (full /\ n = 0)
      /\ rptr' = IF rptr + n >= size THEN rptr + n - size ELSE rptr + n
  BY DEF Drain
<1> HIDE DEF q
<1>5. TypeOK'
  <2>1. rptr' \in -1..(size - 1) /\ (rptr' = -1 => rptr = -1)
    BY <1>1, <1>4 DEF TypeOK, Length
  <2>2. full' \in BOOLEAN
    BY <1>4
  <2> QED
    BY <1>1, <1>3, <1>4, <2>1, <2>2 DEF TypeOK, Cell
<1>6. Length' = Length - n
  BY <1>1, <1>4 DEF TypeOK, Length
<1>7. ASSUME NEW k \in 0..(Len(q) - 1)
      PROVE  ByteAt(Slot(k))' = q[k + 1]
  <2>1. /\ k + 1 \in 1..(Length - n)
        /\ n + (k + 1) \in 1..Length
        /\ (n + (k + 1)) - 1 = n + k
    BY <1>1, <1>2 DEF TypeOK
  <2>2. Slot(k)' = Slot(n + k)
    <3>1. /\ rptr \in -1..(size - 1) /\ size \in Nat
          /\ n \in Nat /\ k \in Nat /\ n + k < size
      BY <1>1, <1>2 DEF TypeOK
    <3>2. Slot(k)' = IF rptr' + k >= size THEN rptr' + k - size ELSE rptr' + k
      BY <1>4 DEF Slot
    <3>3. CASE rptr + n >= size
      BY <1>4, <3>1, <3>2, <3>3 DEF Slot
    <3>4. CASE rptr + n < size
      BY <1>4, <3>1, <3>2, <3>4 DEF Slot
    <3> QED
      BY <3>1, <3>3, <3>4
  <2>3. ByteAt(Slot(k))' = ByteAt(Slot(n + k))
    BY <1>4, <2>2 DEF ByteAt
  <2>4. q[k + 1] = ByteAt(Slot(n + k))
    BY <1>1, <1>2, <2>1
  <2> QED
    BY <2>3, <2>4
<1>8. ASSUME NEW i \in 1..Len(q)
      PROVE  q[i] \in Byte \/ (i = 1 /\ rptr' <= 0)
  <2>1. n + i \in 1..Length /\ i \in 1..(Length - n)
    BY <1>1, <1>2 DEF TypeOK
  <2>2. q[i] = Content[n + i]
    BY <1>2, <2>1
  <2>3. n + i = 1 => n = 0 /\ i = 1
    BY <1>1 DEF TypeOK
  <2>4. n = 0 => rptr' = rptr
    BY <1>1, <1>4 DEF TypeOK
  <2> QED
    BY <1>1, <2>1, <2>2, <2>3, <2>4
<1>9. Content' = q /\ OneStrayByte'
  BY <1>2, <1>5, <1>6, <1>7, <1>8, ContentBecomes
<1> QED
  BY <1>5, <1>9 DEF IInv, q

(* A refused send() leaves a stray byte in front of what waits at the      *)
(* start of the buffer.                                                    *)
LEMMA RefusedSlips ==
    ASSUME IInv, SendRefused
    PROVE  IInv' /\ \E n \in 1..Len(Content) : Queue!Slip(n)
<1> DEFINE n == Contiguous
           rest == SubSeq(Content, n + 1, Length)
           q == <<Junk>> \o rest
<1>1. /\ size \in Nat \ {0} /\ rptr \in -1..(size - 1) /\ wptr \in 0..(size - 1)
      /\ buffer \in [0..(size - 1) -> Cell]
      /\ Content \in Seq(Cell)
      /\ Len(Content) = Length
      /\ \A i \in 1..Length : Content[i] = ByteAt(Slot(i - 1))
      /\ \A i \in 1..Length : Content[i] \in Byte \/ (i = 1 /\ rptr <= 0)
  BY ContentIsSeq DEF IInv, TypeOK, Cell
<1>2. /\ n < Length
      /\ out' = SubSeq(Content, 1, n)
      /\ rptr' = -1
      /\ full' = FALSE
      /\ buffer' = buffer /\ size' = size /\ wptr' = wptr
  BY DEF SendRefused
(* The buffer has wrapped, so its first place is not the next to leave.    *)
<1>3. /\ n = size - rptr /\ n \in Nat /\ n >= 1
      /\ Length = n + wptr /\ Length \in Nat
      /\ wptr >= 1 /\ wptr < rptr /\ rptr > 0
  BY <1>1, <1>2 DEF Contiguous, Length, IInv, TypeOK
<1> HIDE DEF n
<1>4. /\ rest \in Seq(Cell) /\ Len(rest) = wptr
      /\ \A i \in 1..wptr : rest[i] = Content[n + i]
  <2>1. /\ n + 1 \in Int /\ Length \in Int
        /\ \A i \in (n + 1)..Length : Content[i] \in Cell
    BY <1>1, <1>3
  <2>2. /\ rest \in Seq(Cell)
        /\ Len(rest) = IF n + 1 <= Length THEN Length - (n + 1) + 1 ELSE 0
        /\ \A i \in 1..(Length - (n + 1) + 1) : rest[i] = Content[(n + 1) + i - 1]
    BY <2>1, SubSeqProperties
  <2> HIDE DEF rest
  <2>3. ASSUME NEW i \in 1..wptr
        PROVE  rest[i] = Content[n + i]
    <3>1. i \in 1..(Length - (n + 1) + 1) /\ (n + 1) + i - 1 = n + i
      BY <1>1, <1>3
    <3> QED
      BY <2>2, <3>1
  <2>4. Len(rest) = wptr
    <3>1. n + 1 <= Length /\ Length - (n + 1) + 1 = wptr
      BY <1>1, <1>3
    <3> QED
      BY <2>2, <3>1
  <2> QED
    BY <2>2, <2>3, <2>4
<1> HIDE DEF rest
<1>5. /\ q \in Seq(Cell) /\ Len(q) = wptr + 1
      /\ q[1] = Junk
      /\ \A i \in 1..wptr : q[i + 1] = rest[i]
  <2>1. <<Junk>> \in Seq(Cell) /\ Len(<<Junk>>) = 1 /\ <<Junk>>[1] = Junk
    BY DEF Cell
  <2>2. /\ q \in Seq(Cell) /\ Len(q) = 1 + wptr
        /\ \A i \in 1..(1 + wptr) : q[i] = IF i <= 1 THEN <<Junk>>[i] ELSE rest[i - 1]
    BY <1>4, <2>1, ConcatProperties
  <2>3. ASSUME NEW i \in 1..wptr
        PROVE  q[i + 1] = rest[i]
    <3>1. i + 1 \in 1..(1 + wptr) /\ ~(i + 1 <= 1) /\ (i + 1) - 1 = i
      BY <1>1
    <3> QED
      BY <2>2, <3>1
  <2>4. 1 \in 1..(1 + wptr)
    BY <1>1
  <2> QED
    BY <1>1, <2>1, <2>2, <2>3, <2>4
<1> HIDE DEF q
<1>6. TypeOK'
  <2>1. out' \in Seq(Cell)
    <3>1. \A i \in 1..n : Content[i] \in Cell
      BY <1>1, <1>2, <1>3
    <3> QED
      BY <1>2, <1>3, <3>1, SubSeqProperties
  <2>2. rptr' \in -1..(size' - 1) /\ wptr' \in 0..(size' - 1) /\ wptr' + 1 < size'
    BY <1>1, <1>2, <1>3
  <2>3. size' \in 1..MaxSize /\ buffer' \in [0..(size' - 1) -> Cell] /\ full' \in BOOLEAN
    BY <1>1, <1>2 DEF IInv, TypeOK
  <2> QED
    BY <2>1, <2>2, <2>3 DEF TypeOK, Cell
<1>7. Length' = Len(q)
  <2>1. ~(wptr < -1) /\ wptr - (-1) = wptr + 1
    BY <1>1
  <2> QED
    BY <1>2, <1>5, <2>1 DEF Length
<1>8. ASSUME NEW k \in 0..(Len(q) - 1)
      PROVE  ByteAt(Slot(k))' = q[k + 1]
  <2>1. Slot(k)' = k - 1 /\ k \in 0..wptr
    BY <1>1, <1>2, <1>5 DEF Slot
  <2>2. CASE k = 0
    <3>1. Slot(k)' = -1
      BY <2>1, <2>2
    <3> QED
      BY <1>2, <1>5, <2>2, <3>1 DEF ByteAt
  <2>3. CASE k # 0
    <3>1. k \in 1..wptr /\ n + k \in 1..Length /\ (n + k) - 1 = n + k - 1
      BY <1>1, <1>3, <2>1, <2>3
    <3>2. Slot(n + k - 1) = k - 1
      BY <1>1, <1>3, <3>1 DEF Slot
    <3>3. q[k + 1] = ByteAt(k - 1)
      BY <1>1, <1>4, <1>5, <3>1, <3>2
    <3>4. ByteAt(Slot(k))' = ByteAt(k - 1)
      BY <1>2, <2>1 DEF ByteAt
    <3> QED
      BY <3>3, <3>4
  <2> QED
    BY <2>2, <2>3
<1>9. ASSUME NEW i \in 1..Len(q)
      PROVE  q[i] \in Byte \/ (i = 1 /\ rptr' <= 0)
  <2>1. CASE i = 1
    BY <1>2, <2>1
  <2>2. CASE i # 1
    <3>1. /\ i - 1 \in 1..wptr /\ (i - 1) + 1 = i
          /\ n + (i - 1) \in 1..Length /\ n + (i - 1) # 1
      <4>1. i \in 2..(wptr + 1)
        BY <1>1, <1>5, <2>2
      <4> QED
        BY <1>1, <1>3, <4>1
    <3>2. q[i] = Content[n + (i - 1)]
      BY <1>4, <1>5, <3>1
    <3> QED
      BY <1>1, <3>1, <3>2
  <2> QED
    BY <2>1, <2>2
<1>10. Content' = q /\ OneStrayByte'
  BY <1>5, <1>6, <1>7, <1>8, <1>9, ContentBecomes
<1>11. Queue!Slip(n) /\ n \in 1..Len(Content)
  <2>1. Content[1] \in Byte
    BY <1>1, <1>3
  <2>2. Content[1] # Junk
    BY <2>1, JunkAssumption
  <2>3. Content' = <<Junk>> \o SubSeq(Content, n + 1, Len(Content))
    BY <1>1, <1>10 DEF q, rest
  <2> QED
    BY <1>1, <1>2, <1>3, <2>2, <2>3 DEF Queue!Slip
<1> QED
  BY <1>6, <1>10, <1>11 DEF IInv

-----------------------------------------------------------------------------
(* The invariant *)

LEMMA InitInv == Init => IInv
<1> SUFFICES ASSUME Init PROVE IInv
  OBVIOUS
<1>1. AllocSize \in 1..MaxSize
  <2>1. PICK blocks \in 1..MaxSize : MaxSize = blocks * AllocSize
    BY SizeAssumption
  <2>2. AllocSize \in Nat \ {0} /\ MaxSize \in Nat
    BY SizeAssumption
  <2> QED
    BY <2>1, <2>2
<1>2. Length = 0
  BY DEF Init, Length
<1> QED
  BY <1>1, <1>2 DEF Init, IInv, TypeOK, OneStrayByte

(* A write keeps the invariant and appends the data or refuses them. *)
LEMMA WriteStep ==
    ASSUME IInv, NEW data \in Seq(Byte), IvyFifoWrite(data)
    PROVE  IInv' /\ (Queue!Accept(data) \/ Queue!Refuse(data))
<1>1. out' = <<>> /\ out' \in Seq(Cell)
  BY DEF IvyFifoWrite
<1>2. /\ Content \in Seq(Cell) /\ Len(Content) = Length
      /\ Length \in Nat /\ Len(data) \in Nat
      /\ size \in 1..MaxSize /\ MaxSize \in Nat
  BY ContentIsSeq, LengthRange, SizeAssumption DEF IInv, TypeOK
<1>3. CASE Fits(data) /\ ~full /\ Store(data)
  <2>1. IInv' /\ Content' = Content \o data
    BY <1>1, <1>3, StoreAppends
  <2>2. Length + Len(data) < MaxSize
    BY <1>2, <1>3 DEF Fits, Avail
  <2>3. full' = FALSE
    BY <1>3 DEF Store, IInv, TypeOK
  <2> QED
    BY <1>1, <1>2, <2>1, <2>2, <2>3 DEF Queue!Accept
<1>4. CASE UNCHANGED fifo /\ full
  <2>1. IInv' /\ Content' = Content
    BY <1>1, <1>4 DEF fifo, IInv, TypeOK, OneStrayByte, Content, Cell, Length, ByteAt, Slot
  <2> QED
    BY <1>1, <1>4, <2>1 DEF Queue!Refuse, fifo
<1>5. CASE Grow(data)
  <2>1. IInv' /\ Content' = Content \o data /\ Length + Len(data) < MaxSize
    BY <1>1, <1>5, GrowAppends
  <2>2. full' = FALSE
    BY <1>5 DEF Grow
  <2> QED
    BY <1>1, <1>2, <2>1, <2>2 DEF Queue!Accept
<1>6. CASE Overflow(data)
  <2>1. IInv' /\ Content' = Content
    BY <1>1, <1>6 DEF Overflow, IInv, TypeOK, OneStrayByte, Content, Cell, Length, ByteAt, Slot
  <2>2. Length + Len(data) >= MaxSize
    BY <1>2, <1>6, OverflowsLate DEF Overflow
  <2>3. full' = TRUE
    BY <1>6 DEF Overflow
  <2> QED
    BY <1>1, <1>2, <2>1, <2>2, <2>3 DEF Queue!Refuse
<1> QED
  BY <1>3, <1>4, <1>5, <1>6 DEF IvyFifoWrite, Skip

(* Taking bytes out keeps the invariant and delivers them. *)
LEMMA DrainStep ==
    ASSUME IInv, NEW n \in 0..Length, Drain(n), out' = SubSeq(Content, 1, n)
    PROVE  IInv' /\ Queue!Deliver(n) /\ n \in 0..Len(Content)
<1>1. IInv' /\ Content' = SubSeq(Content, n + 1, Length)
  BY DrainTakes
<1>2. Len(Content) = Length
  BY ContentIsSeq
<1> QED
  BY <1>1, <1>2 DEF Queue!Deliver, Drain

(* A step keeps the invariant and is one of the queue, or none.            *)
LEMMA NextStep ==
    ASSUME IInv, [Next]_vars
    PROVE  IInv' /\ [Queue!Next]_<<Content, full, out>>
<1>1. ASSUME NEW data \in BoundedSeq(Byte, MaxWrite), IvyFifoWrite(data)
      PROVE  IInv' /\ Queue!Next
  <2>1. data \in Seq(Byte)
    BY DEF BoundedSeq, SeqOf
  <2>2. IInv' /\ (Queue!Accept(data) \/ Queue!Refuse(data))
    BY <1>1, <2>1, WriteStep
  <2> QED
    BY <2>2 DEF Queue!Next, Queue!Chunks, Queue!BoundedSeq, Queue!SeqOf, BoundedSeq, SeqOf
<1>2. Length \in Nat
  BY LengthRange DEF IInv, TypeOK
<1>3. ASSUME NEW n \in 0..MaxWrite, IvyFifoRead(n)
      PROVE  IInv' /\ Queue!Next
  <2> DEFINE got == IF n > Length THEN Length ELSE n
  <2>1. got \in 0..Length
    BY <1>2, MaxWriteAssumption
  <2>2. Drain(got) /\ out' = SubSeq(Content, 1, got)
    BY <1>3 DEF IvyFifoRead
  <2> HIDE DEF got
  <2> QED
    BY <2>1, <2>2, DrainStep DEF Queue!Next
<1>4. ASSUME IvyFifoSendSocket
      PROVE  IInv' /\ Queue!Next
  <2>1. CASE SendTakes
    <3>1. PICK n \in 0..Length : Drain(n) /\ out' = SubSeq(Content, 1, n)
      BY <2>1 DEF SendTakes
    <3> QED
      BY <3>1, DrainStep DEF Queue!Next
  <2>2. CASE SendRefused
    BY <2>2, RefusedSlips DEF Queue!Next
  <2> QED
    BY <1>4, <2>1, <2>2 DEF IvyFifoSendSocket
<1>5. ASSUME UNCHANGED vars
      PROVE  IInv' /\ UNCHANGED <<Content, full, out>>
  BY <1>5 DEF vars, IInv, TypeOK, OneStrayByte, Content, Cell, Length, ByteAt, Slot
<1> QED
  BY <1>1, <1>3, <1>4, <1>5 DEF Next

(* The inductive invariant holds (ivyfifo.c, all of it).                   *)
THEOREM Invariance == Spec => []IInv
<1>1. IInv /\ [Next]_vars => IInv'
  BY NextStep
<1> QED
  BY <1>1, InitInv, PTL DEF Spec

(* Every variable keeps its type.  wptr never runs into rptr from behind,  *)
(* which would empty a full buffer, and rptr leaves the buffer by one byte *)
(* at most, with room behind wptr (IvyFifoDrain of the -1 of send()).      *)
THEOREM TypeCorrect == Spec => []TypeOK
<1>1. IInv => TypeOK
  BY DEF IInv
<1> QED
  BY <1>1, Invariance, PTL

(* What waits was written, except for the byte next to leave after a       *)
(* refused send() (IvyFifoSendSocket).                                     *)
THEOREM OneStrayByteOnly == Spec => []OneStrayByte
<1>1. IInv => OneStrayByte
  BY DEF IInv
<1> QED
  BY <1>1, Invariance, PTL

(* The ring buffer implements the queue, refused send() included: for      *)
(* every size of block and every limit that is a number of blocks, and for *)
(* writes of any length, the bytes written leave in the order in which     *)
(* they were accepted, and a stray byte comes before them only when a      *)
(* send() was refused after another.                                       *)
THEOREM FifoIsQueue == Spec => ImplementsQueue
<1>1. Init => Queue!Init
  <2>1. Init => Length = 0
    BY DEF Init, Length
  <2> QED
    BY <2>1 DEF Init, Queue!Init, Content
<1>2. IInv /\ [Next]_vars => [Queue!Next]_<<Content, full, out>>
  BY NextStep
<1> QED
  BY <1>1, <1>2, Invariance, PTL DEF Spec, ImplementsQueue, Queue!Spec, Queue!queueVars
=============================================================================

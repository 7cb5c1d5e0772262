------------------------------ MODULE IvyFifo ------------------------------
(***************************************************************************)
(* ivyfifo.c: the ring buffer that holds what a congested socket could not *)
(* take.  The pointers of IvyFifoBuffer are offsets into its buffer.       *)
(*                                                                         *)
(* Equal pointers mean an empty buffer, so the buffer must never hold as   *)
(* many bytes as it has: a write that would fill it moves everything to a  *)
(* larger one, up to MaxSize bytes.                                        *)
(*                                                                         *)
(* send() is called up to twice for a buffer that has wrapped.  When the   *)
(* second call is refused its -1 is drained like a number of bytes and     *)
(* rptr ends up in front of the buffer.                                    *)
(***************************************************************************)
EXTENDS Integers, Sequences, SequencesExt

CONSTANTS
    Byte,       \* the values of a byte
    Junk,       \* what malloc() leaves in memory and keeps in front of it
    AllocSize,  \* IVY_FIFO_ALLOC_SIZE
    MaxSize,    \* IVY_FIFO_MAX_ALLOC_SIZE
    MaxWrite    \* a bound: the bytes of one write

ASSUME JunkAssumption == Junk \notin Byte
ASSUME MaxWriteAssumption == MaxWrite \in Nat
(* 262144 divides 32 * 1048576.  The multiplier says it without division.  *)
ASSUME SizeAssumption ==
    /\ AllocSize \in Nat \ {0}
    /\ MaxSize \in Nat
    /\ \E blocks \in 1..MaxSize : MaxSize = blocks * AllocSize

VARIABLES
    buffer,     \* the bytes at f->buffer
    size,       \* f->end - f->buffer
    rptr,       \* f->rptr - f->buffer
    wptr,       \* f->wptr - f->buffer
    full,       \* f->full
    out         \* what the last operation handed out

fifo == <<buffer, size, rptr, wptr, full>>
vars == <<buffer, size, rptr, wptr, full, out>>

Length == IF wptr < rptr THEN wptr - rptr + size ELSE wptr - rptr

Avail == size - Length

(* Mutation of Slot: the first part of a wrapped read is one byte long. *)
SlotOffByOne(k) == IF rptr + k > size THEN rptr + k - size ELSE rptr + k

(* The offset of the byte k places after the next one to leave. *)
Slot(k) == IF rptr + k >= size THEN rptr + k - size ELSE rptr + k

ByteAt(i) == IF i \in 0..(size - 1) THEN buffer[i] ELSE Junk

Content == [i \in 1..Length |-> ByteAt(Slot(i - 1))]

-----------------------------------------------------------------------------
Init ==
    /\ buffer = [i \in 0..(AllocSize - 1) |-> Junk]
    /\ size = AllocSize
    /\ rptr = 0
    /\ wptr = 0
    /\ full = FALSE
    /\ out = <<>>

(* The multiple of AllocSize above n: a whole block more when n is one. *)
Aligned(n) == (n \div AllocSize + 1) * AllocSize

(* Mutation of Fits: the buffer may be filled to its last byte. *)
FitsExactly(data) == Len(data) <= Avail

Fits(data) == Len(data) < Avail

(* memcpy() in at most two parts, the second from the start of the buffer. *)
Store(data) ==
    LET n == Len(data)
        place(i) == IF i >= wptr THEN i - wptr ELSE i - wptr + size
    IN  /\ buffer' = [i \in 0..(size - 1) |->
                         IF place(i) < n THEN data[place(i) + 1] ELSE buffer[i]]
        /\ wptr' = IF wptr + n >= size THEN wptr + n - size ELSE wptr + n
        /\ UNCHANGED <<size, rptr, full>>

(* IvyFifoRealloc() and then the copy of the data: f2 replaces f, its flag *)
(* "full" included.                                                        *)
Grow(data) ==
    LET n == Length + Len(data)
    IN  /\ Aligned(n) <= MaxSize
        /\ size' = Aligned(n)
        /\ buffer' = [i \in 0..(Aligned(n) - 1) |->
                         IF i < n THEN (Content \o data)[i + 1] ELSE Junk]
        /\ rptr' = 0
        /\ wptr' = n
        /\ full' = FALSE

(* A write that fits is dropped as long as the flag is up. *)
Skip(data) == full /\ UNCHANGED fifo

Overflow(data) ==
    /\ Aligned(Length + Len(data)) > MaxSize
    /\ full' = TRUE
    /\ UNCHANGED <<buffer, size, rptr, wptr>>

IvyFifoWrite(data) ==
    /\ \/ Fits(data) /\ ~full /\ Store(data)
       \/ Fits(data) /\ Skip(data)
       \/ ~Fits(data) /\ Grow(data)
       \/ ~Fits(data) /\ Overflow(data)
    /\ out' = <<>>

(* Mutation of Drain: the pointer is left at the end of the buffer. *)
DrainNoWrap(n) ==
    /\ rptr' = rptr + n
    /\ full' = (full /\ n = 0)
    /\ UNCHANGED <<buffer, size, wptr>>

Drain(n) ==
    /\ rptr' = IF rptr + n >= size THEN rptr + n - size ELSE rptr + n
    /\ full' = (full /\ n = 0)
    /\ UNCHANGED <<buffer, size, wptr>>

IvyFifoRead(n) ==
    LET got == IF n > Length THEN Length ELSE n
    IN  out' = SubSeq(Content, 1, got) /\ Drain(got)

(* The bytes up to the end of the buffer, which one send() takes. *)
Contiguous == IF size - rptr > Length THEN Length ELSE size - rptr

(* The kernel takes some bytes, at least one of those there are.  When it *)
(* has taken all up to the end of the buffer the second send() takes some  *)
(* of the rest.                                                            *)
SendTakes ==
    \E n \in 0..Length :
        /\ n = 0 => Length = 0
        /\ n = Contiguous => n = Length
        /\ out' = SubSeq(Content, 1, n)
        /\ Drain(n)

(* The bytes up to the end of the buffer fill the kernel and the second    *)
(* send() returns -1: Drain(-1) follows Drain(Contiguous).                 *)
SendRefused ==
    /\ Contiguous < Length
    /\ out' = SubSeq(Content, 1, Contiguous)
    /\ rptr' = -1
    /\ full' = FALSE
    /\ UNCHANGED <<buffer, size, wptr>>

IvyFifoSendSocket == SendTakes \/ SendRefused

Next ==
    \/ \E data \in BoundedSeq(Byte, MaxWrite) : IvyFifoWrite(data)
    \/ \E n \in 0..MaxWrite : IvyFifoRead(n)
    \/ IvyFifoSendSocket

Spec == Init /\ [][Next]_vars

-----------------------------------------------------------------------------
(* Properties *)

(* The buffer has the size of a whole number of blocks, MaxSize at most,   *)
(* and the pointers stay inside, but for rptr after a refused send(): it   *)
(* may be one byte in front, and then the buffer has room behind wptr.     *)
TypeOK ==
    /\ size \in 1..MaxSize
    /\ buffer \in [0..(size - 1) -> Byte \cup {Junk}]
    /\ rptr \in -1..(size - 1)
    /\ wptr \in 0..(size - 1)
    /\ rptr = -1 => wptr + 1 < size
    /\ full \in BOOLEAN
    /\ out \in Seq(Byte \cup {Junk})

(* What waits between the pointers was written, whatever wrapped and       *)
(* whatever was moved, except for one byte: the next to leave, after a     *)
(* refused send(), and then the buffer has not wrapped again               *)
(* (IvyFifoSendSocket, IvyFifoDrain, IvyFifoRealloc).                      *)
OneStrayByte ==
    \A k \in 0..(Length - 1) :
        ByteAt(Slot(k)) \in Byte \/ (k = 0 /\ rptr <= 0)

Queue == INSTANCE ByteQueue WITH content <- Content, Stray <- Junk

(* The ring buffer is a queue, across wrapping, growing and refusing and   *)
(* whatever send() answers: writes are taken whole or not at all, and the  *)
(* bytes written leave in order, none lost and none twice.  A refused      *)
(* send() puts a stray byte before them (Slip), never a second one before  *)
(* the first has left.                                                     *)
ImplementsQueue == Queue!Spec

(* ivysocket.c:580 "on rajoute juste le flux dans le buffer, quand la      *)
(* socket sera dispo en ecriture, le select appellera la callback pour     *)
(* vider ce buffer": nothing goes out but what was written.  The -1 of a   *)
(* refused send() makes the byte in front of the buffer go out as well.    *)
OnlyWrittenGoesOut == out \in Seq(Byte)
=============================================================================

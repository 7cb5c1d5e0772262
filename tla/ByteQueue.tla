----------------------------- MODULE ByteQueue -----------------------------
(***************************************************************************)
(* What ivyfifo.c promises to ivysocket.c, as a queue of bytes without     *)
(* pointers.  A write is taken whole, at the end, or not at all; what      *)
(* leaves is a prefix of what waits.  The queue refuses a write that would *)
(* fill MaxSize, and may refuse every write after that until bytes leave.  *)
(*                                                                         *)
(* The queue is not clean: a send() that is refused after one that was not *)
(* puts a byte that nobody wrote in front of what still waits.             *)
(***************************************************************************)
EXTENDS Integers, Sequences, SequencesExt

CONSTANTS
    Byte,       \* the values of a byte
    Stray,      \* the byte that nobody wrote
    MaxSize,    \* IVY_FIFO_MAX_ALLOC_SIZE
    MaxWrite    \* a bound: the bytes of one write

ASSUME MaxSizeAssumption == MaxSize \in Nat \ {0}
ASSUME MaxWriteAssumption == MaxWrite \in Nat

VARIABLES
    content,    \* the bytes that wait
    full,       \* the last write was refused and nothing has left since
    out         \* what the last operation handed out

queueVars == <<content, full, out>>

Chunks == BoundedSeq(Byte, MaxWrite)

Init ==
    /\ content = <<>>
    /\ full = FALSE
    /\ out = <<>>

Accept(data) ==
    /\ Len(content) + Len(data) < MaxSize
    /\ content' = content \o data
    /\ full' = FALSE
    /\ out' = <<>>

Refuse(data) ==
    /\ full \/ Len(content) + Len(data) >= MaxSize
    /\ full' = TRUE
    /\ out' = <<>>
    /\ UNCHANGED content

Deliver(n) ==
    /\ out' = SubSeq(content, 1, n)
    /\ content' = SubSeq(content, n + 1, Len(content))
    /\ full' = (full /\ n = 0)

(* What is handed out leaves a stray byte at the head, where there was     *)
(* none.                                                                   *)
Slip(n) ==
    /\ n < Len(content) /\ content[1] # Stray
    /\ out' = SubSeq(content, 1, n)
    /\ content' = <<Stray>> \o SubSeq(content, n + 1, Len(content))
    /\ full' = FALSE

Next ==
    \/ \E data \in Chunks : Accept(data) \/ Refuse(data)
    \/ \E n \in 0..Len(content) : Deliver(n)
    \/ \E n \in 1..Len(content) : Slip(n)

Spec == Init /\ [][Next]_queueVars
=============================================================================

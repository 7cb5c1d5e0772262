------------------------------ MODULE IvyList ------------------------------
(***************************************************************************)
(* list.h: the simple lists of Ivy, as sequences from the head on.         *)
(*                                                                         *)
(* SelectSeq() of the standard library says the same as Without(); it is   *)
(* written out here because the proofs need its recursion.                 *)
(***************************************************************************)
EXTENDS Integers, Sequences

(* IVY_LIST_REMOVE, for each member of gone: the others keep their order. *)
Without(list, gone) ==
    LET kept[n \in 0..Len(list)] ==
            IF n = 0 THEN <<>>
            ELSE IF list[n] \in gone THEN kept[n - 1]
            ELSE Append(kept[n - 1], list[n])
    IN  kept[Len(list)]
=============================================================================

----------------------------- MODULE MCIvyLink -----------------------------
(* IvyLink with the bytes of its frames and a stray byte. *)
EXTENDS IvyLink

FrameBytes == [msg : 0..MaxMsg, part : Parts]

StrayByte == [msg |-> 0, part |-> "arg"]
=============================================================================

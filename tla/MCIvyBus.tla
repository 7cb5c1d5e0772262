------------------------------ MODULE MCIvyBus ------------------------------
(* IvyBus with ports of two digits of four bits: 35, in network order, is  *)
(* 50, the port that a2 listens on: a1 may take a3 for a2.                 *)
EXTENDS IvyBus

CONSTANTS a1, a2, a3

MCPort == [a \in Agent |-> ((a1 :> 52) @@ (a2 :> 50) @@ (a3 :> 54))[a]]
MCEphemeral == [a \in Agent |-> ((a1 :> {45}) @@ (a2 :> {46}) @@ (a3 :> {35}))[a]]
=============================================================================

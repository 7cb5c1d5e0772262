----------------------------- MODULE MCIvyTimer ----------------------------
(* IvyTimer with a timer that repeats for ever and one called twice. *)
EXTENDS IvyTimer

SomeCounts == {TIMER_LOOP, 2}
=============================================================================

--------------------------- MODULE MCGuidCommBus ---------------------------
(* GuidCommBus with the traffic of a flight: a position, then twice the    *)
(* deviation from the trajectory and a tick.                               *)
EXTENDS GuidCommBus

PositionAndTicks == <<"AircraftSetPosition", "GS_Data", "Time", "GS_Data", "Time">>
=============================================================================

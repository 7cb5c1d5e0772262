---------------------------- MODULE GuidHeading ----------------------------
(***************************************************************************)
(* The selected heading and what is computed from it: getPosition(),       *)
(* getState() and getMode() with the test of their fields, the law of      *)
(* computing.c, the gate of computeBankAngleObj() and the track objective. *)
(*                                                                         *)
(* The messages come in any order and say anything: the aircraft is not    *)
(* modelled.  It is taken to fly upright, so that the load factor nz is    *)
(* positive, and not to report a speed of 0 in flight.  A tick sends what  *)
(* is in bank and track and changes neither; GuidComm says when a start    *)
(* ends, here it may at any moment.                                        *)
(*                                                                         *)
(* Headings are counted in Full parts of a turn, and the bank angle is in  *)
(* units for which the gain of the law is a whole number.                  *)
(***************************************************************************)
EXTENDS Integers, SequencesExt

CONSTANTS
    Full,       \* the parts of a turn: 360 in the code
    Limit,      \* the saturation of the bank angle
    Gains,      \* vp / (g * nz * tau_psi), for the speeds of the flight
    Heading,    \* the headings that the aircraft sends
    Value,      \* the headings that are selected
    Spelling,   \* how a field may be written: sequences of classes
    Pooled      \* the linker keeps one copy of equal literals

Class == {"digit", ".", "-", "e", "+", "other"}

ASSUME HeadingAssumption ==
    /\ Full \in Nat \ {0} /\ Full % 2 = 0
    /\ Limit \in Nat \ {0}
    /\ Gains \subseteq Nat \ {0}
    /\ Heading \subseteq 0..Full /\ Value \subseteq 0..Full
    /\ Spelling \subseteq Seq(Class)
    /\ Pooled \in BOOLEAN

VARIABLES
    ap_mode,            \* 1 NAV, 0 HDG
    heading_objective,
    heading_aircraft,
    gs,                 \* gs.modif: a position came since the last computation
    vp,                 \* 0, or 1 for every other speed
    inFlight,           \* flight_starting.value = 1
    bank,               \* global_bank_angle_obj.value
    track,              \* track_obj.value: see Tracks
    said,               \* history: the last heading sent, see Legible
    selected,           \* history: the last heading selected, 0 at first
    flown               \* history: how far the flight has come, see Stages

vars == <<ap_mode, heading_objective, heading_aircraft, gs, vp, inFlight,
          bank, track, said, selected, flown>>

(* Never computed; stored in a long although infinite or not a number.     *)
Tracks == {"none", "undefined", "known"}

(* A speed was sent in flight, and a command was computed after that.      *)
Stages == {"no", "speed", "computed"}

(* main() begins in NAV mode. *)
Init ==
    /\ ap_mode = 1
    /\ heading_objective = 0 /\ heading_aircraft = 0
    /\ gs = FALSE
    /\ vp = 0
    /\ inFlight = FALSE
    /\ bank = 0 /\ track = "none"
    /\ said = 0 /\ selected = 0
    /\ flown = "no"

-----------------------------------------------------------------------------
(* The test of a field *)

Count(c, class) == Len(SelectSeq(c, LAMBDA x : x = class))

(* type == "int" compares addresses. *)
IsType(type, literal) == Pooled /\ type = literal

testFormat(c, type) ==
    LET points == Count(c, ".")
        minuses == Count(c, "-")
        exps == Count(c, "e")
        scients == exps + Count(c, "+")
    IN  /\ Count(c, "other") = 0
        /\ ~ \/ points > 0 /\ IsType(type, "int")
             \/ points > 1 /\ IsType(type, "float")
             \/ minuses > 1 /\ exps = 0
             \/ points > 1 /\ scients > 2 /\ minuses > 2 /\ exps > 0 /\ IsType(type, "float")

(* strcmp() reads past the one character of temp: what is there may make   *)
(* every character but a digit unknown.                                    *)
Verdicts(c, type) ==
    {testFormat(c, type)} \cup {testFormat(c, type) /\ Count(c, "digit") = Len(c)}

(* What the application ought to have understood: digits, and whatever it  *)
(* accepts.                                                                *)
Legible(c, ok) == ok \/ (c # <<>> /\ Count(c, "digit") = Len(c))

-----------------------------------------------------------------------------
(* The law *)

sat(x) == IF x > Limit THEN Limit ELSE IF -x > Limit THEN -Limit ELSE x

errorHeading == heading_objective - heading_aircraft

(* Mutation of Folded: the error is not folded. *)
NotFolded(e) == e

(* Half a turn, as a float, is just above M_PI.  Below half a turn to the  *)
(* left the code turns right by Full - e.                                  *)
Folded(e) ==
    IF e >= Full \div 2 THEN e - Full
    ELSE IF e <= -(Full \div 2) THEN Full - e
    ELSE e

(* The gain K4: the airspeed is 0 until a state was understood. *)
K4 == IF vp = 0 THEN {0} ELSE Gains

computeBankAngleObjHdg == {sat(gain * Folded(errorHeading)) : gain \in K4}

(* The law of NAV mode may answer anything. *)
computeBankAngleObjNav == -Limit..Limit

-----------------------------------------------------------------------------
(* Callbacks *)

getPosition ==
    /\ \E c \in Spelling : \E ok \in Verdicts(c, "float") : gs' = (gs \/ ok)
    /\ \E h \in Heading, c \in Spelling : \E ok \in Verdicts(c, "int") :
          /\ heading_aircraft' = IF ok THEN h ELSE heading_aircraft
          /\ said' = IF Legible(c, ok) THEN h ELSE said
    /\ UNCHANGED <<ap_mode, heading_objective, vp, inFlight, bank, track, selected, flown>>

(* Mutation of getState: a speed that is refused is stored as 0. *)
getStateUntested ==
    /\ \E v \in {0, 1}, c \in Spelling : \E ok \in Verdicts(c, "float") :
          /\ inFlight => v # 0
          /\ vp' = IF ok THEN v ELSE 0
          /\ flown' = IF Legible(c, ok) /\ inFlight /\ flown = "no" THEN "speed" ELSE flown
    /\ UNCHANGED <<ap_mode, heading_objective, heading_aircraft, gs, inFlight,
                   bank, track, said, selected>>

getState ==
    /\ \E v \in {0, 1}, c \in Spelling : \E ok \in Verdicts(c, "float") :
          /\ inFlight => v # 0
          /\ vp' = IF ok THEN v ELSE vp
          /\ flown' = IF Legible(c, ok) /\ inFlight /\ flown = "no" THEN "speed" ELSE flown
    /\ UNCHANGED <<ap_mode, heading_objective, heading_aircraft, gs, inFlight,
                   bank, track, said, selected>>

(* HDG mode is entered also when the value is refused. *)
SelectHeading(v, c) ==
    /\ ap_mode' = 0
    /\ \E ok \in Verdicts(c, "int") :
          /\ heading_objective' = IF ok THEN v ELSE heading_objective
          /\ selected' = IF Legible(c, ok) THEN v ELSE selected

Managed == ap_mode' = 1 /\ UNCHANGED <<heading_objective, selected>>

getMode ==
    /\ Managed \/ \E v \in Value, c \in Spelling : SelectHeading(v, c)
    /\ UNCHANGED <<heading_aircraft, gs, vp, inFlight, bank, track, said, flown>>

(* Without a position since the last time the wings are levelled.  What    *)
(* computeCmd() divides by vp it does in either case.                      *)
computeBankAngleObj ==
    /\ bank' \in (IF ~gs THEN {0}
                  ELSE IF ap_mode = 1 THEN computeBankAngleObjNav
                  ELSE computeBankAngleObjHdg)
    /\ track' = IF vp = 0 THEN "undefined" ELSE "known"
    /\ gs' = FALSE
    /\ flown' = IF flown = "speed" THEN "computed" ELSE flown
    /\ UNCHANGED <<ap_mode, heading_objective, heading_aircraft, vp, inFlight, said, selected>>

(* InitStateVector: the speed it brings is not read. *)
start_flight ==
    /\ inFlight' = TRUE
    /\ UNCHANGED <<ap_mode, heading_objective, heading_aircraft, gs, vp,
                   bank, track, said, selected, flown>>

(* main() comes back to NAV mode, and error_init() clears gs.modif; the    *)
(* values stay.                                                            *)
Restart ==
    /\ ap_mode' = 1
    /\ gs' = FALSE
    /\ UNCHANGED <<heading_objective, heading_aircraft, vp, inFlight, bank, track,
                   said, selected, flown>>

Next ==
    \/ getPosition \/ getState \/ getMode \/ computeBankAngleObj
    \/ start_flight \/ Restart

Spec == Init /\ [][Next]_vars

-----------------------------------------------------------------------------
(* Properties *)

(* The turn, to the right, from a heading to another one. *)
Right(from, to) == (to - from) % Full

(* In HDG mode a command banks to the side of the shorter turn, from the   *)
(* heading the aircraft sent last to the one that was selected last,       *)
(* whatever was refused, restarted or managed in between.  It levels the   *)
(* wings on that heading or while no speed is known, and nowhere else.     *)
(* One case is apart: an aircraft that says 360 with 0 selected is on its  *)
(* heading and is banked right (computing.c:124-144,                       *)
(* app_guid_comm.c:239-291).                                               *)
TurnsTheShortWay ==
    [][(ap_mode = 0 /\ ap_mode' = 0 /\ gs /\ ~gs') =>
          LET right   == Right(said, selected)
              atNorth == said = Full /\ selected = 0
          IN  /\ bank' > 0 => right \in 1..Full \div 2 \/ atNorth
              /\ bank' < 0 => right \in Full \div 2..Full - 1
              /\ bank' = 0 => (right = 0 /\ ~atNorth) \/ vp = 0]_vars

(* The track objective is heading + tau * g * nz * bank / vp, and vp is 0  *)
(* until a state was understood: what a tick sends may be the conversion   *)
(* of an infinite value, or of none, to a long.  It is so no more once, in *)
(* flight, a speed was sent and a command computed after it, whatever is   *)
(* refused later and through restarts (computing.c:104, getState,          *)
(* error_init).                                                            *)
TrackIsDefined == flown = "computed" => track = "known"

(* app_guid_comm.c:448 "AircraftSetPosition ... Heading=360.0": after a    *)
(* position the law uses a heading that the aircraft sent.                 *)
HeadingIsHeard == gs => heading_aircraft \in Heading
=============================================================================

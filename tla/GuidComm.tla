------------------------------ MODULE GuidComm ------------------------------
(***************************************************************************)
(* The GUID-COMM application: app_guid_comm.c, errors.c and the flags that *)
(* computing.c touches.                                                    *)
(*                                                                         *)
(* The process is single threaded.  main() calls start() up to MaxTry      *)
(* times; start() binds the callbacks and runs IvyMainLoop(), which calls  *)
(* them, each to completion, for every message its select() round has      *)
(* read.  IvyStop() only clears the loop's flag: the callbacks still due   *)
(* in the round run before the loop is left.                               *)
(*                                                                         *)
(* The bus is abstracted to its effect: in a round any callback may run,   *)
(* any number of times, with any of the fields named in Malformed refused  *)
(* by testFormat().  GuidCommBus adds the queues of the bus.               *)
(***************************************************************************)
EXTENDS Integers

CONSTANTS
    MaxTry,     \* how often main() starts the loop: 4 in the code
    Malformed,  \* the fields whose text some sender may get wrong
    MaxCount    \* a bound: no callback runs once roll_cmd counts this many errors

(* The shared variables of app_guid_comm.h that carry a "modif" flag. *)
Params ==
    {"roll_cmd", "nx_cmd", "nz_cmd", "global_bank_angle_obj", "track_obj",
     "gs", "heading_aircraft", "vp", "fpa", "bank_angle_aircraft",
     "tas", "alt", "xtk", "tae", "dist", "bank_angle_ref",
     "heading_objective", "current_time"}

ASSUME MaxTryAssumption == MaxTry \in Nat \ {0}
ASSUME MalformedAssumption == Malformed \subseteq Params
ASSUME MaxCountAssumption == MaxCount \in Nat

VARIABLES
    modif,      \* the flags: 1 updated, 0 used, negative a count of errors
    ap_mode,    \* 1 NAV, 0 HDG
    inFlight,   \* flight_starting.value = 1
    loop,       \* MainLoop of ivyloop.c
    nb_try,     \* the starts so far
    pc,         \* where the process is: see PcStates
    (* History variables: no guard reads them. *)
    warned,     \* "Restart" was announced since the loop was started
    requested,  \* Restart_GUID_COMM was received since the loop was started
    fresh,      \* commands were computed since the last tick in flight
    staleTicks  \* ticks in flight, in a row, before which none was computed:
                \* 0, 1 or "more than one"; -1 before the first tick in flight

control == <<ap_mode, inFlight, nb_try, pc>>
history == <<requested, fresh, staleTicks>>
vars == <<modif, ap_mode, inFlight, loop, nb_try, pc,
          warned, requested, fresh, staleTicks>>

(* main: in main()'s while; poll: before a select() round; round: inside   *)
(* one; ended: "APP CRASHED"; killed: left through exit().                 *)
PcStates == {"main", "poll", "round", "ended", "killed"}

(* The flags error_init() clears: it leaves those of the commands alone.  *)
ClearedAtStart ==
    {"gs", "bank_angle_aircraft", "fpa", "current_time", "xtk", "tae",
     "dist", "bank_angle_ref", "heading_aircraft", "heading_objective"}

(* The flags error() looks at when it counts simultaneous errors. *)
Counted ==
    ClearedAtStart \cup {"roll_cmd", "nx_cmd", "nz_cmd", "global_bank_angle_obj"}

-----------------------------------------------------------------------------
(* A callback is a sequence of calls, each of which reads and writes the   *)
(* shared state; it is written as a composition of operators on a record   *)
(* that holds the part of the state they change.                           *)

App == [modif |-> modif, loop |-> loop, warned |-> warned]

Becomes(s) ==
    /\ modif' = s.modif
    /\ loop' = s.loop
    /\ warned' = s.warned

(* strcmp() is nonzero when the names differ, so the first branch of       *)
(* error() takes every name but its own, the second takes that one, and no *)
(* call reaches the other twelve.                                          *)
ChargedTo(p) == IF p # "roll_cmd" THEN "roll_cmd" ELSE "nx_cmd"

Bump(count) == IF count = 1 THEN -1 ELSE count - 1

(* Mutation of WarnAndStop: the announcement is forgotten. *)
StopSilently(s) == [s EXCEPT !.loop = FALSE]

(* GC_AP AP_State='Restart' followed by IvyStop(). *)
WarnAndStop(s) == [s EXCEPT !.loop = FALSE, !.warned = TRUE]

(* Mutation of SingleError: one error later. *)
FourthError(s, q) == s.modif[q] = -4

SingleError(s, q) == s.modif[q] = -3

SimultaneousErrors(s) ==
    \E p, q \in Counted : p # q /\ s.modif[p] < 0 /\ s.modif[q] < 0

error(s, p) ==
    LET q       == ChargedTo(p)
        counted == [s EXCEPT !.modif[q] = Bump(@)]
    IN  IF SingleError(counted, q) \/ SimultaneousErrors(counted)
        THEN WarnAndStop(counted)
        ELSE counted

(* testFormat(field) ? store it : error(...).  The two fields of           *)
(* getForecast are both reported as "tae".                                 *)
ReportedAs(p) == IF p \in {"tas", "alt"} THEN "tae" ELSE p

Acquire(s, p, bad) ==
    IF p \in bad
    THEN error(s, ReportedAs(p))
    ELSE [s EXCEPT !.modif[p] = 1]

(* Mutation of Spend: only the value 1 passes for updated. *)
SpendOne(s, p) ==
    IF s.modif[p] = 1
    THEN [s EXCEPT !.modif[p] = 0]
    ELSE error(s, p)

(* A command goes out in any case; its flag says whether that is an error. *)
Spend(s, p) ==
    IF s.modif[p] # 0
    THEN [s EXCEPT !.modif[p] = 0]
    ELSE error(s, p)

(* The outputs of computeCmd are updated, the inputs it looks at are used. *)
Computed(m, outputs) ==
    [p \in Params |-> IF p \in outputs THEN 1
                      ELSE IF p \in {"bank_angle_aircraft", "fpa"} /\ m[p] = 1 THEN 0
                      ELSE m[p]]

computeCmd(s) ==
    [s EXCEPT !.modif = Computed(@, {"roll_cmd", "nx_cmd", "nz_cmd", "track_obj"})]

(* The guidance law runs only on a position not used yet; in HDG mode it   *)
(* uses the two headings up as well.                                       *)
SteerHdg(s) ==
    [s EXCEPT !.modif = [@ EXCEPT !["heading_aircraft"] = 0, !["heading_objective"] = 0]]

(* Mutation of Steer: without a new position the bank angle stays used. *)
SteerOnPositionOnly(s, mode) ==
    IF s.modif["gs"] = 0 THEN s
    ELSE [(IF mode = 0 THEN SteerHdg(s) ELSE s)
             EXCEPT !.modif["gs"] = 0, !.modif["global_bank_angle_obj"] = 1]

Steer(s, mode) ==
    LET steered == IF s.modif["gs"] = 0 THEN s
                   ELSE [(IF mode = 0 THEN SteerHdg(s) ELSE s)
                            EXCEPT !.modif["gs"] = 0]
    IN  [steered EXCEPT !.modif["global_bank_angle_obj"] = 1]

SendCommands(s) ==
    Spend(Spend(Spend(Spend(Spend(s, "global_bank_angle_obj"), "roll_cmd"),
                      "nx_cmd"), "nz_cmd"), "track_obj")

-----------------------------------------------------------------------------
Init ==
    /\ modif = [p \in Params |-> IF p \in {"nz_cmd", "roll_cmd", "nx_cmd"} THEN 1 ELSE 0]
    /\ ap_mode = 0
    /\ inFlight = FALSE
    /\ loop = TRUE
    /\ nb_try = 0
    /\ pc = "main"
    /\ warned = FALSE
    /\ requested = FALSE
    /\ fresh = FALSE
    /\ staleTicks = -1

-----------------------------------------------------------------------------
(* main() and IvyMainLoop() *)

error_init(m) == [p \in Params |-> IF p \in ClearedAtStart THEN 0 ELSE m[p]]

(* Mutation of Start: one start more. *)
StartOnceMore ==
    /\ pc = "main"
    /\ nb_try <= MaxTry
    /\ nb_try' = nb_try + 1
    /\ ap_mode' = 1
    /\ modif' = error_init(modif)
    /\ loop' = TRUE
    /\ pc' = "poll"
    /\ warned' = FALSE
    /\ requested' = FALSE
    /\ UNCHANGED <<inFlight, fresh, staleTicks>>

(* One pass of main()'s while: NAV mode, error_init(), start() up to the   *)
(* call of IvyMainLoop().  IvyInit() sets the loop's flag again.           *)
Start ==
    /\ pc = "main"
    /\ nb_try < MaxTry
    /\ nb_try' = nb_try + 1
    /\ ap_mode' = 1
    /\ modif' = error_init(modif)
    /\ loop' = TRUE
    /\ pc' = "poll"
    /\ warned' = FALSE
    /\ requested' = FALSE
    /\ UNCHANGED <<inFlight, fresh, staleTicks>>

GiveUp ==
    /\ pc = "main"
    /\ nb_try >= MaxTry
    /\ pc' = "ended"
    /\ UNCHANGED <<modif, ap_mode, inFlight, loop, nb_try, warned, history>>

Jump(from, to) ==
    /\ pc = from
    /\ pc' = to
    /\ UNCHANGED <<modif, ap_mode, inFlight, loop, nb_try, warned, history>>

Select      == loop /\ Jump("poll", "round")
SelectFails == loop /\ Jump("poll", "main")
EndRound    == Jump("round", "poll")

(* Mutation of LeaveLoop: the loop looks at its flag the wrong way round. *)
LeaveLoopInverted == loop /\ Jump("poll", "main")

LeaveLoop   == ~loop /\ Jump("poll", "main")

-----------------------------------------------------------------------------
(* The callbacks *)

InCallback ==
    /\ pc = "round"
    /\ modif["roll_cmd"] > -MaxCount

(* What a message may have wrong, among the fields its callback tests. *)
BadFields(fields) == SUBSET (fields \cap Malformed)

getPosition ==
    /\ InCallback
    /\ \E bad \in BadFields({"gs", "heading_aircraft"}) :
          Becomes(Acquire(Acquire(App, "gs", bad), "heading_aircraft", bad))
    /\ UNCHANGED <<control, history>>

getState ==
    /\ InCallback
    /\ \E bad \in BadFields({"vp", "fpa", "bank_angle_aircraft"}) :
          Becomes(Acquire(Acquire(Acquire(App, "vp", bad), "fpa", bad),
                          "bank_angle_aircraft", bad))
    /\ UNCHANGED <<control, history>>

getForecast ==
    /\ InCallback
    /\ \E bad \in BadFields({"tas", "alt"}) :
          Becomes(Acquire(Acquire(App, "tas", bad), "alt", bad))
    /\ UNCHANGED <<control, history>>

AcquireTrajectory(s, bad) ==
    Acquire(Acquire(Acquire(Acquire(s, "xtk", bad), "tae", bad),
                    "dist", bad), "bank_angle_ref", bad)

computeBankAngleObj ==
    /\ InCallback
    /\ \E bad \in BadFields({"xtk", "tae", "dist", "bank_angle_ref"}) :
          Becomes(computeCmd(Steer(AcquireTrajectory(App, bad), ap_mode)))
    /\ fresh' = TRUE
    /\ UNCHANGED <<control, requested, staleTicks>>

(* "Managed" and every unknown mode select NAV; "SelectedHeading" selects  *)
(* HDG whether or not its heading is well formed.                          *)
getMode ==
    /\ InCallback
    /\ \/ /\ ap_mode' = 1
          /\ UNCHANGED <<modif, loop, warned>>
       \/ /\ ap_mode' = 0
          /\ \E bad \in BadFields({"heading_objective"}) :
                Becomes(Acquire(App, "heading_objective", bad))
    /\ UNCHANGED <<inFlight, nb_try, pc, history>>

(* A clock tick: well formed or not, it flushes the commands in flight. *)
sendGC ==
    /\ InCallback
    /\ \E bad \in BadFields({"current_time"}) :
          LET timed == Acquire(App, "current_time", bad)
          IN  Becomes(IF inFlight THEN SendCommands(timed) ELSE timed)
    /\ IF inFlight
       THEN /\ fresh' = FALSE
            /\ staleTicks' = IF fresh THEN 0
                             ELSE IF staleTicks < 2 THEN staleTicks + 1 ELSE 2
       ELSE UNCHANGED <<fresh, staleTicks>>
    /\ UNCHANGED <<ap_mode, inFlight, nb_try, pc, requested>>

start_flight ==
    /\ InCallback
    /\ inFlight' = TRUE
    /\ UNCHANGED <<modif, ap_mode, loop, nb_try, pc, warned, history>>

(* Restart_GUID_COMM: IvyStop() and no announcement. *)
restart ==
    /\ InCallback
    /\ loop' = FALSE
    /\ requested' = TRUE
    /\ UNCHANGED <<modif, ap_mode, inFlight, nb_try, pc, warned, fresh, staleTicks>>

stop == Jump("round", "killed")

(* SIGINT, from the first start() on, wherever the process is. *)
intHandler ==
    /\ nb_try > 0
    /\ \E from \in {"main", "poll", "round"} : Jump(from, "killed")

-----------------------------------------------------------------------------
Callback ==
    \/ getPosition \/ getState \/ getForecast \/ computeBankAngleObj
    \/ getMode \/ sendGC \/ start_flight \/ restart

Control ==
    \/ Start \/ GiveUp \/ Select \/ SelectFails \/ EndRound \/ LeaveLoop
    \/ stop \/ intHandler

(* The process is gone. *)
Gone == pc \in {"ended", "killed"} /\ UNCHANGED vars

Next == Callback \/ Control \/ Gone

(* The processor is given to the process: a round that has read finitely   *)
(* many messages ends, and main() goes on when the loop has been left.     *)
Fairness == WF_vars(EndRound) /\ WF_vars(LeaveLoop) /\ WF_vars(Start) /\ WF_vars(GiveUp)

Spec == Init /\ [][Next]_vars

FairSpec == Spec /\ Fairness
-----------------------------------------------------------------------------
(* Properties *)

(* Every variable keeps its type.  Only the error counter roll_cmd has no  *)
(* lower bound.                                                            *)
TypeOK ==
    /\ modif \in [Params -> Int]
    /\ ap_mode \in {0, 1}
    /\ inFlight \in BOOLEAN
    /\ loop \in BOOLEAN
    /\ nb_try \in 0..MaxTry
    /\ pc \in PcStates
    /\ warned \in BOOLEAN
    /\ requested \in BOOLEAN
    /\ fresh \in BOOLEAN
    /\ staleTicks \in -1..2

(* Not what errors.c wants, but what follows from its inverted strcmp():   *)
(* roll_cmd is the only flag that ever counts errors, so that the branch   *)
(* for simultaneous errors is dead (errors.c:8-17, 141-147).  The          *)
(* invariants below need it; TwoErrorsStop states what was meant.          *)
OnlyRollCounts ==
    /\ modif["roll_cmd"] <= 1
    /\ \A p \in Params \ {"roll_cmd"} : modif[p] \in {0, 1}

(* The flags of the commands tell what happened, across computeCmd, sendGC *)
(* and warm restarts: bank angle and track are flagged exactly when a      *)
(* computation came after the last tick in flight, and then the three      *)
(* commands of the aircraft are flagged too; after a tick in flight and    *)
(* with nothing computed since, nx and nz are used.                        *)
FlagsTellFreshness ==
    /\ fresh <=> modif["global_bank_angle_obj"] = 1
    /\ fresh <=> modif["track_obj"] = 1
    /\ fresh => modif["nx_cmd"] = 1 /\ modif["nz_cmd"] = 1 /\ modif["roll_cmd"] # 0
    /\ ~fresh /\ staleTicks >= 0 => modif["nx_cmd"] = 0 /\ modif["nz_cmd"] = 0

(* The loop is never stopped behind TRAJ's back: when IvyStop() was called *)
(* "Restart" has been announced, unless a Restart_GUID_COMM asked for it;  *)
(* and no announcement leaves the loop running (errors.c:12-15).           *)
StoppedMeansWarned == ~loop <=> warned \/ requested

(* The inductive invariant: none of the three parts is kept by every step  *)
(* without the others.                                                     *)
IInv == TypeOK /\ OnlyRollCounts /\ FlagsTellFreshness /\ StoppedMeansWarned

(* Three errors in a row stop the loop and are announced, in whichever     *)
(* callbacks they come and whatever the callback with the third one counts *)
(* after it: error() compares with exactly -3, so no callback may step     *)
(* over it (errors.c:9-15).                                                *)
ThirdErrorStops ==
    [][ modif["roll_cmd"] > -3 /\ modif'["roll_cmd"] <= -3
          => warned' /\ ~loop' ]_vars

(* No tick repeats old commands quietly: one tick in flight with nothing   *)
(* computed since the tick before announces a restart (sendGC:335-395).    *)
StaleTickRestarts ==
    [][ sendGC /\ inFlight /\ ~fresh /\ staleTicks >= 0
          => warned' /\ ~loop' ]_vars

(* A tick that follows a computation finds every command updated: it marks *)
(* them used, forgets the errors counted so far, and stops nothing unless  *)
(* its own time is the third error (sendGC:304-398).                       *)
FreshTickSettles ==
    [][ sendGC /\ inFlight /\ fresh
          => /\ \A p \in {"roll_cmd", "nx_cmd", "nz_cmd", "global_bank_angle_obj",
                           "track_obj"} : modif'[p] = 0
             /\ modif["roll_cmd"] # -2 => loop' = loop ]_vars

(* IvyStop() takes effect: the callbacks still due cannot keep the loop    *)
(* alive, and main() starts it again or gives up (ivyloop.c:212,           *)
(* app_guid_comm.c:563-579).                                               *)
StopTakesEffect ==
    (~loop /\ pc = "round") ~> (loop \/ pc \in {"ended", "killed"})

(* errors.c:7 "management of a single error": an error is counted on the   *)
(* datum it is about, so a position, which carries no command, leaves the  *)
(* count of roll_cmd alone.  The inverted strcmp() counts it there.        *)
PositionLeavesRollAlone ==
    [][ getPosition => modif'["roll_cmd"] = modif["roll_cmd"] ]_vars

(* errors.c:144 "If simultaneous errors, AP is shutdown": a position of    *)
(* which neither field is stored stops the loop.  Both errors are charged  *)
(* to roll_cmd, one flag, and nothing stops.                               *)
TwoErrorsStop ==
    [][ getPosition /\ modif'["gs"] # 1 /\ modif'["heading_aircraft"] # 1
          => ~loop' ]_vars

(* errors.c:182 "Resets the error counters", called for "Resetting errors  *)
(* in the event of a warm restart" (app_guid_comm.c:571): no flag counts   *)
(* an error once the loop is started.                                      *)
CountersResetAtStart ==
    [][ Start => \A p \in Params : modif'[p] >= 0 ]_vars
=============================================================================

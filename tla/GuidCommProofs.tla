--------------------------- MODULE GuidCommProofs ---------------------------
(***************************************************************************)
(* Proofs about GuidComm, for every number of starts, every set of         *)
(* malformed fields and any length of run; and about GuidCommBus, for any  *)
(* traffic of the peer.                                                    *)
(*                                                                         *)
(* The callbacks are compositions of operators on the record App, so the   *)
(* invariant is stated on such a record (Good), shown to be kept by each   *)
(* operator, and then by each callback.                                    *)
(***************************************************************************)
EXTENDS GuidCommBus, TLAPS

Record == [modif : [Params -> Int], loop : BOOLEAN, warned : BOOLEAN]

Commands == {"roll_cmd", "nx_cmd", "nz_cmd", "global_bank_angle_obj", "track_obj"}

Sane(s) ==
    /\ s \in Record
    /\ s.modif["roll_cmd"] <= 1
    /\ \A p \in Params \ {"roll_cmd"} : s.modif[p] \in {0, 1}

Coupled(s, f) ==
    /\ f <=> s.modif["global_bank_angle_obj"] = 1
    /\ f <=> s.modif["track_obj"] = 1
    /\ f => s.modif["nx_cmd"] = 1 /\ s.modif["nz_cmd"] = 1 /\ s.modif["roll_cmd"] # 0

Explained(s, r) == ~s.loop <=> s.warned \/ r

Good(s, f, r) == Sane(s) /\ Coupled(s, f) /\ Explained(s, r)

(* error() about any datum but roll_cmd only moves the counter of          *)
(* roll_cmd, which becomes negative; it stops the loop exactly when that   *)
(* makes three errors, and announces it then.                              *)
LEMMA ErrorEffect ==
    ASSUME NEW s, NEW p, Sane(s), p # "roll_cmd"
    PROVE  LET t == error(s, p)
               n == Bump(s.modif["roll_cmd"])
           IN  /\ t \in Record
               /\ n < 0
               /\ t.modif = [s.modif EXCEPT !["roll_cmd"] = n]
               /\ t.loop = (s.loop /\ n # -3)
               /\ t.warned = (s.warned \/ n = -3)
<1> DEFINE n == Bump(s.modif["roll_cmd"])
           counted == [s EXCEPT !.modif["roll_cmd"] = n]
<1>1. /\ s \in Record
      /\ s.modif \in [Params -> Int]
      /\ s.modif["roll_cmd"] \in Int
      /\ s.modif["roll_cmd"] <= 1
  BY DEF Sane, Record, Params
<1>2. n \in Int /\ n < 0
  BY <1>1 DEF Bump
<1>3. /\ counted \in Record
      /\ counted.modif = [s.modif EXCEPT !["roll_cmd"] = n]
      /\ counted.loop = s.loop
      /\ counted.warned = s.warned
  BY <1>1, <1>2 DEF Record, Params
<1>4. counted.modif["roll_cmd"] = n
  BY <1>1, <1>3 DEF Params
<1>5. \A q \in Params \ {"roll_cmd"} : counted.modif[q] \in {0, 1}
  BY <1>1, <1>3 DEF Sane
<1>6. Counted \subseteq Params
  BY DEF Counted, ClearedAtStart, Params
<1>7. ~SimultaneousErrors(counted)
  BY <1>5, <1>6 DEF SimultaneousErrors
<1>8. SingleError(counted, "roll_cmd") <=> n = -3
  BY <1>4 DEF SingleError
<1>9. error(s, p) = IF n = -3 THEN WarnAndStop(counted) ELSE counted
  BY <1>7, <1>8 DEF error, ChargedTo
<1>10. CASE n = -3
  <2>1. error(s, p) = [counted EXCEPT !.loop = FALSE, !.warned = TRUE]
    BY <1>9, <1>10 DEF WarnAndStop
  <2> QED
    BY <2>1, <1>2, <1>3, <1>10 DEF Record
<1>11. CASE n # -3
  BY <1>2, <1>3, <1>9, <1>11 DEF Record
<1> QED
  BY <1>10, <1>11

(* The invariant survives an error about any datum but roll_cmd. *)
LEMMA ErrorGood ==
    ASSUME NEW s, NEW p, NEW f \in BOOLEAN, NEW r \in BOOLEAN,
           Good(s, f, r), p # "roll_cmd"
    PROVE  Good(error(s, p), f, r)
<1> DEFINE t == error(s, p)
           n == Bump(s.modif["roll_cmd"])
<1>1. Sane(s) /\ s \in Record /\ s.modif \in [Params -> Int]
  BY DEF Good, Sane, Record
<1>2. /\ t \in Record
      /\ n < 0
      /\ t.modif = [s.modif EXCEPT !["roll_cmd"] = n]
      /\ t.loop = (s.loop /\ n # -3)
      /\ t.warned = (s.warned \/ n = -3)
  BY <1>1, ErrorEffect
<1>3. /\ t.modif["roll_cmd"] = n
      /\ \A q \in Params \ {"roll_cmd"} : t.modif[q] = s.modif[q]
  BY <1>1, <1>2 DEF Params
<1>4. t.modif["roll_cmd"] \in Int
  BY <1>2 DEF Record, Params
<1>5. Sane(t)
  BY <1>1, <1>2, <1>3, <1>4 DEF Sane
<1>6. Coupled(t, f)
  BY <1>2, <1>3, <1>4 DEF Good, Coupled, Params
<1>7. Explained(t, r)
  BY <1>1, <1>2 DEF Good, Explained, Record
<1> QED
  BY <1>5, <1>6, <1>7 DEF Good

(* Acquiring an input, well formed or not, keeps the invariant. *)
LEMMA AcquireGood ==
    ASSUME NEW s, NEW p \in Params \ Commands, NEW bad,
           NEW f \in BOOLEAN, NEW r \in BOOLEAN, Good(s, f, r)
    PROVE  Good(Acquire(s, p, bad), f, r)
<1>1. ReportedAs(p) # "roll_cmd"
  BY DEF ReportedAs, Commands, Params
<1>2. CASE p \in bad
  BY <1>1, <1>2, ErrorGood DEF Acquire
<1>3. CASE p \notin bad
  <2> DEFINE t == [s EXCEPT !.modif[p] = 1]
  <2>1. s \in Record /\ s.modif \in [Params -> Int]
    BY DEF Good, Sane, Record
  <2>2. /\ t \in Record
        /\ t.modif = [s.modif EXCEPT ![p] = 1]
        /\ t.loop = s.loop
        /\ t.warned = s.warned
    BY <2>1 DEF Record
  <2>3. /\ t.modif[p] = 1
        /\ \A q \in Params \ {p} : t.modif[q] = s.modif[q]
    BY <2>1, <2>2
  <2>4. Sane(t)
    BY <2>2, <2>3 DEF Good, Sane, Commands, Params
  <2>5. Coupled(t, f)
    BY <2>3 DEF Good, Coupled, Commands, Params
  <2>6. Explained(t, r)
    BY <2>2 DEF Good, Explained
  <2>7. Acquire(s, p, bad) = t
    BY <1>3 DEF Acquire
  <2> QED
    BY <2>4, <2>5, <2>6, <2>7 DEF Good
<1> QED
  BY <1>2, <1>3

-----------------------------------------------------------------------------
(* Sending one command. *)

(* An updated command is marked used, and nothing else changes. *)
LEMMA SpendUpdated ==
    ASSUME NEW s \in Record, NEW p \in Params, s.modif[p] # 0
    PROVE  LET t == Spend(s, p)
           IN  /\ t \in Record
               /\ t.modif = [s.modif EXCEPT ![p] = 0]
               /\ t.loop = s.loop
               /\ t.warned = s.warned
BY DEF Spend, Record

(* A tick on a fresh computation uses the five commands up and reports     *)
(* nothing.                                                                *)
LEMMA SendFresh ==
    ASSUME NEW s, NEW f \in BOOLEAN, NEW g \in BOOLEAN, NEW r \in BOOLEAN,
           Good(s, f, r), f, ~g
    PROVE  LET t == SendCommands(s)
           IN  /\ Good(t, g, r)
               /\ \A p \in Commands : t.modif[p] = 0
               /\ t.loop = s.loop
               /\ t.warned = s.warned
<1> DEFINE s1 == Spend(s, "global_bank_angle_obj")
           s2 == Spend(s1, "roll_cmd")
           s3 == Spend(s2, "nx_cmd")
           s4 == Spend(s3, "nz_cmd")
           s5 == Spend(s4, "track_obj")
<1>1. /\ s \in Record
      /\ s.modif \in [Params -> Int]
      /\ s.modif["global_bank_angle_obj"] = 1
      /\ s.modif["roll_cmd"] # 0
      /\ s.modif["nx_cmd"] = 1
      /\ s.modif["nz_cmd"] = 1
      /\ s.modif["track_obj"] = 1
  BY DEF Good, Sane, Coupled, Record
<1>2. Commands \subseteq Params
  BY DEF Commands, Params
<1>3. /\ s1 \in Record
      /\ s1.modif = [s.modif EXCEPT !["global_bank_angle_obj"] = 0]
      /\ s1.loop = s.loop
      /\ s1.warned = s.warned
  BY <1>1, <1>2, SpendUpdated DEF Commands
<1>4. /\ s2 \in Record
      /\ s2.modif = [s1.modif EXCEPT !["roll_cmd"] = 0]
      /\ s2.loop = s.loop
      /\ s2.warned = s.warned
  <2>1. s1.modif["roll_cmd"] # 0
    BY <1>1, <1>2, <1>3 DEF Commands
  <2> QED
    BY <2>1, <1>2, <1>3, SpendUpdated DEF Commands
<1>5. /\ s3 \in Record
      /\ s3.modif = [s2.modif EXCEPT !["nx_cmd"] = 0]
      /\ s3.loop = s.loop
      /\ s3.warned = s.warned
  <2>1. s2.modif["nx_cmd"] # 0
    BY <1>1, <1>2, <1>3, <1>4 DEF Commands
  <2> QED
    BY <2>1, <1>2, <1>4, SpendUpdated DEF Commands
<1>6. /\ s4 \in Record
      /\ s4.modif = [s3.modif EXCEPT !["nz_cmd"] = 0]
      /\ s4.loop = s.loop
      /\ s4.warned = s.warned
  <2>1. s3.modif["nz_cmd"] # 0
    BY <1>1, <1>2, <1>3, <1>4, <1>5 DEF Commands
  <2> QED
    BY <2>1, <1>2, <1>5, SpendUpdated DEF Commands
<1>7. /\ s5 \in Record
      /\ s5.modif = [s4.modif EXCEPT !["track_obj"] = 0]
      /\ s5.loop = s.loop
      /\ s5.warned = s.warned
  <2>1. s4.modif["track_obj"] # 0
    BY <1>1, <1>2, <1>3, <1>4, <1>5, <1>6 DEF Commands
  <2> QED
    BY <2>1, <1>2, <1>6, SpendUpdated DEF Commands
<1>8. \A p \in Params : s5.modif[p] = IF p \in Commands THEN 0 ELSE s.modif[p]
  BY <1>1, <1>3, <1>4, <1>5, <1>6, <1>7 DEF Commands
<1>9. Sane(s5)
  BY <1>2, <1>7, <1>8 DEF Good, Sane, Commands
<1>10. Coupled(s5, g)
  BY <1>2, <1>8 DEF Coupled, Commands
<1>11. Explained(s5, r)
  BY <1>7 DEF Good, Explained
<1>12. SendCommands(s) = s5
  BY DEF SendCommands
<1> QED
  BY <1>2, <1>7, <1>8, <1>9, <1>10, <1>11, <1>12 DEF Good

(* Without a fresh computation a command that is flagged is used up, one   *)
(* that is not is one more error of roll_cmd.                              *)
LEMMA SpendStale ==
    ASSUME NEW s, NEW f \in BOOLEAN, NEW r \in BOOLEAN,
           Good(s, f, r), ~f,
           NEW p \in Commands, p = "roll_cmd" => s.modif[p] # 0
    PROVE  LET t == Spend(s, p)
           IN  /\ Good(t, f, r)
               /\ t.modif[p] = 0 \/ p = "roll_cmd"
               /\ \A q \in Params \ {p, "roll_cmd"} : t.modif[q] = s.modif[q]
<1>1. s \in Record /\ s.modif \in [Params -> Int] /\ Sane(s) /\ p \in Params
  BY DEF Good, Sane, Record, Commands, Params
<1>2. CASE s.modif[p] # 0
  <2> DEFINE t == Spend(s, p)
  <2>1. /\ t \in Record
        /\ t.modif = [s.modif EXCEPT ![p] = 0]
        /\ t.loop = s.loop
        /\ t.warned = s.warned
    BY <1>1, <1>2, SpendUpdated
  <2>2. Sane(t)
    BY <1>1, <2>1 DEF Sane
  <2>3. Coupled(t, f)
    BY <1>1, <2>1 DEF Good, Coupled, Params
  <2>4. Explained(t, r)
    BY <2>1 DEF Good, Explained
  <2> QED
    BY <1>1, <2>1, <2>2, <2>3, <2>4 DEF Good
<1>3. CASE s.modif[p] = 0
  <2>1. Spend(s, p) = error(s, p) /\ p # "roll_cmd"
    BY <1>3 DEF Spend
  <2>2. error(s, p).modif = [s.modif EXCEPT !["roll_cmd"] = Bump(s.modif["roll_cmd"])]
    BY <1>1, <2>1, ErrorEffect
  <2> QED
    BY <1>1, <1>3, <2>1, <2>2, ErrorGood
<1> QED
  BY <1>2, <1>3

(* A tick with nothing computed since the last tick leaves nothing flagged *)
(* but the counter; when nx and nz were used as well, it counts three      *)
(* errors and stops the loop.                                              *)
LEMMA SendStale ==
    ASSUME NEW s, NEW f \in BOOLEAN, NEW r \in BOOLEAN,
           Good(s, f, r), ~f
    PROVE  LET t == SendCommands(s)
           IN  /\ Good(t, f, r)
               /\ t.modif["nx_cmd"] = 0
               /\ t.modif["nz_cmd"] = 0
               /\ s.modif["nx_cmd"] = 0 /\ s.modif["nz_cmd"] = 0
                    => t.warned /\ ~t.loop
<1> DEFINE s1 == Spend(s, "global_bank_angle_obj")
           s2 == Spend(s1, "roll_cmd")
           s3 == Spend(s2, "nx_cmd")
           s4 == Spend(s3, "nz_cmd")
           s5 == Spend(s4, "track_obj")
<1>0. /\ s1 = Spend(s, "global_bank_angle_obj")
      /\ s2 = Spend(s1, "roll_cmd")
      /\ s3 = Spend(s2, "nx_cmd")
      /\ s4 = Spend(s3, "nz_cmd")
      /\ s5 = Spend(s4, "track_obj")
      /\ SendCommands(s) = s5
  BY DEF SendCommands
<1> HIDE DEF s1, s2, s3, s4, s5
<1>1. /\ Sane(s)
      /\ s.modif["global_bank_angle_obj"] = 0
      /\ s.modif["track_obj"] = 0
  BY DEF Good, Sane, Coupled, Params
<1>2. s1 = error(s, "global_bank_angle_obj")
  BY <1>0, <1>1 DEF Spend
<1>3. /\ Good(s1, f, r)
      /\ s1 \in Record
      /\ s1.modif["roll_cmd"] # 0
      /\ \A q \in Params \ {"roll_cmd"} : s1.modif[q] = s.modif[q]
  <2>1. /\ s1 \in Record
        /\ Bump(s.modif["roll_cmd"]) < 0
        /\ s1.modif = [s.modif EXCEPT !["roll_cmd"] = Bump(s.modif["roll_cmd"])]
    BY <1>1, <1>2, ErrorEffect
  <2>2. s1.modif["roll_cmd"] = Bump(s.modif["roll_cmd"])
    BY <1>1, <2>1 DEF Sane, Record, Params
  <2>3. s1.modif["roll_cmd"] \in Int
    BY <2>1 DEF Record, Params
  <2>4. \A q \in Params \ {"roll_cmd"} : s1.modif[q] = s.modif[q]
    BY <1>1, <2>1 DEF Sane, Record
  <2>5. Good(s1, f, r)
    BY <1>2, ErrorGood
  <2> QED
    BY <2>1, <2>2, <2>3, <2>4, <2>5
<1>4. /\ Good(s2, f, r)
      /\ s2.modif["roll_cmd"] = 0
      /\ \A q \in Params \ {"roll_cmd"} : s2.modif[q] = s.modif[q]
  <2>1. Good(s2, f, r)
    BY <1>0, <1>3, SpendStale DEF Commands
  <2>2. s2.modif = [s1.modif EXCEPT !["roll_cmd"] = 0]
    BY <1>0, <1>3, SpendUpdated DEF Params
  <2> QED
    BY <1>3, <2>1, <2>2 DEF Record, Params
<1>5. /\ Good(s3, f, r)
      /\ s3.modif["nx_cmd"] = 0
      /\ \A q \in Params \ {"nx_cmd", "roll_cmd"} : s3.modif[q] = s.modif[q]
  <2>1. "nx_cmd" \in Commands /\ "nx_cmd" # "roll_cmd"
    BY DEF Commands
  <2>2. /\ Good(s3, f, r)
        /\ s3.modif["nx_cmd"] = 0
        /\ \A q \in Params \ {"nx_cmd", "roll_cmd"} : s3.modif[q] = s2.modif[q]
    BY <1>0, <1>4, <2>1, SpendStale
  <2> QED
    BY <1>4, <2>2
<1>6. /\ Good(s4, f, r)
      /\ s4.modif["nx_cmd"] = 0
      /\ s4.modif["nz_cmd"] = 0
      /\ s4.modif["track_obj"] = 0
  <2>1. "nz_cmd" \in Commands /\ "nz_cmd" # "roll_cmd"
    BY DEF Commands
  <2>2. /\ Good(s4, f, r)
        /\ s4.modif["nz_cmd"] = 0
        /\ \A q \in Params \ {"nz_cmd", "roll_cmd"} : s4.modif[q] = s3.modif[q]
    BY <1>0, <1>5, <2>1, SpendStale
  <2> QED
    BY <1>1, <1>5, <2>2 DEF Params
<1>7. /\ Good(s5, f, r)
      /\ s5.modif["nx_cmd"] = 0
      /\ s5.modif["nz_cmd"] = 0
  <2>1. "track_obj" \in Commands /\ "track_obj" # "roll_cmd"
    BY DEF Commands
  <2>2. /\ Good(s5, f, r)
        /\ \A q \in Params \ {"track_obj", "roll_cmd"} : s5.modif[q] = s4.modif[q]
    BY <1>0, <1>6, <2>1, SpendStale
  <2> QED
    BY <1>6, <2>2 DEF Params
<1>8. ASSUME s.modif["nx_cmd"] = 0, s.modif["nz_cmd"] = 0
      PROVE  s5.warned /\ ~s5.loop
  <2>1. s3 = error(s2, "nx_cmd")
    BY <1>0, <1>4, <1>8 DEF Spend, Params
  <2>2. s3.modif["roll_cmd"] = -1
    <3>1. s3.modif = [s2.modif EXCEPT !["roll_cmd"] = Bump(0)]
      BY <1>4, <2>1, ErrorEffect DEF Good
    <3> QED
      BY <1>4, <3>1 DEF Good, Sane, Record, Params, Bump
  <2>3. s4 = error(s3, "nz_cmd")
    BY <1>0, <1>5, <1>8 DEF Spend, Params
  <2>4. s4.modif["roll_cmd"] = -2
    <3>1. s4.modif = [s3.modif EXCEPT !["roll_cmd"] = Bump(-1)]
      BY <1>5, <2>2, <2>3, ErrorEffect DEF Good
    <3> QED
      BY <1>5, <3>1 DEF Good, Sane, Record, Params, Bump
  <2>5. s5 = error(s4, "track_obj")
    BY <1>0, <1>6 DEF Spend
  <2>6. Bump(s4.modif["roll_cmd"]) = -3
    BY <2>4 DEF Bump
  <2>7. Sane(s4)
    BY <1>6 DEF Good
  <2>8. /\ s5.loop = (s4.loop /\ Bump(s4.modif["roll_cmd"]) # -3)
        /\ s5.warned = (s4.warned \/ Bump(s4.modif["roll_cmd"]) = -3)
    BY <2>5, <2>7, ErrorEffect
  <2> QED
    BY <2>6, <2>8
<1>9. s.modif["nx_cmd"] = 0 /\ s.modif["nz_cmd"] = 0 => s5.warned /\ ~s5.loop
  BY <1>8
<1> QED
  BY <1>0, <1>7, <1>9

-----------------------------------------------------------------------------
(* The computation of the commands. *)

(* Acquiring the four data of the trajectory keeps the invariant. *)
LEMMA TrajectoryGood ==
    ASSUME NEW s, NEW bad, NEW f \in BOOLEAN, NEW r \in BOOLEAN, Good(s, f, r)
    PROVE  Good(AcquireTrajectory(s, bad), f, r)
<1> DEFINE s1 == Acquire(s, "xtk", bad)
           s2 == Acquire(s1, "tae", bad)
           s3 == Acquire(s2, "dist", bad)
<1>1. {"xtk", "tae", "dist", "bank_angle_ref"} \subseteq Params \ Commands
  BY DEF Params, Commands
<1>2. Good(s1, f, r)
  BY <1>1, AcquireGood
<1> HIDE DEF s1
<1>3. Good(s2, f, r)
  BY <1>1, <1>2, AcquireGood
<1> HIDE DEF s2
<1>4. Good(s3, f, r)
  BY <1>1, <1>3, AcquireGood
<1> HIDE DEF s3
<1>5. Good(Acquire(s3, "bank_angle_ref", bad), f, r)
  BY <1>1, <1>4, AcquireGood
<1> QED
  BY <1>5 DEF AcquireTrajectory, s1, s2, s3

(* Steering only uses inputs up and flags the bank angle. *)
LEMMA SteerEffect ==
    ASSUME NEW s, NEW mode, Sane(s)
    PROVE  LET t == Steer(s, mode)
           IN  /\ t \in Record
               /\ t.loop = s.loop
               /\ t.warned = s.warned
               /\ t.modif["global_bank_angle_obj"] = 1
               /\ \A p \in Params \ {"global_bank_angle_obj"} :
                     t.modif[p] = s.modif[p] \/ (p \notin Commands /\ t.modif[p] = 0)
<1> DEFINE s1 == IF mode = 0 THEN SteerHdg(s) ELSE s
           s2 == IF s.modif["gs"] = 0 THEN s ELSE [s1 EXCEPT !.modif["gs"] = 0]
<1>1. s \in Record /\ s.modif \in [Params -> Int]
  BY DEF Sane, Record
<1>2. /\ s1 \in Record
      /\ s1.loop = s.loop
      /\ s1.warned = s.warned
      /\ \A p \in Params :
            s1.modif[p] = s.modif[p] \/ (p \notin Commands /\ s1.modif[p] = 0)
  BY <1>1 DEF SteerHdg, Record, Commands
<1> HIDE DEF s1
<1>3. /\ s2 \in Record
      /\ s2.loop = s.loop
      /\ s2.warned = s.warned
      /\ \A p \in Params :
            s2.modif[p] = s.modif[p] \/ (p \notin Commands /\ s2.modif[p] = 0)
  BY <1>1, <1>2 DEF Record, Commands
<1>4. Steer(s, mode) = [s2 EXCEPT !.modif["global_bank_angle_obj"] = 1]
  BY DEF Steer, s1
<1> HIDE DEF s2
<1>5. s2.modif \in [Params -> Int] /\ "global_bank_angle_obj" \in Params
  BY <1>3 DEF Record, Params
<1> QED
  BY <1>3, <1>4, <1>5 DEF Record

(* After computeCmd every command is flagged, so the invariant holds with  *)
(* a fresh computation, whatever was counted before.                       *)
LEMMA ComputeGood ==
    ASSUME NEW s, NEW mode, NEW f \in BOOLEAN, NEW g \in BOOLEAN, NEW r \in BOOLEAN,
           Good(s, f, r), g
    PROVE  Good(computeCmd(Steer(s, mode)), g, r)
<1> DEFINE t == Steer(s, mode)
           u == computeCmd(t)
<1>1. Sane(s) /\ s \in Record /\ s.modif \in [Params -> Int]
  BY DEF Good, Sane, Record
<1>2. /\ t \in Record
      /\ t.loop = s.loop
      /\ t.warned = s.warned
      /\ t.modif["global_bank_angle_obj"] = 1
      /\ \A p \in Params \ {"global_bank_angle_obj"} :
            t.modif[p] = s.modif[p] \/ (p \notin Commands /\ t.modif[p] = 0)
  BY <1>1, SteerEffect
<1>3. \A p \in Params \ {"roll_cmd"} : t.modif[p] \in {0, 1}
  BY <1>1, <1>2 DEF Sane
<1> HIDE DEF t
<1>4. t.modif \in [Params -> Int]
  BY <1>2 DEF Record
<1>5. /\ u \in Record
      /\ u.loop = s.loop
      /\ u.warned = s.warned
  <2>1. Computed(t.modif, {"roll_cmd", "nx_cmd", "nz_cmd", "track_obj"}) \in [Params -> Int]
    BY <1>4 DEF Computed
  <2> QED
    BY <1>2, <2>1 DEF computeCmd, Record
<1>6. /\ \A p \in Commands : u.modif[p] = 1
      /\ \A p \in Params \ Commands : u.modif[p] \in {0, 1}
  <2>1. u.modif = Computed(t.modif, {"roll_cmd", "nx_cmd", "nz_cmd", "track_obj"})
    BY <1>2 DEF computeCmd, Record
  <2> HIDE DEF u
  <2> QED
    BY <1>2, <1>3, <2>1 DEF Computed, Commands, Params
<1> HIDE DEF u
<1>7. Sane(u)
  BY <1>5, <1>6 DEF Sane, Commands, Params
<1>8. Coupled(u, g)
  BY <1>6 DEF Coupled, Commands
<1>9. Explained(u, r)
  BY <1>5 DEF Good, Explained
<1> QED
  BY <1>7, <1>8, <1>9 DEF Good, t, u

-----------------------------------------------------------------------------
(* The inductive invariant. *)

LEMMA InvGood ==
    ASSUME IInv
    PROVE  Good(App, fresh, requested)
<1>1. /\ App \in Record
      /\ App.modif = modif
      /\ App.loop = loop
      /\ App.warned = warned
  BY DEF IInv, TypeOK, App, Record
<1> QED
  BY <1>1 DEF IInv, OnlyRollCounts, FlagsTellFreshness, StoppedMeansWarned,
              Good, Sane, Coupled, Explained

(* What a callback must show about the record it computes. *)
LEMMA GoodInv ==
    ASSUME NEW t, Becomes(t), Good(t, fresh', requested'),
           TypeOK, fresh' \in BOOLEAN, requested' \in BOOLEAN, staleTicks' \in -1..2,
           ap_mode' \in {0, 1}, UNCHANGED <<inFlight, nb_try, pc>>,
           ~fresh' /\ staleTicks' >= 0
               => t.modif["nx_cmd"] = 0 /\ t.modif["nz_cmd"] = 0
    PROVE  IInv'
<1>1. t \in Record /\ Sane(t) /\ Coupled(t, fresh') /\ Explained(t, requested')
  BY DEF Good, Sane
<1>2. modif' = t.modif /\ loop' = t.loop /\ warned' = t.warned
  BY DEF Becomes
<1>3. modif' \in [Params -> Int] /\ loop' \in BOOLEAN /\ warned' \in BOOLEAN
  BY <1>1, <1>2 DEF Record
<1>4. TypeOK'
  BY <1>3 DEF TypeOK
<1>5. OnlyRollCounts'
  BY <1>1, <1>2 DEF Sane, OnlyRollCounts
<1>6. FlagsTellFreshness'
  BY <1>1, <1>2 DEF Coupled, FlagsTellFreshness
<1>7. StoppedMeansWarned'
  BY <1>1, <1>2 DEF Explained, StoppedMeansWarned
<1> QED
  BY <1>4, <1>5, <1>6, <1>7 DEF IInv

(* Acquiring an input never touches nx or nz. *)
LEMMA AcquireKeeps ==
    ASSUME NEW s, NEW p \in Params \ Commands, NEW bad, Sane(s)
    PROVE  /\ Acquire(s, p, bad).modif["nx_cmd"] = s.modif["nx_cmd"]
           /\ Acquire(s, p, bad).modif["nz_cmd"] = s.modif["nz_cmd"]
<1>1. s \in Record /\ s.modif \in [Params -> Int]
  BY DEF Sane, Record
<1>2. CASE p \in bad
  <2>1. ReportedAs(p) # "roll_cmd"
    BY DEF ReportedAs, Commands, Params
  <2>2. error(s, ReportedAs(p)).modif =
          [s.modif EXCEPT !["roll_cmd"] = Bump(s.modif["roll_cmd"])]
    BY <2>1, ErrorEffect
  <2> QED
    BY <1>1, <1>2, <2>2 DEF Acquire, Params
<1>3. CASE p \notin bad
  BY <1>1, <1>3 DEF Acquire, Record, Commands, Params
<1> QED
  BY <1>2, <1>3

(* What the last tick left in nx and nz is still there. *)
Kept(s) ==
    ~fresh /\ staleTicks >= 0 => s.modif["nx_cmd"] = 0 /\ s.modif["nz_cmd"] = 0

(* The two facts that every acquisition of a callback carries along. *)
LEMMA AcquireStep ==
    ASSUME NEW s, NEW p \in Params \ Commands, NEW bad, fresh \in BOOLEAN,
           requested \in BOOLEAN, Good(s, fresh, requested), Kept(s)
    PROVE  LET t == Acquire(s, p, bad)
           IN  Good(t, fresh, requested) /\ Kept(t)
<1>1. Good(Acquire(s, p, bad), fresh, requested)
  BY AcquireGood
<1>2. Kept(Acquire(s, p, bad))
  BY AcquireKeeps DEF Good, Kept
<1> QED
  BY <1>1, <1>2

(* A callback that only acquires inputs. *)
LEMMA InputStep ==
    ASSUME IInv, NEW t, Becomes(t), Good(t, fresh, requested), Kept(t),
           ap_mode' \in {0, 1}, UNCHANGED <<inFlight, nb_try, pc, history>>
    PROVE  IInv'
<1>1. fresh' = fresh /\ requested' = requested /\ staleTicks' = staleTicks
  BY DEF history
<1> QED
  BY <1>1, GoodInv DEF IInv, TypeOK, Kept

(* The invariant holds initially. *)
LEMMA InitIInv == Init => IInv
<1> SUFFICES ASSUME Init PROVE IInv
  OBVIOUS
<1>1. TypeOK
  <2>1. modif \in [Params -> Int]
    BY DEF Init
  <2>2. nb_try \in 0..MaxTry
    BY MaxTryAssumption DEF Init
  <2>3. staleTicks \in -1..2
    BY DEF Init
  <2>4. pc \in PcStates
    BY DEF Init, PcStates
  <2>5. /\ ap_mode \in {0, 1} /\ inFlight \in BOOLEAN /\ loop \in BOOLEAN
        /\ warned \in BOOLEAN /\ requested \in BOOLEAN /\ fresh \in BOOLEAN
    BY DEF Init
  <2> QED
    BY <2>1, <2>2, <2>3, <2>4, <2>5 DEF TypeOK
<1>2. OnlyRollCounts
  BY DEF Init, OnlyRollCounts, Params
<1>3. FlagsTellFreshness
  BY DEF Init, FlagsTellFreshness, Params
<1>4. StoppedMeansWarned
  BY DEF Init, StoppedMeansWarned
<1> QED
  BY <1>1, <1>2, <1>3, <1>4 DEF IInv

(* What the invariant says of the application, part by part.               *)
LEMMA AppGood ==
    ASSUME IInv
    PROVE  /\ Good(App, fresh, requested) /\ Kept(App)
           /\ fresh \in BOOLEAN /\ requested \in BOOLEAN /\ ap_mode \in {0, 1}
           /\ Params \ Commands =
                 {"gs", "heading_aircraft", "vp", "fpa", "bank_angle_aircraft", "tas",
                  "alt", "xtk", "tae", "dist", "bank_angle_ref", "heading_objective",
                  "current_time"}
<1>1. Good(App, fresh, requested)
  BY InvGood
<1>2. Kept(App)
  BY DEF IInv, FlagsTellFreshness, Kept, App
<1>3. Params \ Commands =
        {"gs", "heading_aircraft", "vp", "fpa", "bank_angle_aircraft", "tas", "alt",
         "xtk", "tae", "dist", "bank_angle_ref", "heading_objective", "current_time"}
  BY DEF Params, Commands
<1> QED
  BY <1>1, <1>2, <1>3 DEF IInv, TypeOK

(* A step that moves the process and nothing else. *)
LEMMA JumpIInv ==
    ASSUME IInv, NEW from, NEW to \in PcStates, Jump(from, to)
    PROVE  IInv'
<1>1. /\ pc' \in PcStates
      /\ UNCHANGED <<modif, ap_mode, inFlight, loop, nb_try, warned, requested,
                     fresh, staleTicks>>
  BY DEF Jump, history
<1>2. TypeOK'
  BY <1>1 DEF IInv, TypeOK
<1>3. OnlyRollCounts' /\ FlagsTellFreshness' /\ StoppedMeansWarned'
  BY <1>1 DEF IInv, OnlyRollCounts, FlagsTellFreshness, StoppedMeansWarned
<1> QED
  BY <1>2, <1>3 DEF IInv

(* The invariant is kept by every step. *)
LEMMA NextIInv == IInv /\ [Next]_vars => IInv'
<1> SUFFICES ASSUME IInv, [Next]_vars PROVE IInv'
  OBVIOUS
<1> USE AppGood
<1>1. CASE getPosition
  <2>1. PICK bad \in BadFields({"gs", "heading_aircraft"}) :
          Becomes(Acquire(Acquire(App, "gs", bad), "heading_aircraft", bad))
    BY <1>1 DEF getPosition
  <2> DEFINE s1 == Acquire(App, "gs", bad)
  <2>2. Good(s1, fresh, requested) /\ Kept(s1)
    BY AcquireStep
  <2> HIDE DEF s1
  <2>3. Good(Acquire(s1, "heading_aircraft", bad), fresh, requested)
        /\ Kept(Acquire(s1, "heading_aircraft", bad))
    BY <2>2, AcquireStep
  <2> QED
    BY <1>1, <2>1, <2>3, InputStep DEF getPosition, control, s1
<1>2. CASE getState
  <2>1. PICK bad \in BadFields({"vp", "fpa", "bank_angle_aircraft"}) :
          Becomes(Acquire(Acquire(Acquire(App, "vp", bad), "fpa", bad),
                          "bank_angle_aircraft", bad))
    BY <1>2 DEF getState
  <2> DEFINE s1 == Acquire(App, "vp", bad)
             s2 == Acquire(s1, "fpa", bad)
  <2>2. Good(s1, fresh, requested) /\ Kept(s1)
    BY AcquireStep
  <2> HIDE DEF s1
  <2>3. Good(s2, fresh, requested) /\ Kept(s2)
    BY <2>2, AcquireStep
  <2> HIDE DEF s2
  <2>4. Good(Acquire(s2, "bank_angle_aircraft", bad), fresh, requested)
        /\ Kept(Acquire(s2, "bank_angle_aircraft", bad))
    BY <2>3, AcquireStep
  <2> QED
    BY <1>2, <2>1, <2>4, InputStep DEF getState, control, s1, s2
<1>3. CASE getForecast
  <2>1. PICK bad \in BadFields({"tas", "alt"}) :
          Becomes(Acquire(Acquire(App, "tas", bad), "alt", bad))
    BY <1>3 DEF getForecast
  <2> DEFINE s1 == Acquire(App, "tas", bad)
  <2>2. Good(s1, fresh, requested) /\ Kept(s1)
    BY AcquireStep
  <2> HIDE DEF s1
  <2>3. Good(Acquire(s1, "alt", bad), fresh, requested) /\ Kept(Acquire(s1, "alt", bad))
    BY <2>2, AcquireStep
  <2> QED
    BY <1>3, <2>1, <2>3, InputStep DEF getForecast, control, s1
<1>4. CASE computeBankAngleObj
  <2>1. PICK bad \in BadFields({"xtk", "tae", "dist", "bank_angle_ref"}) :
          Becomes(computeCmd(Steer(AcquireTrajectory(App, bad), ap_mode)))
    BY <1>4 DEF computeBankAngleObj
  <2>2. /\ fresh' = TRUE /\ requested' = requested /\ staleTicks' = staleTicks
        /\ UNCHANGED <<ap_mode, inFlight, nb_try, pc>>
    BY <1>4 DEF computeBankAngleObj, control
  <2>3. Good(AcquireTrajectory(App, bad), fresh, requested)
    BY TrajectoryGood
  <2>4. Good(computeCmd(Steer(AcquireTrajectory(App, bad), ap_mode)), fresh', requested')
    BY <2>2, <2>3, ComputeGood
  <2> QED
    BY <2>1, <2>2, <2>4, GoodInv DEF IInv, TypeOK
<1>5. CASE getMode
  <2>1. ap_mode' \in {0, 1} /\ UNCHANGED <<inFlight, nb_try, pc, history>>
    BY <1>5 DEF getMode
  <2>2. CASE UNCHANGED <<modif, loop, warned>>
    <3>1. Becomes(App)
      BY <2>2 DEF Becomes, App
    <3> QED
      BY <2>1, <3>1, InputStep
  <2>3. CASE \E bad \in BadFields({"heading_objective"}) :
                Becomes(Acquire(App, "heading_objective", bad))
    <3>1. PICK bad : Becomes(Acquire(App, "heading_objective", bad))
      BY <2>3
    <3>2. Good(Acquire(App, "heading_objective", bad), fresh, requested)
          /\ Kept(Acquire(App, "heading_objective", bad))
      BY AcquireStep
    <3> QED
      BY <2>1, <3>1, <3>2, InputStep
  <2> QED
    BY <1>5, <2>2, <2>3 DEF getMode
<1>6. CASE sendGC
  <2>1. PICK bad \in BadFields({"current_time"}) :
          LET timed == Acquire(App, "current_time", bad)
          IN  Becomes(IF inFlight THEN SendCommands(timed) ELSE timed)
    BY <1>6 DEF sendGC
  <2> DEFINE timed == Acquire(App, "current_time", bad)
  <2>2. Good(timed, fresh, requested) /\ Kept(timed)
    BY AcquireStep
  <2> HIDE DEF timed
  <2>3. /\ UNCHANGED <<ap_mode, inFlight, nb_try, pc, requested>>
        /\ Becomes(IF inFlight THEN SendCommands(timed) ELSE timed)
    BY <1>6, <2>1 DEF sendGC, timed
  <2>4. CASE inFlight
    <3>1. fresh' = FALSE /\ staleTicks' \in -1..2
      BY <1>6, <2>4 DEF sendGC, IInv, TypeOK
    <3>2. CASE fresh
      <4>1. Good(SendCommands(timed), fresh', requested)
            /\ \A p \in Commands : SendCommands(timed).modif[p] = 0
        BY <2>2, <3>1, <3>2, SendFresh
      <4> QED
        BY <2>3, <2>4, <3>1, <4>1, GoodInv DEF IInv, TypeOK, Commands
    <3>3. CASE ~fresh
      <4>1. /\ Good(SendCommands(timed), fresh, requested)
            /\ SendCommands(timed).modif["nx_cmd"] = 0
            /\ SendCommands(timed).modif["nz_cmd"] = 0
        BY <2>2, <3>3, SendStale
      <4>2. fresh' = fresh
        BY <3>1, <3>3
      <4> QED
        BY <2>3, <2>4, <3>1, <4>1, <4>2, GoodInv DEF IInv, TypeOK
    <3> QED
      BY <3>2, <3>3
  <2>5. CASE ~inFlight
    <3>1. UNCHANGED history
      BY <1>6, <2>5 DEF sendGC, history
    <3> QED
      BY <2>2, <2>3, <2>5, <3>1, InputStep
  <2> QED
    BY <2>4, <2>5
<1>7. CASE start_flight
  <2>1. TypeOK'
    BY <1>7 DEF start_flight, history, IInv, TypeOK
  <2>2. OnlyRollCounts' /\ FlagsTellFreshness' /\ StoppedMeansWarned'
    BY <1>7 DEF start_flight, history, IInv, OnlyRollCounts, FlagsTellFreshness,
                StoppedMeansWarned
  <2> QED
    BY <2>1, <2>2 DEF IInv
<1>8. CASE restart
  <2>1. TypeOK'
    BY <1>8 DEF restart, IInv, TypeOK
  <2>2. OnlyRollCounts' /\ FlagsTellFreshness' /\ StoppedMeansWarned'
    BY <1>8 DEF restart, IInv, OnlyRollCounts, FlagsTellFreshness, StoppedMeansWarned
  <2> QED
    BY <2>1, <2>2 DEF IInv
<1>9. CASE Start
  <2>1. /\ modif' = error_init(modif)
        /\ modif' \in [Params -> Int]
        /\ \A p \in Params \ ClearedAtStart : modif'[p] = modif[p]
        /\ \A p \in ClearedAtStart : modif'[p] = 0
    BY <1>9 DEF Start, error_init, IInv, TypeOK, ClearedAtStart, Params
  <2>2. Commands \subseteq Params \ ClearedAtStart
    BY DEF Commands, Params, ClearedAtStart
  <2>3. nb_try' \in 0..MaxTry
    BY <1>9, MaxTryAssumption DEF Start, IInv, TypeOK
  <2>4. TypeOK'
    BY <1>9, <2>1, <2>3 DEF Start, IInv, TypeOK, PcStates
  <2>5. OnlyRollCounts'
    BY <2>1, <2>2 DEF IInv, OnlyRollCounts, Commands
  <2>6. FlagsTellFreshness'
    BY <1>9, <2>1, <2>2 DEF Start, IInv, FlagsTellFreshness, Commands
  <2>7. StoppedMeansWarned'
    BY <1>9 DEF Start, StoppedMeansWarned
  <2> QED
    BY <2>4, <2>5, <2>6, <2>7 DEF IInv
<1>10. CASE GiveUp
  <2>1. TypeOK'
    BY <1>10 DEF GiveUp, history, IInv, TypeOK, PcStates
  <2>2. OnlyRollCounts' /\ FlagsTellFreshness' /\ StoppedMeansWarned'
    BY <1>10 DEF GiveUp, history, IInv, OnlyRollCounts, FlagsTellFreshness,
                 StoppedMeansWarned
  <2> QED
    BY <2>1, <2>2 DEF IInv
<1>11. CASE \E from, to \in PcStates : Jump(from, to)
  BY <1>11, JumpIInv
<1>12. Select \/ SelectFails \/ EndRound \/ LeaveLoop \/ stop \/ intHandler
         => \E from, to \in PcStates : Jump(from, to)
  BY DEF Select, SelectFails, EndRound, LeaveLoop, stop, intHandler, PcStates
<1>13. CASE UNCHANGED vars
  <2>1. TypeOK'
    BY <1>13 DEF vars, IInv, TypeOK
  <2>2. OnlyRollCounts' /\ FlagsTellFreshness' /\ StoppedMeansWarned'
    BY <1>13 DEF vars, IInv, OnlyRollCounts, FlagsTellFreshness, StoppedMeansWarned
  <2> QED
    BY <2>1, <2>2 DEF IInv
<1> QED
  BY <1>1, <1>2, <1>3, <1>4, <1>5, <1>6, <1>7, <1>8, <1>9, <1>10, <1>11, <1>12, <1>13
     DEF Next, Callback, Control, Gone

-----------------------------------------------------------------------------
(* The theorems. *)

(* The inductive invariant holds in every reachable state. *)
THEOREM Invariance == Spec => []IInv
BY InitIInv, NextIInv, PTL DEF Spec

(* Every variable keeps its type, whatever the bus delivers. *)
THEOREM TypeCorrect == Spec => []TypeOK
<1>1. IInv => TypeOK
  BY DEF IInv
<1> QED
  BY <1>1, Invariance, PTL

(* What the inverted strcmp() amounts to: twelve of the fourteen branches  *)
(* of error() and its check for simultaneous errors are dead.              *)
THEOREM OnlyRollEverCounts == Spec => []OnlyRollCounts
<1>1. IInv => OnlyRollCounts
  BY DEF IInv
<1> QED
  BY <1>1, Invariance, PTL

(* The flags of the commands tell whether they were computed since the     *)
(* last tick in flight.                                                    *)
THEOREM FlagsAreFreshness == Spec => []FlagsTellFreshness
<1>1. IInv => FlagsTellFreshness
  BY DEF IInv
<1> QED
  BY <1>1, Invariance, PTL

(* The loop is stopped exactly when TRAJ was warned or asked for it. *)
THEOREM StopsAreExplained == Spec => []StoppedMeansWarned
<1>1. IInv => StoppedMeansWarned
  BY DEF IInv
<1> QED
  BY <1>1, Invariance, PTL

(* One tick in flight with nothing computed since the tick before is       *)
(* enough to announce a restart and stop the loop.                         *)
THEOREM StaleTicksRestart == Spec => StaleTickRestarts
<1>1. IInv /\ [Next]_vars /\ sendGC /\ inFlight /\ ~fresh /\ staleTicks >= 0
        => warned' /\ ~loop'
  <2> SUFFICES ASSUME IInv, sendGC, inFlight, ~fresh, staleTicks >= 0
               PROVE  warned' /\ ~loop'
    OBVIOUS
  <2>1. PICK bad \in BadFields({"current_time"}) :
          Becomes(SendCommands(Acquire(App, "current_time", bad)))
    BY DEF sendGC
  <2> DEFINE timed == Acquire(App, "current_time", bad)
  <2>2. Good(timed, fresh, requested) /\ Kept(timed)
    BY AppGood, AcquireStep
  <2> HIDE DEF timed
  <2>3. SendCommands(timed).warned /\ ~SendCommands(timed).loop
    BY <2>2, AppGood, SendStale DEF Kept
  <2> QED
    BY <2>1, <2>3 DEF Becomes, timed
<1> QED
  BY <1>1, Invariance, PTL DEF Spec, StaleTickRestarts

(* A tick's time, when malformed, stops the loop only as third error. *)
LEMMA TimeStops ==
    ASSUME IInv, NEW bad, modif["roll_cmd"] # -2
    PROVE  Acquire(App, "current_time", bad).loop = loop
<1> DEFINE n == Bump(App.modif["roll_cmd"])
<1>1. App.modif = modif /\ App.loop = loop /\ modif["roll_cmd"] \in Int /\ loop \in BOOLEAN
  BY DEF App, IInv, TypeOK, Params
<1>2. Sane(App)
  BY AppGood DEF Good
<1>3. CASE "current_time" \in bad
  <2>1. Acquire(App, "current_time", bad) = error(App, "current_time")
    BY <1>3 DEF Acquire, ReportedAs
  <2>2. error(App, "current_time").loop = (App.loop /\ n # -3)
    BY <1>2, ErrorEffect
  <2>3. n # -3
    BY <1>1 DEF Bump
  <2> QED
    BY <1>1, <2>1, <2>2, <2>3
<1>4. CASE "current_time" \notin bad
  BY <1>1, <1>2, <1>4 DEF Acquire, Sane, Record
<1> QED
  BY <1>3, <1>4

(* A tick after a computation uses the five commands up and stops the loop *)
(* only when its own malformed time is the third error.                    *)
THEOREM FreshTicksSettle == Spec => FreshTickSettles
<1>0. ASSUME IInv, NEW bad
      PROVE  Good(Acquire(App, "current_time", bad), fresh, requested)
  BY <1>0, AppGood, AcquireStep
<1>1. IInv /\ [Next]_vars /\ sendGC /\ inFlight /\ fresh
        => /\ \A p \in {"roll_cmd", "nx_cmd", "nz_cmd", "global_bank_angle_obj",
                        "track_obj"} : modif'[p] = 0
           /\ modif["roll_cmd"] # -2 => loop' = loop
  <2> SUFFICES ASSUME IInv, sendGC, inFlight, fresh
               PROVE  /\ \A p \in Commands : modif'[p] = 0
                      /\ modif["roll_cmd"] # -2 => loop' = loop
    BY DEF Commands
  <2>1. PICK bad \in BadFields({"current_time"}) :
          Becomes(SendCommands(Acquire(App, "current_time", bad)))
    BY DEF sendGC
  <2> DEFINE timed == Acquire(App, "current_time", bad)
  <2>2. Good(timed, fresh, requested)
    BY <1>0
  <2>3. modif["roll_cmd"] # -2 => timed.loop = loop
    BY TimeStops
  <2> HIDE DEF timed
  <2> DEFINE used == SendCommands(timed)
  <2>4. (\A p \in Commands : used.modif[p] = 0) /\ used.loop = timed.loop
    BY <2>2, AppGood, SendFresh
  <2> HIDE DEF used
  <2>5. modif' = used.modif /\ loop' = used.loop
    BY <2>1 DEF Becomes, timed, used
  <2> QED
    BY <2>3, <2>4, <2>5
<1> QED
  BY <1>1, Invariance, PTL DEF Spec, FreshTickSettles

-----------------------------------------------------------------------------
(* The third error *)

(* From s to t no third error was passed over, and no stop was taken back. *)
Tells(s, t) ==
    /\ s.warned /\ ~s.loop => t.warned /\ ~t.loop
    /\ s.modif["roll_cmd"] > -3 /\ t.modif["roll_cmd"] <= -3 => t.warned /\ ~t.loop

Counter(s) == s.modif["roll_cmd"] \in Int

LEMMA TellsChain ==
    ASSUME NEW s, NEW t, NEW u, Counter(s), Counter(t), Counter(u),
           Tells(s, t), Tells(t, u)
    PROVE  Tells(s, u)
BY DEF Tells, Counter

LEMMA GoodCounter ==
    ASSUME NEW s, NEW f, NEW r, Good(s, f, r)
    PROVE  Counter(s) /\ Sane(s) /\ s \in Record
BY DEF Good, Sane, Record, Params, Counter

LEMMA ErrorTells ==
    ASSUME NEW s, NEW p, Sane(s), p # "roll_cmd"
    PROVE  Tells(s, error(s, p))
<1> DEFINE t == error(s, p)
           n == Bump(s.modif["roll_cmd"])
<1>1. s \in Record /\ s.modif["roll_cmd"] \in Int
  BY DEF Sane, Record, Params
<1>2. /\ t \in Record
      /\ t.modif = [s.modif EXCEPT !["roll_cmd"] = n]
      /\ t.loop = (s.loop /\ n # -3)
      /\ t.warned = (s.warned \/ n = -3)
  BY ErrorEffect
<1>3. t.modif["roll_cmd"] = n
  BY <1>1, <1>2 DEF Record, Params
<1>4. n \in Int /\ (s.modif["roll_cmd"] > -3 /\ n <= -3 => n = -3)
  BY <1>1 DEF Bump
<1> HIDE DEF t, n
<1> QED
  BY <1>2, <1>3, <1>4 DEF Tells, t

(* Fields are read with the chain from s0, the state the callback found.   *)
LEMMA AcquireTells ==
    ASSUME NEW s0, NEW s, NEW p \in Params \ Commands, NEW bad, NEW f \in BOOLEAN,
           NEW r \in BOOLEAN, Counter(s0), Good(s, f, r), Tells(s0, s)
    PROVE  LET t == Acquire(s, p, bad)
           IN  Good(t, f, r) /\ Tells(s0, t)
<1> DEFINE t == Acquire(s, p, bad)
<1>1. Good(t, f, r)
  BY AcquireGood
<1>2. Tells(s, t)
  <2>1. CASE p \in bad
    <3>1. ReportedAs(p) # "roll_cmd"
      BY DEF ReportedAs, Commands, Params
    <3> QED
      BY <2>1, <3>1, ErrorTells, GoodCounter DEF Acquire
  <2>2. CASE p \notin bad
    <3>1. p # "roll_cmd"
      BY DEF Commands
    <3>2. t = [s EXCEPT !.modif[p] = 1]
      BY <2>2 DEF Acquire
    <3>3. t.modif["roll_cmd"] = s.modif["roll_cmd"] /\ t.loop = s.loop /\ t.warned = s.warned
      BY <3>1, <3>2, GoodCounter DEF Record, Params
    <3> QED
      BY <3>3, GoodCounter DEF Tells, Counter
  <2> QED
    BY <2>1, <2>2
<1>3. Counter(s) /\ Counter(t)
  BY <1>1, GoodCounter
<1> HIDE DEF t
<1>4. Tells(s0, t)
  BY <1>2, <1>3, TellsChain
<1> QED
  BY <1>1, <1>4 DEF t

LEMMA SpendTells ==
    ASSUME NEW s0, NEW s, NEW p \in Commands, NEW f \in BOOLEAN, NEW r \in BOOLEAN,
           Counter(s0), Good(s, f, r), ~f, Tells(s0, s),
           p = "roll_cmd" => s.modif[p] # 0
    PROVE  LET t == Spend(s, p)
           IN  Good(t, f, r) /\ Tells(s0, t)
<1> DEFINE t == Spend(s, p)
<1>1. Good(t, f, r)
  BY SpendStale
<1>2. p \in Params
  BY DEF Commands, Params
<1>3. Tells(s, t)
  <2>1. CASE s.modif[p] # 0
    <3>1. /\ t.modif = [s.modif EXCEPT ![p] = 0]
          /\ t.loop = s.loop
          /\ t.warned = s.warned
      BY <1>2, <2>1, SpendUpdated, GoodCounter
    <3>2. t.modif["roll_cmd"] \in {0, s.modif["roll_cmd"]}
      BY <1>2, <3>1, GoodCounter DEF Record, Params
    <3> QED
      BY <3>1, <3>2, GoodCounter DEF Tells, Counter
  <2>2. CASE s.modif[p] = 0
    <3>1. t = error(s, p) /\ p # "roll_cmd"
      BY <2>2 DEF Spend
    <3> QED
      BY <3>1, ErrorTells, GoodCounter
  <2> QED
    BY <2>1, <2>2
<1>4. Counter(s) /\ Counter(t)
  BY <1>1, GoodCounter
<1> HIDE DEF t
<1>5. Tells(s0, t)
  BY <1>3, <1>4, TellsChain
<1> QED
  BY <1>1, <1>5 DEF t

(* A computation forgets the errors that were counted. *)
LEMMA ComputedRoll ==
    ASSUME NEW s, NEW mode, Sane(s)
    PROVE  computeCmd(Steer(s, mode)).modif["roll_cmd"] = 1
<1> DEFINE t == Steer(s, mode)
<1>1. t \in Record
  BY SteerEffect
<1> HIDE DEF t
<1>2. computeCmd(t).modif = Computed(t.modif, {"roll_cmd", "nx_cmd", "nz_cmd", "track_obj"})
  BY <1>1 DEF computeCmd, Record
<1>3. computeCmd(t).modif["roll_cmd"] = 1
  BY <1>2 DEF Computed, Params
<1> QED
  BY <1>3 DEF t

(* The five commands of a tick. *)
LEMMA SendTells ==
    ASSUME NEW s0, NEW s, NEW f \in BOOLEAN, NEW r \in BOOLEAN,
           Counter(s0), Good(s, f, r), Tells(s0, s)
    PROVE  Tells(s0, SendCommands(s))
<1>1. CASE f
  <2>1. SendCommands(s).modif["roll_cmd"] = 0 /\ SendCommands(s).loop = s.loop
        /\ SendCommands(s).warned = s.warned
    BY <1>1, SendFresh DEF Commands
  <2> QED
    BY <2>1 DEF Tells
<1>2. CASE ~f
  <2> DEFINE s1 == Spend(s, "global_bank_angle_obj")
             s2 == Spend(s1, "roll_cmd")
             s3 == Spend(s2, "nx_cmd")
             s4 == Spend(s3, "nz_cmd")
             s5 == Spend(s4, "track_obj")
  <2>1. SendCommands(s) = s5
    BY DEF SendCommands
  <2>2. {"nx_cmd", "nz_cmd", "track_obj", "global_bank_angle_obj"} \subseteq Commands
    BY DEF Commands
  <2>3. Good(s1, f, r) /\ Tells(s0, s1)
    BY <1>2, <2>2, SpendTells
  <2>4. s1.modif["roll_cmd"] # 0
    <3>1. s.modif["global_bank_angle_obj"] = 0
      BY <1>2 DEF Good, Sane, Coupled, Params
    <3>2. s1 = error(s, "global_bank_angle_obj")
      BY <3>1 DEF Spend
    <3>3. /\ Bump(s.modif["roll_cmd"]) < 0
          /\ s1.modif = [s.modif EXCEPT !["roll_cmd"] = Bump(s.modif["roll_cmd"])]
      BY <3>2, ErrorEffect, GoodCounter
    <3> HIDE DEF s1
    <3>4. s1.modif["roll_cmd"] = Bump(s.modif["roll_cmd"])
      BY <3>3, GoodCounter DEF Record, Params
    <3> QED
      BY <3>3, <3>4, <2>3, GoodCounter DEF Counter
  <2> HIDE DEF s1
  <2>5. Good(s2, f, r) /\ Tells(s0, s2)
    BY <1>2, <2>3, <2>4, SpendTells DEF Commands
  <2> HIDE DEF s2
  <2>6. Good(s3, f, r) /\ Tells(s0, s3)
    BY <1>2, <2>2, <2>5, SpendTells
  <2> HIDE DEF s3
  <2>7. Good(s4, f, r) /\ Tells(s0, s4)
    BY <1>2, <2>2, <2>6, SpendTells
  <2> HIDE DEF s4
  <2>8. Tells(s0, s5)
    BY <1>2, <2>2, <2>7, SpendTells
  <2> QED
    BY <2>1, <2>8
<1> QED
  BY <1>1, <1>2

(* The third error in a row, counted by whichever callback, stops the loop *)
(* and is announced.                                                       *)
THEOREM ThirdErrorsStop == Spec => ThirdErrorStops
<1>1. IInv /\ [Next]_vars
        => (modif["roll_cmd"] > -3 /\ modif'["roll_cmd"] <= -3 => warned' /\ ~loop')
  <2> SUFFICES ASSUME IInv, [Next]_vars, modif["roll_cmd"] > -3, modif'["roll_cmd"] <= -3
               PROVE  warned' /\ ~loop'
    OBVIOUS
  <2>1. /\ App.modif = modif /\ Good(App, fresh, requested)
        /\ fresh \in BOOLEAN /\ requested \in BOOLEAN
        /\ modif["roll_cmd"] \in Int
    BY AppGood DEF App, IInv, TypeOK, Params
  <2>2. Counter(App) /\ Tells(App, App)
    BY <2>1 DEF Tells, Counter
  <2>3. \A t : Becomes(t) /\ Tells(App, t) => warned' /\ ~loop'
    BY <2>1 DEF Becomes, Tells
  <2>4. {"gs", "heading_aircraft", "vp", "fpa", "bank_angle_aircraft", "tas", "alt",
         "heading_objective", "current_time"} \subseteq Params \ Commands
    BY AppGood
  <2>5. \A bad, s : \A p \in Params \ Commands : Good(s, fresh, requested) /\ Tells(App, s)
            => Good(Acquire(s, p, bad), fresh, requested) /\ Tells(App, Acquire(s, p, bad))
    BY <2>1, <2>2, AcquireTells
  <2> DEFINE G(s) == Good(s, fresh, requested) /\ Tells(App, s)
  <2>6. G(App) /\ \A bad, s : \A p \in Params \ Commands : G(s) => G(Acquire(s, p, bad))
    BY <2>1, <2>2, <2>5
  <2> HIDE DEF G
  <2>7. CASE getPosition
    <3>1. PICK bad : Becomes(Acquire(Acquire(App, "gs", bad), "heading_aircraft", bad))
      BY <2>7 DEF getPosition
    <3>2. G(Acquire(App, "gs", bad))
      BY <2>4, <2>6
    <3>3. G(Acquire(Acquire(App, "gs", bad), "heading_aircraft", bad))
      BY <2>4, <2>6, <3>2
    <3> QED
      BY <2>3, <3>1, <3>3 DEF G
  <2>8. CASE getState
    <3>1. PICK bad : Becomes(Acquire(Acquire(Acquire(App, "vp", bad), "fpa", bad),
                                     "bank_angle_aircraft", bad))
      BY <2>8 DEF getState
    <3>2. G(Acquire(App, "vp", bad))
      BY <2>4, <2>6
    <3>3. G(Acquire(Acquire(App, "vp", bad), "fpa", bad))
      BY <2>4, <2>6, <3>2
    <3>4. G(Acquire(Acquire(Acquire(App, "vp", bad), "fpa", bad), "bank_angle_aircraft", bad))
      BY <2>4, <2>6, <3>3
    <3> QED
      BY <2>3, <3>1, <3>4 DEF G
  <2>9. CASE getForecast
    <3>1. PICK bad : Becomes(Acquire(Acquire(App, "tas", bad), "alt", bad))
      BY <2>9 DEF getForecast
    <3>2. G(Acquire(App, "tas", bad))
      BY <2>4, <2>6
    <3>3. G(Acquire(Acquire(App, "tas", bad), "alt", bad))
      BY <2>4, <2>6, <3>2
    <3> QED
      BY <2>3, <3>1, <3>3 DEF G
  <2>10. CASE computeBankAngleObj
    <3>1. PICK bad : Becomes(computeCmd(Steer(AcquireTrajectory(App, bad), ap_mode)))
      BY <2>10 DEF computeBankAngleObj
    <3>2. Good(AcquireTrajectory(App, bad), fresh, requested)
      BY <2>1, TrajectoryGood
    <3>3. Sane(AcquireTrajectory(App, bad))
      BY <3>2, GoodCounter
    <3>4. modif'["roll_cmd"] = 1
      BY <3>1, <3>3, ComputedRoll DEF Becomes
    <3> QED
      BY <3>4
  <2>11. CASE getMode
    <3>1. CASE UNCHANGED modif
      BY <2>1, <3>1
    <3>2. CASE \E bad \in BadFields({"heading_objective"}) :
                  Becomes(Acquire(App, "heading_objective", bad))
      <4>1. PICK bad : Becomes(Acquire(App, "heading_objective", bad))
        BY <3>2
      <4>2. G(Acquire(App, "heading_objective", bad))
        BY <2>4, <2>6
      <4> QED
        BY <2>3, <4>1, <4>2 DEF G
    <3> QED
      BY <2>11, <3>1, <3>2 DEF getMode
  <2>12. CASE sendGC
    <3>1. PICK bad : Becomes(IF inFlight THEN SendCommands(Acquire(App, "current_time", bad))
                             ELSE Acquire(App, "current_time", bad))
      BY <2>12 DEF sendGC
    <3> DEFINE timed == Acquire(App, "current_time", bad)
    <3>2. G(timed)
      BY <2>4, <2>6
    <3> HIDE DEF timed
    <3>3. Tells(App, SendCommands(timed)) /\ Tells(App, timed)
      BY <2>1, <2>2, <3>2, SendTells DEF G
    <3>4. Becomes(IF inFlight THEN SendCommands(timed) ELSE timed)
      BY <3>1 DEF timed
    <3>5. Tells(App, IF inFlight THEN SendCommands(timed) ELSE timed)
      BY <3>3
    <3> QED
      BY <2>3, <3>4, <3>5
  <2>13. CASE Start
    <3>1. modif'["roll_cmd"] = modif["roll_cmd"]
      BY <2>13 DEF Start, error_init, ClearedAtStart, Params
    <3> QED
      BY <2>1, <3>1
  <2>14. CASE start_flight \/ restart \/ GiveUp \/ Select \/ SelectFails \/ EndRound
              \/ LeaveLoop \/ stop \/ intHandler \/ Gone \/ UNCHANGED vars
    <3>1. modif' = modif
      BY <2>14 DEF start_flight, restart, GiveUp, Select, SelectFails, EndRound, LeaveLoop,
                   stop, intHandler, Jump, Gone, vars
    <3> QED
      BY <2>1, <3>1
  <2> QED
    BY <2>7, <2>8, <2>9, <2>10, <2>11, <2>12, <2>13, <2>14 DEF Next, Callback, Control
<1> QED
  BY <1>1, Invariance, PTL DEF Spec, ThirdErrorStops

-----------------------------------------------------------------------------
(* The bus *)

(* With its links, GUID-COMM does nothing but what GuidComm says. *)
LEMMA BusStep == BusNext \/ UNCHANGED busVars => [Next]_vars
<1> SUFFICES ASSUME BusNext \/ UNCHANGED busVars PROVE [Next]_vars
  OBVIOUS
<1>1. CASE UNCHANGED busVars
  BY <1>1 DEF busVars
<1>2. CASE Connect \/ LearnBindings \/ SendTraffic \/ SendRequest \/ Idle
  BY <1>2 DEF Connect, LearnBindings, SendTraffic, SendRequest, Post, Idle, busVars
<1>3. CASE BusSelect \/ BusEndRound \/ Main \/ BusGone
  BY <1>3 DEF BusSelect, BusEndRound, Main, BusGone, Next, Control
<1>4. CASE Dispatch
  BY <1>4 DEF Dispatch, Handler, Next, Callback
<1> QED
  BY <1>1, <1>2, <1>3, <1>4 DEF BusNext

(* So all that is proved about GuidComm, where any callback may run at any *)
(* moment, holds for the messages that a peer sends (IvyChannelHandle-     *)
(* Incomming, SendService): the properties of the application do not       *)
(* depend on how the bus behaves.                                          *)
THEOREM BusImplements == BusSpec => Spec
<1>1. BusInit => Init
  BY DEF BusInit
<1>2. [BusNext]_busVars => [Next]_vars
  BY BusStep
<1> QED
  BY <1>1, <1>2, PTL DEF BusSpec, Spec

(* The links, besides their types: none was opened that no start accounts  *)
(* for, and a peer without links sends nothing.                            *)
BInv ==
    /\ nb_try \in 0..MaxTry
    /\ pc \in {"poll", "round"} => nb_try > 0
    /\ queue \in [Links -> Seq(Kinds)]
    /\ due \in [Links -> Nat]
    /\ sent \in Nat
    /\ BusTypeOK
    /\ \A l \in Links : known[l] > 0 => l <= Opened(nb_try)
    /\ sent > 0 => known[1] > 0

(* More starts account for more links. *)
LEMMA OpenedGrows ==
    ASSUME NEW n \in Nat, NEW m \in Nat, n <= m
    PROVE  Opened(n) \in Nat /\ n <= Opened(n) /\ Opened(n) <= Opened(m)
BY DEF Opened

LEMMA FirstLink == 1 \in Links
<1>1. MaxTry \in Nat /\ MaxTry >= 1
  BY MaxTryAssumption
<1>2. Opened(MaxTry) \in Nat /\ MaxTry <= Opened(MaxTry)
  BY <1>1, OpenedGrows
<1> QED
  BY <1>1, <1>2 DEF Links

LEMMA BInvInit == BusInit => BInv
<1> SUFFICES ASSUME BusInit PROVE BInv
  OBVIOUS
<1>1. <<>> \in Seq(Kinds) /\ Len(<<>>) = 0
  OBVIOUS
<1>2. /\ nb_try = 0 /\ sent = 0
      /\ \A l \in Links : known[l] = 0 /\ queue[l] = <<>> /\ due[l] = 0
      /\ known \in [Links -> 0..nb_try] /\ due \in [Links -> Nat]
      /\ queue \in [Links -> Seq(Kinds)]
      /\ pc = "main"
  BY <1>1 DEF BusInit, Init, Nothing
<1> QED
  BY <1>1, <1>2, MaxTryAssumption DEF BInv, BusTypeOK

(* A callback leaves the starts and the process alone. *)
LEMMA CallbackStays ==
    ASSUME NEW kind, Handler(kind)
    PROVE  UNCHANGED <<nb_try, pc>> /\ pc = "round"
BY DEF Handler, start_flight, getPosition, computeBankAngleObj, sendGC, restart, control, InCallback

(* Posting adds known[l] frames of the kind on each link. *)
LEMMA PostAdds ==
    ASSUME BInv, NEW kind \in Kinds, Post(kind)
    PROVE  /\ known[1] > 0
           /\ UNCHANGED <<vars, known, due>>
           /\ queue' \in [Links -> Seq(Kinds)]
           /\ \A l \in Links :
                 /\ Len(queue'[l]) = Len(queue[l]) + known[l]
                 /\ \A i \in 1..Len(queue[l]) : queue'[l][i] = queue[l][i]
                 /\ \A i \in 1..known[l] : queue'[l][Len(queue[l]) + i] = kind
                 /\ known[l] = 0 => queue'[l] = queue[l]
<1>1. /\ known[1] > 0
      /\ UNCHANGED <<vars, known, due>>
      /\ queue' = [l \in Links |-> queue[l] \o [i \in 1..known[l] |-> kind]]
  BY DEF Post
<1>2. ASSUME NEW l \in Links
      PROVE  /\ queue'[l] \in Seq(Kinds)
             /\ Len(queue'[l]) = Len(queue[l]) + known[l]
             /\ \A i \in 1..Len(queue[l]) : queue'[l][i] = queue[l][i]
             /\ \A i \in 1..known[l] : queue'[l][Len(queue[l]) + i] = kind
             /\ known[l] = 0 => queue'[l] = queue[l]
  <2>1. queue[l] \in Seq(Kinds) /\ known[l] \in Nat
    BY DEF BInv, BusTypeOK
  <2> DEFINE more == [i \in 1..known[l] |-> kind]
  <2>2. more \in Seq(Kinds) /\ Len(more) = known[l] /\ \A i \in 1..known[l] : more[i] = kind
    BY <2>1
  <2>3. queue'[l] = queue[l] \o more
    BY <1>1
  <2> HIDE DEF more
  <2>4. known[l] = 0 => queue[l] \o more = queue[l]
    <3>1. known[l] = 0 => more = <<>>
      BY <2>2
    <3> QED
      BY <2>1, <3>1
  <2>5. /\ queue[l] \o more \in Seq(Kinds)
        /\ Len(queue[l] \o more) = Len(queue[l]) + Len(more)
        /\ \A i \in 1..Len(queue[l]) : (queue[l] \o more)[i] = queue[l][i]
        /\ \A i \in 1..Len(more) : (queue[l] \o more)[Len(queue[l]) + i] = more[i]
    <3> DEFINE q == queue[l]
    <3>1. q \in Seq(Kinds) /\ more \in Seq(Kinds)
      BY <2>1, <2>2
    <3> HIDE DEF q
    <3>2. q \o more \in Seq(Kinds) /\ Len(q \o more) = Len(q) + Len(more)
      BY <3>1
    <3>3. \A i \in 1..Len(q) : (q \o more)[i] = q[i]
      BY <3>1
    <3>4. \A i \in 1..Len(more) : (q \o more)[Len(q) + i] = more[i]
      BY <3>1
    <3> QED
      BY <3>2, <3>3, <3>4 DEF q
  <2> QED
    BY <2>2, <2>3, <2>4, <2>5
<1>3. queue' = [l \in Links |-> queue'[l]]
  BY <1>1
<1>4. queue' \in [Links -> Seq(Kinds)]
  BY ONLY <1>2, <1>3
<1> QED
  BY <1>1, <1>2, <1>4

(* What the peer sends. *)
LEMMA TrafficKinds ==
    ASSUME sent \in Nat
    PROVE  /\ (IF sent = 0 THEN "InitStateVector" ELSE Cycle[((sent - 1) % Len(Cycle)) + 1]) \in Kinds
           /\ sent > 0 => (sent - 1) % Len(Cycle) \in 0..(Len(Cycle) - 1)
<1>1. Cycle \in Seq(Kinds) /\ Len(Cycle) \in Nat /\ Len(Cycle) > 0
  BY CycleAssumption
<1>2. (sent - 1) % Len(Cycle) \in 0..(Len(Cycle) - 1)
  <2> DEFINE n == sent - 1
             m == Len(Cycle)
  <2>1. n \in Int /\ m \in Nat /\ m > 0
    BY <1>1
  <2> HIDE DEF n, m
  <2>2. n % m \in 0..(m - 1)
    BY <2>1
  <2> QED
    BY <2>2 DEF n, m
<1>3. ((sent - 1) % Len(Cycle)) + 1 \in 1..Len(Cycle)
  BY <1>1, <1>2
<1>4. Cycle[((sent - 1) % Len(Cycle)) + 1] \in Kinds
  BY <1>1, <1>3
<1> QED
  BY <1>2, <1>4 DEF Kinds

(* The links are kept so by every step. *)
LEMMA BInvNext ==
    ASSUME BInv, BusNext \/ UNCHANGED busVars
    PROVE  BInv'
<1>1. /\ nb_try \in 0..MaxTry /\ sent \in Nat
      /\ pc \in {"poll", "round"} => nb_try > 0
      /\ known \in [Links -> 0..nb_try] /\ queue \in [Links -> Seq(Kinds)] /\ due \in [Links -> Nat]
      /\ \A l \in Links : queue[l] \in Seq(Kinds) /\ due[l] \in 0..Len(queue[l])
      /\ \A l \in Links : known[l] = 0 => queue[l] = <<>>
      /\ \A k, l \in Links : k < l /\ known[l] > 0 => known[k] > 0
      /\ \A l \in Links : due[l] > 0 => pc = "round"
      /\ \A l \in Links : known[l] > 0 => l <= Opened(nb_try)
      /\ sent > 0 => known[1] > 0
  BY DEF BInv, BusTypeOK
<1>2. /\ Links = 1..Opened(MaxTry) /\ MaxTry \in Nat /\ MaxTry > 0 /\ nb_try \in Nat
      /\ Opened(MaxTry) \in Nat /\ Opened(nb_try) \in Nat /\ Opened(nb_try) <= Opened(MaxTry)
  <2>1. MaxTry \in Nat /\ MaxTry > 0 /\ nb_try \in Nat /\ nb_try <= MaxTry
    BY <1>1, MaxTryAssumption
  <2> QED
    BY <2>1, OpenedGrows DEF Links
<1>3. CASE UNCHANGED busVars
  BY <1>1, <1>3 DEF busVars, vars, bus, BInv, BusTypeOK
<1>4. CASE Connect
  <2>1. PICK c \in 1..Opened(nb_try) :
            /\ pc \in {"poll", "round"} /\ known[c] = 0 /\ \A k \in 1..(c - 1) : known[k] > 0
            /\ known' = [known EXCEPT ![c] = nb_try]
    BY <1>4 DEF Connect
  <2>2. c \in Links /\ nb_try > 0
    BY <1>1, <1>2, <2>1
  <2>3. /\ known' \in [Links -> 0..nb_try] /\ known'[c] = nb_try
        /\ \A l \in Links : l # c => known'[l] = known[l]
    BY <1>1, <2>1, <2>2
  <2>4. UNCHANGED <<nb_try, queue, due, sent, pc>>
    BY <1>4 DEF Connect, vars
  <2>5. \A k, l \in Links : k < l /\ known'[l] > 0 => known'[k] > 0
    <3> SUFFICES ASSUME NEW k \in Links, NEW l \in Links, k < l, known'[l] > 0
                 PROVE  known'[k] > 0
      OBVIOUS
    <3>1. CASE l = c
      <4>1. k \in 1..(c - 1) /\ k # c
        BY <1>2, <2>2, <3>1
      <4> QED
        BY <2>1, <2>3, <4>1
    <3>2. CASE l # c
      BY <1>1, <2>2, <2>3, <3>2
    <3> QED
      BY <3>1, <3>2
  <2>6. \A l \in Links : known'[l] > 0 => l <= Opened(nb_try)
    BY <1>1, <2>1, <2>3
  <2>7. sent > 0 => known'[1] > 0
    BY <1>1, <2>2, <2>3, FirstLink
  <2>8. \A l \in Links : known'[l] = 0 => queue[l] = <<>>
    BY <1>1, <2>2, <2>3
  <2> QED
    BY <1>1, <2>3, <2>4, <2>5, <2>6, <2>7, <2>8 DEF BInv, BusTypeOK
<1>5. CASE LearnBindings
  <2>1. PICK c \in Links : known[c] \in 1..(nb_try - 1) /\ known' = [known EXCEPT ![c] = nb_try]
    BY <1>5 DEF LearnBindings
  <2>2. nb_try > 0
    BY <1>1, <2>1
  <2>3. /\ known' \in [Links -> 0..nb_try]
        /\ \A l \in Links : known'[l] > 0 <=> known[l] > 0
        /\ \A l \in Links : known'[l] = 0 <=> known[l] = 0
    BY <1>1, <2>1, <2>2
  <2>4. UNCHANGED <<nb_try, queue, due, sent, pc>>
    BY <1>5 DEF LearnBindings, vars
  <2>5. sent > 0 => known'[1] > 0
    BY <1>1, <2>3, FirstLink
  <2> QED
    BY <1>1, <2>3, <2>4, <2>5 DEF BInv, BusTypeOK
<1>6. ASSUME NEW kind \in Kinds, Post(kind), sent' \in Nat
      PROVE  BInv'
  <2>1. /\ known[1] > 0
        /\ UNCHANGED <<vars, known, due>>
        /\ queue' \in [Links -> Seq(Kinds)]
        /\ \A l \in Links : Len(queue'[l]) = Len(queue[l]) + known[l]
        /\ \A l \in Links : known[l] = 0 => queue'[l] = queue[l]
    BY <1>6, PostAdds
  <2>2. UNCHANGED <<nb_try, pc>>
    BY <2>1 DEF vars
  <2>3. \A l \in Links : queue'[l] \in Seq(Kinds) /\ due[l] \in 0..Len(queue'[l])
    <3> SUFFICES ASSUME NEW l \in Links
                 PROVE  queue'[l] \in Seq(Kinds) /\ due[l] \in 0..Len(queue'[l])
      OBVIOUS
    <3>1. /\ queue'[l] \in Seq(Kinds) /\ Len(queue[l]) \in Nat /\ known[l] \in Nat
          /\ due[l] \in 0..Len(queue[l]) /\ Len(queue'[l]) = Len(queue[l]) + known[l]
      BY <1>1, <2>1
    <3> QED
      BY <3>1
  <2> QED
    BY <1>1, <1>6, <2>1, <2>2, <2>3 DEF BInv, BusTypeOK
<1>7. CASE SendTraffic
  <2>1. sent' = sent + 1 /\ Post(IF sent = 0 THEN "InitStateVector"
                                 ELSE Cycle[((sent - 1) % Len(Cycle)) + 1])
    BY <1>7 DEF SendTraffic
  <2> QED
    BY <1>1, <1>6, <2>1, TrafficKinds
<1>8. CASE SendRequest
  <2>1. sent' = sent /\ Post("Restart_GUID_COMM") /\ "Restart_GUID_COMM" \in Kinds
    BY <1>8 DEF SendRequest, Kinds
  <2> QED
    BY <1>1, <1>6, <2>1
<1>9. CASE BusSelect
  <2>1. /\ UNCHANGED <<nb_try, known, queue, sent>> /\ pc = "poll" /\ pc' = "round"
        /\ due' \in [Links -> 0..MaxQueue] /\ \A l \in Links : due'[l] <= Len(queue[l])
    BY <1>9 DEF BusSelect, Select, Jump
  <2>2. \A l \in Links : due'[l] \in 0..Len(queue[l]) /\ due'[l] \in Nat
    <3> SUFFICES ASSUME NEW l \in Links
                 PROVE  due'[l] \in 0..Len(queue[l]) /\ due'[l] \in Nat
      OBVIOUS
    <3>1. due'[l] \in 0..MaxQueue /\ Len(queue[l]) \in Nat /\ due'[l] <= Len(queue[l])
      BY <1>1, <2>1
    <3> QED
      BY <3>1, BoundsAssumption
  <2>3. due' \in [Links -> Nat]
    BY <2>1, <2>2
  <2> QED
    BY <1>1, <2>1, <2>2, <2>3 DEF BInv, BusTypeOK
<1>10. CASE Dispatch
  <2>1. PICK c \in Links :
            /\ Served(c) /\ Handler(Head(queue[c]))
            /\ queue' = [queue EXCEPT ![c] = Tail(@)]
            /\ due' = [due EXCEPT ![c] = @ - 1]
            /\ UNCHANGED <<known, sent, requests>>
    BY <1>10 DEF Dispatch
  <2>2. UNCHANGED <<nb_try, pc>> /\ pc = "round"
    BY <2>1, CallbackStays
  <2>3. /\ due[c] > 0 /\ due[c] \in 0..Len(queue[c]) /\ queue[c] \in Seq(Kinds)
        /\ Len(queue[c]) \in Nat
    BY <1>1, <2>1 DEF Served
  <2>4. /\ Tail(queue[c]) \in Seq(Kinds) /\ Len(Tail(queue[c])) = Len(queue[c]) - 1
        /\ queue[c] # <<>>
    <3> DEFINE q == queue[c]
    <3>1. q \in Seq(Kinds) /\ Len(q) > 0
      BY <2>3
    <3> HIDE DEF q
    <3>2. q # <<>> /\ Tail(q) \in Seq(Kinds) /\ Len(Tail(q)) = Len(q) - 1
      BY <3>1
    <3> QED
      BY <3>2 DEF q
  <2>5. /\ queue' \in [Links -> Seq(Kinds)] /\ queue'[c] = Tail(queue[c])
        /\ \A l \in Links : l # c => queue'[l] = queue[l]
    BY <1>1, <2>1, <2>4
  <2>6. /\ due'[c] = due[c] - 1 /\ due'[c] \in Nat
        /\ \A l \in Links : l # c => due'[l] = due[l]
        /\ due' \in [Links -> Nat]
    BY <1>1, <2>1, <2>3
  <2>7. \A l \in Links : queue'[l] \in Seq(Kinds) /\ due'[l] \in 0..Len(queue'[l])
    <3> SUFFICES ASSUME NEW l \in Links
                 PROVE  queue'[l] \in Seq(Kinds) /\ due'[l] \in 0..Len(queue'[l])
      OBVIOUS
    <3>1. CASE l = c
      BY <2>3, <2>4, <2>5, <2>6, <3>1
    <3>2. CASE l # c
      BY <1>1, <2>5, <2>6, <3>2
    <3> QED
      BY <3>1, <3>2
  <2>8. \A l \in Links : known[l] = 0 => queue'[l] = <<>>
    BY <1>1, <2>4, <2>5
  <2> QED
    BY <1>1, <2>1, <2>2, <2>5, <2>6, <2>7, <2>8 DEF BInv, BusTypeOK
<1>11. CASE BusEndRound
  <2>1. /\ \A l \in Links : due[l] = 0
        /\ UNCHANGED <<nb_try, known, queue, due, sent>> /\ pc = "round"
    BY <1>11 DEF BusEndRound, EndRound, Jump, Nothing, bus
  <2> QED
    BY <1>1, <2>1 DEF BInv, BusTypeOK
<1>12. CASE Main
  <2>1. /\ UNCHANGED <<known, queue, due, sent>> /\ pc # "round"
        /\ nb_try' \in 0..MaxTry /\ nb_try <= nb_try'
        /\ pc' \in {"poll", "round"} => nb_try' > 0
    <3>1. CASE LeaveLoop
      BY <1>1, <1>12, <3>1 DEF Main, bus, LeaveLoop, Jump
    <3>2. CASE GiveUp
      BY <1>1, <1>12, <3>2 DEF Main, bus, GiveUp
    <3>3. CASE Start
      BY <1>1, <1>2, <1>12, <3>3 DEF Main, bus, Start
    <3> QED
      BY <1>12, <3>1, <3>2, <3>3 DEF Main
  <2>2. \A l \in Links : due[l] = 0
    BY <1>1, <2>1
  <2>3. known \in [Links -> 0..nb_try'] /\ \A l \in Links : known[l] > 0 => l <= Opened(nb_try')
    <3> DEFINE n == nb_try'
    <3>1. nb_try \in Nat /\ n \in Nat /\ nb_try <= n
      BY <1>2, <1>1, <2>1
    <3>2. \A l \in Links : l \in Nat /\ known[l] \in 0..nb_try
      <4>1. \A l \in Links : l \in Nat
        BY <1>2
      <4>2. \A l \in Links : known[l] \in 0..nb_try
        BY <1>1
      <4> QED
        BY <4>1, <4>2
    <3> HIDE DEF n
    <3>3. \A l \in Links : known[l] \in 0..n
      BY <3>1, <3>2
    <3>4. known \in [Links -> 0..n]
      BY <1>1, <3>3
    <3>5. \A l \in Links : known[l] > 0 => l <= Opened(n)
      <4> SUFFICES ASSUME NEW l \in Links, known[l] > 0 PROVE l <= Opened(n)
        OBVIOUS
      <4>1. l <= Opened(nb_try) /\ l \in Nat
        BY <1>1, <3>2
      <4>2. Opened(nb_try) <= Opened(n) /\ Opened(nb_try) \in Nat /\ Opened(n) \in Nat
        BY <3>1, OpenedGrows
      <4> QED
        BY <4>1, <4>2
    <3> QED
      BY <3>4, <3>5 DEF n
  <2> QED
    BY <1>1, <2>1, <2>2, <2>3 DEF BInv, BusTypeOK
<1>13. CASE BusGone \/ Idle
  <2>1. UNCHANGED busVars
    BY <1>13 DEF BusGone, Gone, Idle, busVars
  <2> QED
    BY <1>3, <2>1
<1> QED
  BY <1>3, <1>4, <1>5, <1>7, <1>8, <1>9, <1>10, <1>11, <1>12, <1>13 DEF BusNext

(* The links of GUID-COMM: what was read is there, a peer that did not     *)
(* connect sends nothing, and links come up in the order of the starts.    *)
THEOREM BusTyping == BusSpec => []BusTypeOK
<1>1. BInv /\ [BusNext]_busVars => BInv'
  BY BInvNext
<1>2. BInv => BusTypeOK
  BY DEF BInv
<1> QED
  BY BInvInit, <1>1, <1>2, PTL DEF BusSpec

-----------------------------------------------------------------------------
(* Healthy traffic *)

(* Before the k-th frame of q a computation came after the last tick; f    *)
(* says so of what came before q.                                          *)
FreshAt(q, k, f) ==
    \/ \E j \in 1..(k - 1) : q[j] = "GS_Data" /\ \A i \in (j + 1)..(k - 1) : q[i] # "Time"
    \/ f /\ \A i \in 1..(k - 1) : q[i] # "Time"

(* A computation precedes each tick. *)
Covered(q, f) == \A k \in 1..Len(q) : q[k] = "Time" => FreshAt(q, k, f)

(* One frame more is seen. *)
LEMMA FreshNext ==
    ASSUME NEW q, NEW k \in Nat \ {0}, NEW f
    PROVE  FreshAt(q, k + 1, f) <=> q[k] = "GS_Data" \/ (q[k] # "Time" /\ FreshAt(q, k, f))
<1>1. /\ (k + 1) - 1 = k /\ k \in 1..k
      /\ \A i \in 1..k : i = k \/ i \in 1..(k - 1)
      /\ \A i \in 1..(k - 1) : i \in 1..k
      /\ \A j \in 1..(k - 1) : k \in (j + 1)..k
      /\ \A j \in 1..(k - 1) : \A i \in (j + 1)..k : i = k \/ i \in (j + 1)..(k - 1)
      /\ \A j \in 1..(k - 1) : \A i \in (j + 1)..(k - 1) : i \in (j + 1)..k
      /\ \A i : i \notin (k + 1)..k
  OBVIOUS
<1>2. FreshAt(q, k + 1, f) <=>
          \/ \E j \in 1..k : q[j] = "GS_Data" /\ \A i \in (j + 1)..k : q[i] # "Time"
          \/ f /\ \A i \in 1..k : q[i] # "Time"
  BY <1>1 DEF FreshAt
<1>3. ASSUME FreshAt(q, k + 1, f), q[k] # "GS_Data"
      PROVE  q[k] # "Time" /\ FreshAt(q, k, f)
  <2>1. CASE f /\ \A i \in 1..k : q[i] # "Time"
    BY <1>1, <2>1 DEF FreshAt
  <2>2. CASE \E j \in 1..k : q[j] = "GS_Data" /\ \A i \in (j + 1)..k : q[i] # "Time"
    <3>1. PICK j \in 1..k : q[j] = "GS_Data" /\ \A i \in (j + 1)..k : q[i] # "Time"
      BY <2>2
    <3>2. j \in 1..(k - 1)
      BY <1>1, <1>3, <3>1
    <3> QED
      BY <1>1, <3>1, <3>2 DEF FreshAt
  <2> QED
    BY <1>2, <1>3, <2>1, <2>2
<1>4. ASSUME q[k] = "GS_Data"
      PROVE  FreshAt(q, k + 1, f)
  BY <1>1, <1>2, <1>4
<1>5. ASSUME q[k] # "Time", FreshAt(q, k, f)
      PROVE  FreshAt(q, k + 1, f)
  <2>1. CASE f /\ \A i \in 1..(k - 1) : q[i] # "Time"
    BY <1>1, <1>2, <1>5, <2>1
  <2>2. CASE \E j \in 1..(k - 1) : q[j] = "GS_Data" /\ \A i \in (j + 1)..(k - 1) : q[i] # "Time"
    <3>1. PICK j \in 1..(k - 1) : q[j] = "GS_Data" /\ \A i \in (j + 1)..(k - 1) : q[i] # "Time"
      BY <2>2
    <3>2. j \in 1..k /\ \A i \in (j + 1)..k : q[i] # "Time"
      BY <1>1, <1>5, <3>1
    <3> QED
      BY <1>2, <3>1, <3>2
  <2> QED
    BY <1>5, <2>1, <2>2 DEF FreshAt
<1> QED
  BY <1>3, <1>4, <1>5

(* Nothing is seen before the first one. *)
LEMMA FreshFirst ==
    ASSUME NEW q, NEW f \in BOOLEAN
    PROVE  FreshAt(q, 1, f) <=> f
<1>1. 1 - 1 = 0 /\ \A i : i \notin 1..0
  OBVIOUS
<1> QED
  BY <1>1 DEF FreshAt

(* What comes later does not matter. *)
LEMMA FreshPrefix ==
    ASSUME NEW q, NEW u, NEW k \in Nat, \A i \in 1..(k - 1) : u[i] = q[i], NEW f
    PROVE  FreshAt(q, k, f) => FreshAt(u, k, f)
<1>1. \A j \in 1..(k - 1) : \A i \in (j + 1)..(k - 1) : i \in 1..(k - 1)
  OBVIOUS
<1> QED
  BY <1>1 DEF FreshAt

(* The first frame is taken, and g says what f and the frame say. *)
LEMMA FreshTail ==
    ASSUME NEW q, NEW t, NEW k \in Nat \ {0}, \A i \in 1..(k - 1) : t[i] = q[i + 1],
           NEW f, NEW g, q[1] = "GS_Data" => g, q[1] # "Time" /\ f => g,
           FreshAt(q, k + 1, f)
    PROVE  FreshAt(t, k, g)
<1>1. /\ (k + 1) - 1 = k /\ 1 \in 1..k
      /\ \A i \in 1..(k - 1) : i + 1 \in 1..k /\ i + 1 \in (1 + 1)..k
      /\ \A j \in 1..k : j # 1 => j - 1 \in 1..(k - 1) /\ (j - 1) + 1 = j
      /\ \A j \in 1..k : \A i \in ((j - 1) + 1)..(k - 1) : i + 1 \in (j + 1)..k
      /\ \A j \in 1..k : \A i \in ((j - 1) + 1)..(k - 1) : j # 1 => i \in 1..(k - 1)
  OBVIOUS
<1>2. CASE f /\ \A i \in 1..k : q[i] # "Time"
  BY <1>1, <1>2 DEF FreshAt
<1>3. ASSUME NEW j \in 1..k, q[j] = "GS_Data", \A i \in (j + 1)..k : q[i] # "Time"
      PROVE  FreshAt(t, k, g)
  <2>1. CASE j = 1
    <3>1. g /\ \A i \in 1..(k - 1) : t[i] # "Time"
      BY <1>1, <1>3, <2>1
    <3> QED
      BY <3>1 DEF FreshAt
  <2>2. CASE j # 1
    <3>1. j - 1 \in 1..(k - 1) /\ t[j - 1] = "GS_Data"
      BY <1>1, <1>3, <2>2
    <3>2. \A i \in ((j - 1) + 1)..(k - 1) : t[i] # "Time"
      <4> SUFFICES ASSUME NEW i \in ((j - 1) + 1)..(k - 1) PROVE t[i] # "Time"
        OBVIOUS
      <4>1. i + 1 \in (j + 1)..k /\ i \in 1..(k - 1)
        BY <1>1, <2>2
      <4> QED
        BY <1>3, <4>1
    <3> QED
      BY <3>1, <3>2 DEF FreshAt
  <2> QED
    BY <2>1, <2>2
<1> QED
  BY <1>1, <1>2, <1>3 DEF FreshAt

(* A well formed input is acquired and nothing else happens. *)
LEMMA AcquireWell ==
    ASSUME NEW s, s \in Record, NEW p \in Params \ Commands
    PROVE  LET t == Acquire(s, p, {})
           IN  t \in Record /\ t.warned = s.warned /\ t.modif["roll_cmd"] = s.modif["roll_cmd"]
<1>1. Acquire(s, p, {}) = [s EXCEPT !.modif[p] = 1]
  BY DEF Acquire
<1>2. p \in Params /\ p # "roll_cmd" /\ "roll_cmd" \in Params /\ s.modif \in [Params -> Int]
  BY DEF Commands, Params, Record
<1> QED
  BY <1>1, <1>2 DEF Record

(* What a callback does with well formed fields: no error is counted and   *)
(* no restart announced, unless a tick finds nothing computed.             *)
LEMMA WellFormed ==
    ASSUME Malformed = {}, IInv, modif["roll_cmd"] >= 0, ~warned,
           NEW kind, Handler(kind), kind = "Time" => fresh
    PROVE  /\ modif'["roll_cmd"] >= 0 /\ ~warned'
           /\ kind = "GS_Data" => fresh'
           /\ kind # "Time" /\ fresh => fresh'
<1>1. /\ App \in Record /\ App.modif = modif /\ App.warned = warned
      /\ Good(App, fresh, requested) /\ fresh \in BOOLEAN /\ requested \in BOOLEAN
      /\ Params \ Commands =
            {"gs", "heading_aircraft", "vp", "fpa", "bank_angle_aircraft", "tas",
             "alt", "xtk", "tae", "dist", "bank_angle_ref", "heading_objective",
             "current_time"}
      /\ "roll_cmd" \in Commands
  <2>1. App.modif = modif /\ App.warned = warned
    BY DEF App
  <2> QED
    BY <2>1, AppGood DEF Good, Sane, Commands
<1>2. \A fields : BadFields(fields) = {{}}
  BY DEF BadFields
<1>3. CASE kind = "InitStateVector" /\ start_flight
  BY <1>3 DEF start_flight, history
<1>4. CASE kind = "Restart_GUID_COMM" /\ restart
  BY <1>4 DEF restart
<1>5. CASE kind = "AircraftSetPosition" /\ getPosition
  <2>1. Becomes(Acquire(Acquire(App, "gs", {}), "heading_aircraft", {})) /\ fresh' = fresh
    BY <1>2, <1>5 DEF getPosition, history
  <2> DEFINE s1 == Acquire(App, "gs", {})
             s2 == Acquire(s1, "heading_aircraft", {})
  <2>2. s1 \in Record /\ s1.warned = App.warned /\ s1.modif["roll_cmd"] = App.modif["roll_cmd"]
    BY <1>1, AcquireWell
  <2> HIDE DEF s1
  <2>3. s2.warned = s1.warned /\ s2.modif["roll_cmd"] = s1.modif["roll_cmd"]
    BY <1>1, <2>2, AcquireWell
  <2> HIDE DEF s2
  <2>4. modif' = s2.modif /\ warned' = s2.warned
    BY <2>1 DEF Becomes, s1, s2
  <2> QED
    BY <1>1, <1>5, <2>1, <2>2, <2>3, <2>4
<1>6. CASE kind = "GS_Data" /\ computeBankAngleObj
  <2>1. /\ Becomes(computeCmd(Steer(AcquireTrajectory(App, {}), ap_mode))) /\ fresh'
    BY <1>2, <1>6 DEF computeBankAngleObj
  <2> DEFINE s1 == Acquire(App, "xtk", {})
             s2 == Acquire(s1, "tae", {})
             s3 == Acquire(s2, "dist", {})
             s4 == Acquire(s3, "bank_angle_ref", {})
             t == Steer(s4, ap_mode)
  <2>2. s1 \in Record /\ s1.warned = App.warned
    BY <1>1, AcquireWell
  <2> HIDE DEF s1
  <2>3. s2 \in Record /\ s2.warned = s1.warned
    BY <1>1, <2>2, AcquireWell
  <2> HIDE DEF s2
  <2>4. s3 \in Record /\ s3.warned = s2.warned
    BY <1>1, <2>3, AcquireWell
  <2> HIDE DEF s3
  <2>5. s4 \in Record /\ s4.warned = s3.warned
    BY <1>1, <2>4, AcquireWell
  <2>6. s4 = AcquireTrajectory(App, {})
    BY DEF AcquireTrajectory, s1, s2, s3, s4
  <2>7. Sane(s4)
    BY <1>1, <2>6, TrajectoryGood DEF Good
  <2> HIDE DEF s4
  <2>8. t \in Record /\ t.warned = s4.warned
    BY <2>7, SteerEffect
  <2> HIDE DEF t
  <2>9. Becomes(computeCmd(t))
    BY <2>1, <2>6 DEF t
  <2>10. modif' = Computed(t.modif, {"roll_cmd", "nx_cmd", "nz_cmd", "track_obj"}) /\ warned' = t.warned
    BY <2>8, <2>9 DEF Becomes, computeCmd, Record
  <2>11. modif'["roll_cmd"] = 1
    BY <2>10 DEF Computed, Params
  <2> QED
    BY <1>1, <2>1, <2>2, <2>3, <2>4, <2>5, <2>8, <2>10, <2>11
<1>7. CASE kind = "Time" /\ sendGC
  <2> DEFINE timed == Acquire(App, "current_time", {})
  <2>1. Becomes(IF inFlight THEN SendCommands(timed) ELSE timed)
    BY <1>2, <1>7 DEF sendGC
  <2>2. /\ timed.warned = App.warned
        /\ timed.modif["roll_cmd"] = App.modif["roll_cmd"]
    BY <1>1, AcquireWell
  <2>3. Good(timed, fresh, requested)
    BY <1>1, AcquireGood
  <2> HIDE DEF timed
  <2>4. CASE ~inFlight
    <3>1. modif' = timed.modif /\ warned' = timed.warned
      BY <2>1, <2>4 DEF Becomes
    <3> QED
      BY <1>1, <1>7, <2>2, <3>1
  <2>5. CASE inFlight
    <3> DEFINE used == SendCommands(timed)
    <3>1. used.modif["roll_cmd"] = 0 /\ used.warned = timed.warned
      BY <1>1, <1>7, <2>3, SendFresh
    <3> HIDE DEF used
    <3>2. modif' = used.modif /\ warned' = used.warned
      BY <2>1, <2>5 DEF Becomes, used
    <3> QED
      BY <1>1, <1>7, <2>2, <3>1, <3>2
  <2> QED
    BY <2>4, <2>5
<1> QED
  BY <1>3, <1>4, <1>5, <1>6, <1>7 DEF Handler

(* While the first start runs over one link: no error was counted, each tick that waits  *)
(* comes after a computation, and so will the one that the peer sends next *)
(* where its cycle has a tick.                                             *)
Healthy ==
    nb_try <= 1 /\ OneLink =>
        /\ modif["roll_cmd"] >= 0 /\ ~warned
        /\ Covered(queue[1], fresh)
        /\ sent > 0 /\ FreshAt(Cycle, ((sent - 1) % Len(Cycle)) + 1, FALSE)
              => FreshAt(queue[1], Len(queue[1]) + 1, fresh)

(* The peer goes on in its cycle, or begins it anew. *)
LEMMA NextSlot ==
    ASSUME NEW n \in Nat, NEW m \in Nat, m > 0
    PROVE  (n + 1) % m = IF (n % m) + 1 = m THEN 0 ELSE (n % m) + 1
<1> DEFINE q == n \div m
           r == n % m
           q2 == (n + 1) \div m
           r2 == (n + 1) % m
<1>1. r \in 0..(m - 1) /\ r2 \in 0..(m - 1) /\ q \in Int /\ q2 \in Int
  OBVIOUS
<1>2. n = m * q + r /\ n + 1 = m * q2 + r2
  OBVIOUS
<1> HIDE DEF q, r, q2, r2
<1>3. m * q2 - m * q = (r + 1) - r2 /\ m * q2 \in Int /\ m * q \in Int
  BY <1>1, <1>2
<1>4. CASE q2 <= q - 1
  <2>1. m * q2 <= m * (q - 1)
    BY <1>1, <1>4
  <2>2. m * (q - 1) = m * q - m
    BY <1>1
  <2> QED
    BY <1>1, <1>3, <2>1, <2>2
<1>5. CASE q2 = q
  BY <1>1, <1>3, <1>5 DEF r, r2
<1>6. CASE q2 = q + 1
  <2>1. m * (q + 1) = m * q + m
    BY <1>1
  <2> QED
    BY <1>1, <1>3, <1>6, <2>1 DEF r, r2
<1>7. CASE q2 >= q + 2
  <2>1. m * q2 >= m * (q + 2)
    BY <1>1, <1>7
  <2>2. m * (q + 2) = m * q + 2 * m
    BY <1>1
  <2> QED
    BY <1>1, <1>3, <2>1, <2>2
<1> QED
  BY <1>1, <1>4, <1>5, <1>6, <1>7

(* A frame that is sent. *)
LEMMA HealthyPost ==
    ASSUME IInv, BInv, Healthy, nb_try <= 1, OneLink, NEW kind \in Kinds, Post(kind),
           kind = "Time" => FreshAt(queue[1], Len(queue[1]) + 1, fresh)
    PROVE  /\ Covered(queue'[1], fresh)
           /\ (kind # "Time" /\ FreshAt(queue[1], Len(queue[1]) + 1, fresh)) \/ kind = "GS_Data"
                 => FreshAt(queue'[1], Len(queue'[1]) + 1, fresh)
<1> DEFINE q == queue[1]
           u == queue'[1]
           n == Len(queue[1])
<1>1. 1 \in Links
  BY FirstLink
<1>2. /\ known[1] > 0 /\ queue' \in [Links -> Seq(Kinds)]
      /\ Len(u) = n + known[1]
      /\ \A i \in 1..n : u[i] = q[i]
      /\ \A i \in 1..known[1] : u[n + i] = kind
  BY <1>1, PostAdds
<1>3. known[1] = 1 /\ n \in Nat
  <2>1. known[1] \in 0..nb_try /\ nb_try \in Nat /\ queue[1] \in Seq(Kinds)
    BY <1>1 DEF BInv, BusTypeOK
  <2>2. known[1] \in Nat /\ known[1] > 0 /\ known[1] <= 1
    BY <1>2, <2>1
  <2> QED
    BY <2>1, <2>2
<1>4. Len(u) = n + 1 /\ u[n + 1] = kind
  BY <1>2, <1>3
<1>5. Covered(q, fresh)
  BY DEF Healthy
<1> HIDE DEF q, u, n
<1>6. /\ \A k \in 1..(n + 1) : k \in Nat /\ \A i \in 1..(k - 1) : i \in 1..n
      /\ \A k \in 1..(n + 1) : k \in 1..n \/ k = n + 1
      /\ n + 1 \in 1..(n + 1) /\ n + 1 \in Nat \ {0} /\ Len(q) = n
  BY <1>3 DEF q, n
<1>7. \A k \in 1..(n + 1) : FreshAt(q, k, fresh) => FreshAt(u, k, fresh)
  <2> SUFFICES ASSUME NEW k \in 1..(n + 1) PROVE FreshAt(q, k, fresh) => FreshAt(u, k, fresh)
    OBVIOUS
  <2>1. k \in Nat /\ \A i \in 1..(k - 1) : u[i] = q[i]
    BY <1>2, <1>6
  <2> QED
    BY <2>1, FreshPrefix
<1>8. kind = "Time" => FreshAt(q, n + 1, fresh)
  BY DEF q, n
<1>9. Covered(u, fresh)
  <2> SUFFICES ASSUME NEW k \in 1..(n + 1), u[k] = "Time" PROVE FreshAt(u, k, fresh)
    BY <1>4 DEF Covered
  <2>1. CASE k \in 1..n
    BY <1>2, <1>5, <1>6, <1>7, <2>1 DEF Covered
  <2>2. CASE k = n + 1
    BY <1>4, <1>6, <1>7, <1>8, <2>2
  <2> QED
    BY <1>6, <2>1, <2>2
<1>10. FreshAt(u, (n + 1) + 1, fresh) <=> u[n + 1] = "GS_Data" \/ (u[n + 1] # "Time" /\ FreshAt(u, n + 1, fresh))
  BY <1>6, FreshNext
<1>11. (kind # "Time" /\ FreshAt(q, n + 1, fresh)) \/ kind = "GS_Data" => FreshAt(u, (n + 1) + 1, fresh)
  BY <1>4, <1>6, <1>7, <1>10
<1> QED
  BY <1>4, <1>9, <1>11 DEF q, u, n

(* A link stays. *)
LEMMA KnownStays ==
    ASSUME BInv, BusNext \/ UNCHANGED busVars
    PROVE  \A l \in Links : known[l] > 0 => known'[l] > 0
<1>1. /\ known \in [Links -> 0..nb_try] /\ nb_try \in Nat /\ 0..nb_try \subseteq Nat
  BY DEF BInv, BusTypeOK
<1>2. CASE Connect
  <2>1. PICK c : known[c] = 0 /\ known' = [known EXCEPT ![c] = nb_try]
    BY <1>2 DEF Connect
  <2> QED
    BY <1>1, <2>1
<1>3. CASE LearnBindings
  <2>1. PICK c \in Links : known[c] \in 1..(nb_try - 1) /\ known' = [known EXCEPT ![c] = nb_try]
    BY <1>3 DEF LearnBindings
  <2>2. nb_try > 0
    BY <1>1, <2>1
  <2> QED
    BY <1>1, <2>1, <2>2
<1>4. CASE ~(Connect \/ LearnBindings)
  <2>1. known' = known
    BY <1>4 DEF BusNext, SendTraffic, SendRequest, Post, BusSelect, Dispatch, BusEndRound, Main,
                BusGone, Idle, bus, busVars
  <2> QED
    BY <2>1
<1> QED
  BY <1>2, <1>3, <1>4

(* In the cycle of the peer, a computation precedes each tick. *)
HealthyCycle == Covered(Cycle, FALSE)

LEMMA HealthyNext ==
    ASSUME Malformed = {}, HealthyCycle, IInv, BInv, Healthy, BusNext \/ UNCHANGED busVars
    PROVE  Healthy'
<1> SUFFICES ASSUME nb_try' <= 1, OneLink'
             PROVE  /\ modif'["roll_cmd"] >= 0 /\ ~warned'
                    /\ Covered(queue'[1], fresh')
                    /\ sent' > 0 /\ FreshAt(Cycle, ((sent' - 1) % Len(Cycle)) + 1, FALSE)
                          => FreshAt(queue'[1], Len(queue'[1]) + 1, fresh')
  BY DEF Healthy
<1>1. 1 \in Links /\ queue[1] \in Seq(Kinds) /\ sent \in Nat /\ nb_try \in Nat /\ fresh \in BOOLEAN
  BY FirstLink DEF BInv, IInv, TypeOK
<1>0. OneLink
  <2>1. \A l \in Links : known[l] > 0 => known'[l] > 0
    BY KnownStays
  <2>2. \A l \in Links : known[l] \in Nat
    BY <1>1 DEF BInv, BusTypeOK
  <2> QED
    BY <2>1, <2>2 DEF OneLink
<1>2. CASE UNCHANGED <<nb_try, modif, warned, queue, fresh, sent>>
  BY <1>0, <1>2 DEF Healthy
<1>3. CASE Connect \/ LearnBindings \/ BusSelect \/ BusEndRound \/ BusGone \/ Idle \/ UNCHANGED busVars
  BY <1>2, <1>3 DEF Connect, LearnBindings, BusSelect, Select, BusEndRound, EndRound, BusGone, Gone,
                    Idle, Jump, vars, bus, busVars, history
<1>4. CASE Main
  <2>1. CASE LeaveLoop \/ GiveUp
    BY <1>2, <1>4, <2>1 DEF Main, bus, LeaveLoop, GiveUp, Jump, history
  <2>2. CASE Start
    <3>1. /\ nb_try' = nb_try + 1 /\ ~warned' /\ modif' = error_init(modif)
          /\ UNCHANGED <<queue, sent>>
      BY <1>4, <2>2 DEF Main, bus, Start
    <3>2. nb_try = 0
      BY <1>1, <3>1
    <3>3. known[1] = 0
      BY <1>1, <3>2 DEF BInv, BusTypeOK
    <3>4. queue[1] = <<>> /\ sent = 0
      BY <1>1, <3>3 DEF BInv, BusTypeOK
    <3>5. modif'["roll_cmd"] = modif["roll_cmd"]
      BY <3>1 DEF error_init, ClearedAtStart, Params
    <3>6. Covered(<<>>, fresh')
      BY DEF Covered
    <3> QED
      BY <1>0, <3>1, <3>2, <3>4, <3>5, <3>6 DEF Healthy
  <2> QED
    BY <1>4, <2>1, <2>2 DEF Main
<1>5. ASSUME NEW kind \in Kinds, Post(kind)
      PROVE  nb_try <= 1 /\ UNCHANGED <<nb_try, modif, warned, fresh>>
  BY <1>5 DEF Post, vars
<1>6. CASE SendRequest
  <2>1. sent' = sent /\ Post("Restart_GUID_COMM") /\ "Restart_GUID_COMM" \in Kinds
    BY <1>6 DEF SendRequest, Kinds
  <2>2. nb_try <= 1 /\ UNCHANGED <<nb_try, modif, warned, fresh>>
    BY <1>5, <2>1
  <2>3. /\ Covered(queue'[1], fresh)
        /\ FreshAt(queue[1], Len(queue[1]) + 1, fresh) => FreshAt(queue'[1], Len(queue'[1]) + 1, fresh)
    BY <1>0, <2>1, <2>2, HealthyPost
  <2> QED
    BY <1>0, <2>1, <2>2, <2>3 DEF Healthy
<1>7. CASE SendTraffic
  <2> DEFINE kind == IF sent = 0 THEN "InitStateVector" ELSE Cycle[((sent - 1) % Len(Cycle)) + 1]
             k == ((sent - 1) % Len(Cycle)) + 1
  <2>1. sent' = sent + 1 /\ Post(kind)
    BY <1>7 DEF SendTraffic
  <2>2. kind \in Kinds /\ (sent > 0 => k \in 1..Len(Cycle))
    <3>1. Len(Cycle) \in Nat
      BY CycleAssumption
    <3>2. sent > 0 => (sent - 1) % Len(Cycle) \in 0..(Len(Cycle) - 1)
      BY <1>1, TrafficKinds
    <3> QED
      BY <1>1, <3>1, <3>2, TrafficKinds
  <2>3. sent = 0 => kind = "InitStateVector"
    OBVIOUS
  <2>4. sent > 0 => kind = Cycle[k]
    BY <1>1
  <2>5. /\ sent > 0 => (sent - 1) + 1 = sent /\ sent - 1 \in Nat
        /\ sent' - 1 = sent
    BY <1>1, <2>1
  <2>6. sent > 0 => sent % Len(Cycle) = IF k = Len(Cycle) THEN 0 ELSE k
    <3> SUFFICES ASSUME sent > 0 PROVE sent % Len(Cycle) = IF k = Len(Cycle) THEN 0 ELSE k
      OBVIOUS
    <3> DEFINE m == Len(Cycle)
               n == sent - 1
    <3>1. m \in Nat /\ m > 0 /\ n \in Nat /\ n + 1 = sent
      BY <2>5, CycleAssumption
    <3> HIDE DEF m, n
    <3>2. (n + 1) % m = IF (n % m) + 1 = m THEN 0 ELSE (n % m) + 1
      BY <3>1, NextSlot
    <3> QED
      BY <3>1, <3>2 DEF m, n
  <2>7. sent = 0 => sent % Len(Cycle) = 0
    <3> DEFINE m == Len(Cycle)
    <3>1. m \in Nat /\ m > 0
      BY CycleAssumption
    <3> HIDE DEF m
    <3>2. 0 % m = 0
      BY <3>1
    <3> QED
      BY <3>2 DEF m
  <2> HIDE DEF kind, k
  <2>8. nb_try <= 1 /\ UNCHANGED <<nb_try, modif, warned, fresh>>
    BY <1>5, <2>1, <2>2
  <2>9. sent > 0 /\ FreshAt(Cycle, k, FALSE) => FreshAt(queue[1], Len(queue[1]) + 1, fresh)
    BY <1>0, <2>8 DEF Healthy, k
  <2>10. kind = "Time" => FreshAt(queue[1], Len(queue[1]) + 1, fresh)
    <3> SUFFICES ASSUME kind = "Time" PROVE FreshAt(queue[1], Len(queue[1]) + 1, fresh)
      OBVIOUS
    <3>1. sent > 0
      <4>1. sent # 0
        BY <2>3
      <4> QED
        BY <1>1, <4>1
    <3>2. k \in 1..Len(Cycle) /\ Cycle[k] = "Time"
      BY <2>2, <2>4, <3>1
    <3>3. FreshAt(Cycle, k, FALSE)
      BY <3>2 DEF HealthyCycle, Covered
    <3> QED
      BY <2>9, <3>1, <3>3
  <2>11. /\ Covered(queue'[1], fresh)
         /\ (kind # "Time" /\ FreshAt(queue[1], Len(queue[1]) + 1, fresh)) \/ kind = "GS_Data"
               => FreshAt(queue'[1], Len(queue'[1]) + 1, fresh)
    BY <1>0, <2>1, <2>2, <2>8, <2>10, HealthyPost
  <2>12. ~FreshAt(Cycle, 0 + 1, FALSE)
    <3>1. 0 + 1 = 1 /\ FALSE \in BOOLEAN
      OBVIOUS
    <3>2. ~FreshAt(Cycle, 1, FALSE)
      BY <3>1, FreshFirst
    <3> QED
      BY <3>1, <3>2
  <2>13. ASSUME FreshAt(Cycle, (sent % Len(Cycle)) + 1, FALSE)
         PROVE  FreshAt(queue'[1], Len(queue'[1]) + 1, fresh)
    <3>1. sent > 0 /\ sent % Len(Cycle) = k /\ k \in Nat \ {0}
      <4>1. sent % Len(Cycle) # 0
        BY <2>12, <2>13
      <4>2. sent # 0
        BY <2>7, <4>1
      <4>3. sent > 0
        BY <1>1, <4>2
      <4>4. sent % Len(Cycle) = k
        BY <2>6, <4>1, <4>3
      <4>5. k \in 1..Len(Cycle) /\ Len(Cycle) \in Nat
        BY <2>2, <4>3, CycleAssumption
      <4> QED
        BY <4>3, <4>4, <4>5
    <3>2. FreshAt(Cycle, k + 1, FALSE)
      BY <2>13, <3>1
    <3>3. Cycle[k] = "GS_Data" \/ (Cycle[k] # "Time" /\ FreshAt(Cycle, k, FALSE))
      BY <3>1, <3>2, FreshNext
    <3> QED
      BY <2>4, <2>9, <2>11, <3>1, <3>3
  <2> QED
    BY <1>0, <2>5, <2>8, <2>11, <2>13 DEF Healthy
<1>8. CASE Dispatch
  <2>1. PICK c \in Links :
            /\ Served(c) /\ Handler(Head(queue[c]))
            /\ queue' = [queue EXCEPT ![c] = Tail(@)]
            /\ UNCHANGED <<known, sent, requests>>
    BY <1>8 DEF Dispatch
  <2>2. nb_try' = nb_try
    BY <2>1, CallbackStays
  <2>3. c = 1
    <3>1. due[c] > 0 /\ due[c] \in 0..Len(queue[c])
      BY <2>1 DEF Served, BInv, BusTypeOK
    <3>2. queue[c] # <<>>
      BY <3>1
    <3>3. known[c] > 0
      <4>1. known[c] \in 0..nb_try /\ known[c] # 0
        BY <3>2 DEF BInv, BusTypeOK
      <4> QED
        BY <1>1, <4>1
    <3>4. c \in Nat /\ c >= 1
      BY DEF Links
    <3> QED
      BY <1>0, <3>3, <3>4 DEF OneLink
  <2> DEFINE q == queue[1]
             t == Tail(queue[1])
             n == Len(queue[1])
  <2>4. /\ n \in Nat /\ n > 0 /\ Len(t) = n - 1 /\ Head(q) = q[1]
        /\ \A i \in 1..(n - 1) : t[i] = q[i + 1]
        /\ queue'[1] = t
    <3>1. due[1] > 0 /\ due[1] \in 0..n
      BY <1>1, <2>1, <2>3 DEF Served, BInv, BusTypeOK
    <3>2. q \in Seq(Kinds) /\ n = Len(q) /\ n > 0
      BY <1>1, <3>1
    <3>3. queue'[1] = t
      BY <1>1, <2>1, <2>3 DEF BInv
    <3> QED
      BY <3>2, <3>3
  <2>5. Handler(q[1])
    BY <2>1, <2>3, <2>4
  <2>6. /\ modif["roll_cmd"] >= 0 /\ ~warned /\ Covered(q, fresh) /\ n = Len(q)
        /\ sent > 0 /\ FreshAt(Cycle, ((sent - 1) % Len(Cycle)) + 1, FALSE) => FreshAt(q, n + 1, fresh)
    BY <1>0, <2>2 DEF Healthy
  <2> HIDE DEF q, t, n
  <2>7. q[1] = "Time" => fresh
    <3>1. q[1] = "Time" => FreshAt(q, 1, fresh)
      BY <2>4, <2>6 DEF Covered
    <3> QED
      BY <1>1, <3>1, FreshFirst
  <2>8. /\ modif'["roll_cmd"] >= 0 /\ ~warned'
        /\ q[1] = "GS_Data" => fresh'
        /\ q[1] # "Time" /\ fresh => fresh'
    BY <2>5, <2>6, <2>7, WellFormed
  <2>9. ASSUME NEW k \in 1..n, FreshAt(q, k + 1, fresh)
        PROVE  FreshAt(t, k, fresh')
    <3>1. k \in Nat \ {0} /\ \A i \in 1..(k - 1) : t[i] = q[i + 1]
      BY <2>4
    <3> QED
      BY <2>8, <2>9, <3>1, FreshTail
  <2>10. Covered(t, fresh')
    <3> SUFFICES ASSUME NEW k \in 1..(n - 1), t[k] = "Time" PROVE FreshAt(t, k, fresh')
      BY <2>4 DEF Covered
    <3>1. k \in 1..n /\ k + 1 \in 1..n /\ q[k + 1] = "Time"
      BY <2>4
    <3> QED
      BY <2>6, <2>9, <3>1 DEF Covered
  <2>11. FreshAt(q, n + 1, fresh) => FreshAt(t, Len(t) + 1, fresh')
    <3>1. n \in 1..n /\ Len(t) + 1 = n
      BY <2>4
    <3> QED
      BY <2>9, <3>1
  <2>12. sent' = sent
    BY <2>1
  <2> QED
    BY <2>4, <2>6, <2>8, <2>10, <2>11, <2>12
<1> QED
  BY <1>3, <1>4, <1>6, <1>7, <1>8 DEF BusNext

(* A peer that sends well formed messages over one link, and a deviation   *)
(* from the trajectory before each tick, never stops the first start, in   *)
(* whatever rounds the messages are read and whatever else its cycle has.  *)
(* A peer that started together with GUID-COMM is another matter           *)
(* (HealthyTrafficRunsAnyway).                                             *)
THEOREM HealthyTraffic ==
    ASSUME Malformed = {}, HealthyCycle
    PROVE  BusSpec => []HealthyTrafficRuns
<1>1. BusInit => IInv /\ BInv /\ Healthy
  <2> SUFFICES ASSUME BusInit PROVE IInv /\ BInv /\ Healthy
    OBVIOUS
  <2>1. IInv /\ BInv
    BY InitIInv, BInvInit DEF BusInit
  <2>2. /\ queue[1] = <<>> /\ sent = 0 /\ modif["roll_cmd"] = 1 /\ ~warned
    BY FirstLink DEF BusInit, Init, Params
  <2>3. Covered(<<>>, fresh)
    BY DEF Covered
  <2> QED
    BY <2>1, <2>2, <2>3 DEF Healthy
<1>2. IInv /\ BInv /\ Healthy /\ [BusNext]_busVars => (IInv /\ BInv /\ Healthy)'
  <2> SUFFICES ASSUME IInv, BInv, Healthy, [BusNext]_busVars
               PROVE  IInv' /\ BInv' /\ Healthy'
    OBVIOUS
  <2>1. IInv'
    BY BusStep, NextIInv
  <2> QED
    BY <2>1, BInvNext, HealthyNext
<1>3. IInv /\ Healthy => HealthyTrafficRuns
  BY DEF IInv, StoppedMeansWarned, Healthy, HealthyTrafficRuns
<1> QED
  BY <1>1, <1>2, <1>3, PTL DEF BusSpec
=============================================================================

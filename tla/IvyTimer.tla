------------------------------ MODULE IvyTimer ------------------------------
(***************************************************************************)
(* timer.c: the timers of the select() loop.                               *)
(*                                                                         *)
(* TimerScan() walks the list of timers twice: the first pass calls the    *)
(* callbacks of those that are due, the second one counts the call, sets   *)
(* the next time or frees the timer.  In between, a callback may create,   *)
(* change and remove timers, its own among them.                           *)
(***************************************************************************)
EXTENDS Integers, Sequences, SequencesExt, IvyList

CONSTANTS
    Timer,      \* the memory of the timers: a timer that was freed is not made again
    Counts,     \* the numbers of calls asked for; TIMER_LOOP may be one
    Delays,     \* the delays asked for, in milliseconds
    MaxNow,     \* a bound: the last millisecond
    MaxCalls,   \* a bound: the calls of the API
    MaxCalled   \* a bound: the history counts calls of a callback up to here

TIMER_LOOP == -1

ASSUME CountsAssumption == Counts \subseteq Nat \cup {TIMER_LOOP}
ASSUME DelaysAssumption == Delays \subseteq Nat
ASSUME BoundsAssumption == MaxNow \in Nat /\ MaxCalls \in Nat /\ MaxCalled \in Nat
(* The history is long enough for every count that is asked for.           *)
ASSUME CalledAssumption == \A count \in Counts : count <= MaxCalled

VARIABLES
    now,        \* gettimeofday()
    timers,     \* the list, latest first
    timer,      \* per timer: repeat, period, when, mark2Remove
    pc,         \* idle, asleep in select(), scan: first pass, callback
    stamp,      \* the time of the scan, 0 when there is none
    deadline,   \* when select() returns at the latest, Never without a timeout
    next,       \* the timers the first pass still has to look at
    calls,      \* the calls of the API so far
    (* History variables, read only to tell memory that was never used. *)
    asked,      \* per timer: the count it was created with
    called,     \* per timer: how often its callback was called
    odd         \* the timers that were changed, or made due in a scan

vars == <<now, timers, timer, pc, stamp, deadline, next, calls, asked, called, odd>>

Never == MaxNow + 1

Live == ToSet(timers)
Marked(t) == timer[t].mark2Remove

Due(t, time) == timer[t].when <= time /\ ~Marked(t)

Blank == [repeat |-> 0, period |-> 0, when |-> 0, mark2Remove |-> FALSE]

Init ==
    /\ now = 0
    /\ timers = <<>>
    /\ timer = [t \in Timer |-> Blank]
    /\ pc = "idle"
    /\ stamp = 0
    /\ deadline = Never
    /\ next = <<>>
    /\ calls = 0
    /\ asked = [t \in Timer |-> 0]
    /\ called = [t \in Timer |-> 0]
    /\ odd = {}

-----------------------------------------------------------------------------
(* The API, called by the callbacks of timers or, between two scans, by    *)
(* those of channels.                                                      *)

Running == pc \in {"idle", "callback"}

Calling ==
    /\ Running
    /\ calls < MaxCalls
    /\ calls' = calls + 1
    /\ UNCHANGED <<now, pc, stamp, deadline, next, called>>

(* A new timer goes to the head of the list: a scan under way, which has   *)
(* read its next one, does not see it.                                     *)
TimerRepeatAfter(t, count, delay) ==
    /\ Calling
    /\ t \notin Live
    /\ asked[t] = 0 /\ called[t] = 0
    /\ timers' = <<t>> \o timers
    /\ timer' = [timer EXCEPT ![t] =
                    [repeat |-> count, period |-> delay, when |-> now + delay,
                     mark2Remove |-> FALSE]]
    /\ asked' = [asked EXCEPT ![t] = count]
    /\ odd' = IF pc = "callback" /\ now + delay <= stamp THEN odd \cup {t} ELSE odd

(* Mutation of TimerRemove: the timer is taken from the list at once. *)
TimerRemoveNow(t) ==
    /\ Calling
    /\ t \in Live /\ ~Marked(t)
    /\ timers' = Without(timers, {t})
    /\ UNCHANGED <<timer, asked, odd>>

TimerRemove(t) ==
    /\ Calling
    /\ t \in Live /\ ~Marked(t)
    /\ timer' = [timer EXCEPT ![t].mark2Remove = TRUE]
    /\ UNCHANGED <<timers, asked, odd>>

(* Mutation of TimerModify: the two times are swapped. *)
TimerModifySwapped(t, delay) ==
    /\ Calling
    /\ t \in Live /\ ~Marked(t)
    /\ timer' = [timer EXCEPT ![t].period = now + delay, ![t].when = delay]
    /\ odd' = odd \cup {t}
    /\ UNCHANGED <<timers, asked>>

TimerModify(t, delay) ==
    /\ Calling
    /\ t \in Live /\ ~Marked(t)
    /\ timer' = [timer EXCEPT ![t].period = delay, ![t].when = now + delay]
    /\ odd' = odd \cup {t}
    /\ UNCHANGED <<timers, asked>>

-----------------------------------------------------------------------------
(* The loop *)

(* AdjTimeout(): the head of the list counts even when it is marked. *)
Soonest ==
    LET times == {timer[t].when : t \in {u \in Live : ~Marked(u) \/ u = Head(timers)}}
    IN  CHOOSE w \in times : \A v \in times : w <= v

(* Mutation of Sleep: the timeout is that of the latest timer alone. *)
SleepOnHead ==
    /\ pc = "idle"
    /\ pc' = "asleep"
    /\ deadline' = IF timers = <<>> THEN Never ELSE timer[Head(timers)].when
    /\ UNCHANGED <<now, timers, timer, stamp, next, calls, asked, called, odd>>

(* select(), with the timeout of TimerGetSmallestTimeout(). *)
Sleep ==
    /\ pc = "idle"
    /\ pc' = "asleep"
    /\ deadline' = IF timers = <<>> THEN Never ELSE Soonest
    /\ UNCHANGED <<now, timers, timer, stamp, next, calls, asked, called, odd>>

(* select() returns and TimerScan() reads the clock. *)
BeginScan ==
    /\ pc' = "scan"
    /\ stamp' = now
    /\ next' = timers
    /\ deadline' = Never
    /\ UNCHANGED <<now, timers, timer, calls, asked, called, odd>>

TimedOut == pc = "asleep" /\ now >= deadline /\ BeginScan

(* A descriptor is ready before the timeout. *)
InputReady == pc = "asleep" /\ BeginScan

(* First pass: a callback is called with the timer in hand. *)
CallBack ==
    /\ pc = "scan" /\ next # <<>>
    /\ Due(Head(next), stamp)
    /\ pc' = "callback"
    /\ called' = [called EXCEPT ![Head(next)] = IF @ < MaxCalled THEN @ + 1 ELSE @]
    /\ next' = Tail(next)
    /\ UNCHANGED <<now, timers, timer, stamp, deadline, calls, asked, odd>>

Return ==
    /\ pc = "callback"
    /\ pc' = "scan"
    /\ UNCHANGED <<now, timers, timer, stamp, deadline, next, calls, asked, called, odd>>

PassOver ==
    /\ pc = "scan" /\ next # <<>>
    /\ ~Due(Head(next), stamp)
    /\ next' = Tail(next)
    /\ UNCHANGED <<now, timers, timer, pc, stamp, deadline, calls, asked, called, odd>>

(* repeat == TIMER_LOOP || --repeat: nothing stops below 0. *)
Counted(t) == IF timer[t].repeat = TIMER_LOOP THEN TIMER_LOOP ELSE timer[t].repeat - 1

(* Mutation of Freed: repeat-- in the place of --repeat. *)
FreedLate(t) == Marked(t) \/ (timer[t].when <= stamp /\ timer[t].repeat = 0)

Freed(t) == Marked(t) \/ (timer[t].when <= stamp /\ Counted(t) = 0)

(* Second pass, without callbacks: it takes every timer whose time has     *)
(* come for one that was called.                                           *)
EndScan ==
    /\ pc = "scan" /\ next = <<>>
    /\ timers' = Without(timers, {t \in Live : Freed(t)})
    /\ timer' = [t \in Timer |->
                    IF t \in Live /\ Freed(t)
                    THEN [Blank EXCEPT !.mark2Remove = Marked(t)]
                    ELSE IF t \in Live /\ Due(t, stamp)
                    THEN [timer[t] EXCEPT !.repeat = Counted(t),
                                          !.when = stamp + timer[t].period]
                    ELSE timer[t]]
    /\ pc' = "idle"
    /\ stamp' = 0
    /\ UNCHANGED <<now, deadline, next, calls, asked, called, odd>>

Tick ==
    /\ now < MaxNow
    /\ now' = now + 1
    /\ UNCHANGED <<timers, timer, pc, stamp, deadline, next, calls, asked, called, odd>>

API ==
    \E t \in Timer :
        \/ \E count \in Counts, delay \in Delays : TimerRepeatAfter(t, count, delay)
        \/ TimerRemove(t)
        \/ \E delay \in Delays : TimerModify(t, delay)

Scan == TimedOut \/ CallBack \/ Return \/ PassOver \/ EndScan

Next == API \/ Sleep \/ InputReady \/ Scan \/ Tick

Spec == Init /\ [][Next]_vars

(* The process is scheduled, select() returns in time, callbacks return,   *)
(* and time goes on.                                                       *)
FairSpec ==
    /\ Spec
    /\ WF_vars(Sleep) /\ WF_vars(TimedOut) /\ WF_vars(CallBack) /\ WF_vars(Return)
    /\ WF_vars(PassOver) /\ WF_vars(EndScan) /\ WF_vars(Tick)

-----------------------------------------------------------------------------
(* Properties *)

TypeOK ==
    /\ now \in 0..MaxNow /\ stamp \in 0..now
    /\ timers \in Seq(Timer) /\ IsInjective(timers)
    /\ timer \in [Timer -> [repeat : Int, period : Delays \cup {0}, when : Nat,
                            mark2Remove : BOOLEAN]]
    /\ pc \in {"idle", "asleep", "scan", "callback"}
    /\ calls \in 0..MaxCalls
    /\ called \in [Timer -> 0..MaxCalled]
    /\ odd \subseteq Timer

(* The pointer the first pass has saved is never to a freed timer, and it  *)
(* leads to the rest of the list: callbacks that create and remove timers  *)
(* do not lead it astray (timer.c:161-169, TimerRemove:125-134).           *)
WalkIsSafe == IsSuffix(next, timers)

(* A timer that nobody changed, and that was not created with a time       *)
(* already due from inside a callback, has been called exactly as often as *)
(* its count went down; once its count is used up it is gone.  Both passes *)
(* agree on who was called (timer.c:161-186).                              *)
CallsAreCounted ==
    pc \in {"idle", "asleep"} =>
        \A t \in Live \ odd :
            /\ asked[t] > 0 => /\ timer[t].repeat > 0
                               /\ called[t] + timer[t].repeat = asked[t]
            /\ asked[t] = TIMER_LOOP => timer[t].repeat = TIMER_LOOP

(* While select() waits, no timer is due before the timeout it was given:  *)
(* AdjTimeout() has looked at every one of them (timer.c:75-94).           *)
NoTimerOversleeps ==
    pc = "asleep" => \A t \in Live : ~Marked(t) => deadline <= timer[t].when

(* A timer that is due is called, unless it is removed or changed first.   *)
DueIsCalled ==
    \A t \in Timer : \A n \in 0..(MaxCalled - 1) :
        (t \in Live /\ Due(t, now) /\ called[t] = n)
            ~> (called[t] > n \/ t \notin Live \/ Marked(t) \/ timer[t].when > now)

(* ivy-c.sgml:469 "ensures that function handle_timer is called nbticks    *)
(* times": a timer that is gone and was not removed has been called that   *)
(* often.  One created in a callback with delay 0 is counted and freed by  *)
(* the second pass before it was ever called.                              *)
CalledBeforeFreed ==
    \A t \in Timer : asked[t] > 0 /\ t \notin Live /\ ~Marked(t) => called[t] >= asked[t]
=============================================================================

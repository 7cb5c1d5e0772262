--------------------------- MODULE IvyTimerProofs ---------------------------
(***************************************************************************)
(* Proofs about IvyTimer, for every set of timers, counts and delays and   *)
(* every bound.                                                            *)
(***************************************************************************)
EXTENDS IvyTimer, IvyListProofs, TLAPS

Scanning == pc \in {"scan", "callback"}

(* The first pass of a scan still has to visit an end of the list.         *)
NextIsEnd ==
    /\ next \in Seq(Timer)
    /\ Ends(next, timers)
    /\ ~Scanning => next = <<>>

(* In a scan, a timer that was due when the first pass met it is called    *)
(* already and counted by the second pass only.                            *)
Ahead(t) ==
    IF Scanning /\ t \notin ToSet(next) /\ timer[t].when <= stamp THEN 1 ELSE 0

(* Calls and counts of a timer that nobody changed, of which a scan does   *)
(* not know yet that it was removed.                                       *)
CountsAgree ==
    \A t \in Live \ odd : (Scanning => ~Marked(t)) =>
        /\ asked[t] > 0 => /\ timer[t].repeat > 0
                           /\ called[t] + timer[t].repeat = asked[t] + Ahead(t)
        /\ asked[t] = TIMER_LOOP => timer[t].repeat = TIMER_LOOP

(* The inductive invariant. *)
IInv ==
    /\ TypeOK
    /\ asked \in [Timer -> Counts \cup {0}]
    /\ NextIsEnd
    /\ CountsAgree
    /\ NoTimerOversleeps

-----------------------------------------------------------------------------
(* What the invariant says of one timer. *)
LEMMA OfTimer ==
    ASSUME TypeOK, NEW t \in Timer
    PROVE  /\ timer[t].repeat \in Int /\ timer[t].when \in Nat
           /\ timer[t].period \in Delays \cup {0} /\ timer[t].period \in Nat
           /\ timer[t].mark2Remove \in BOOLEAN
           /\ called[t] \in 0..MaxCalled
<1>1. timer[t] \in [repeat : Int, period : Delays \cup {0}, when : Nat,
                    mark2Remove : BOOLEAN]
  BY DEF TypeOK
<1>2. timer[t].period \in Delays \cup {0}
  BY <1>1
<1>3. timer[t].period \in Nat
  <2>1. Delays \cup {0} \subseteq Nat
    BY DelaysAssumption
  <2> QED
    BY <1>2, <2>1, Zenon
<1> QED
  BY <1>1, <1>2, <1>3 DEF TypeOK

(* The calls asked for are within the bound of the history. *)
LEMMA OfAsked ==
    ASSUME IInv, NEW t \in Timer
    PROVE  asked[t] \in Int /\ (asked[t] > 0 => asked[t] <= MaxCalled)
<1>1. \A n \in Counts : n \in Int
  BY CountsAssumption DEF TIMER_LOOP
<1>2. \A n \in Counts \cup {0} : n \in Int /\ (n > 0 => n <= MaxCalled)
  BY <1>1, CalledAssumption
<1>3. asked[t] \in Counts \cup {0}
  BY DEF IInv
<1> QED
  BY <1>2, <1>3, Zenon

(* The list has no other members than timers, next none that it lacks. *)
LEMMA OfLists ==
    ASSUME IInv
    PROVE  /\ timers \in Seq(Timer) /\ IsInjective(timers)
           /\ next \in Seq(Timer) /\ IsInjective(next)
           /\ ToSet(next) \subseteq Live /\ Live \subseteq Timer
<1>1. timers \in Seq(Timer) /\ IsInjective(timers) /\ next \in Seq(Timer)
  BY DEF IInv, TypeOK, NextIsEnd
<1>2. Live \subseteq Timer
  BY <1>1 DEF Live, ToSet
<1> QED
  BY <1>1, <1>2, EndsIsPart DEF IInv, NextIsEnd, Live

(* No timer runs.                                                          *)
LEMMA InitKeeps == Init => IInv
<1> SUFFICES ASSUME Init PROVE IInv
  OBVIOUS
<1>1. Live = {} /\ IsInjective(timers)
  BY DEF Init, Live, ToSet, IsInjective
<1>2. TypeOK
  <2>1. timer \in [Timer -> [repeat : Int, period : Delays \cup {0}, when : Nat,
                             mark2Remove : BOOLEAN]]
    BY DEF Init, Blank
  <2> QED
    BY <1>1, <2>1, BoundsAssumption DEF Init, TypeOK
<1>3. NextIsEnd
  <2>1. <<>> \in Seq(Timer)
    OBVIOUS
  <2> QED
    BY <2>1, EndsOfList DEF Init, NextIsEnd
<1>4. CountsAgree /\ NoTimerOversleeps /\ asked \in [Timer -> Counts \cup {0}]
  BY <1>1 DEF Init, CountsAgree, NoTimerOversleeps
<1> QED
  BY <1>2, <1>3, <1>4 DEF IInv

-----------------------------------------------------------------------------
(* The API *)

(* A new timer was never called.  The scan under way does not see it, so   *)
(* it must not be due in it, or it is odd.                                 *)
LEMMA RepeatAfterKeeps ==
    ASSUME IInv, NEW t \in Timer, NEW count \in Counts, NEW delay \in Delays,
           TimerRepeatAfter(t, count, delay)
    PROVE  IInv'
<1>1. /\ pc \in {"idle", "callback"} /\ calls < MaxCalls /\ calls' = calls + 1
      /\ UNCHANGED <<now, pc, stamp, deadline, next, called>>
      /\ t \notin Live /\ asked[t] = 0 /\ called[t] = 0
      /\ timers' = <<t>> \o timers
      /\ timer' = [timer EXCEPT ![t] = [repeat |-> count, period |-> delay,
                                        when |-> now + delay, mark2Remove |-> FALSE]]
      /\ asked' = [asked EXCEPT ![t] = count]
      /\ odd' = IF pc = "callback" /\ now + delay <= stamp THEN odd \cup {t} ELSE odd
  BY DEF TimerRepeatAfter, Calling, Running
<1>2. /\ timers \in Seq(Timer) /\ IsInjective(timers) /\ next \in Seq(Timer)
      /\ ToSet(next) \subseteq Live /\ Live \subseteq Timer
  BY OfLists
<1>3. /\ timers' \in Seq(Timer) /\ IsInjective(timers')
      /\ Live' = Live \cup {t}
      /\ NextIsEnd'
  BY <1>1, <1>2, EndsOfLonger DEF IInv, NextIsEnd, Scanning, Live
<1>4. /\ now \in Nat /\ delay \in Nat /\ count \in Int
      /\ timer' \in [Timer -> [repeat : Int, period : Delays \cup {0}, when : Nat,
                               mark2Remove : BOOLEAN]]
      /\ timer'[t] = [repeat |-> count, period |-> delay, when |-> now + delay,
                      mark2Remove |-> FALSE]
      /\ \A u \in Timer : u # t => timer'[u] = timer[u] /\ asked'[u] = asked[u]
      /\ asked'[t] = count
  BY <1>1, BoundsAssumption, DelaysAssumption, CountsAssumption DEF IInv, TypeOK, TIMER_LOOP
<1>5. TypeOK' /\ (asked \in [Timer -> Counts \cup {0}])'
  BY <1>1, <1>3, <1>4, BoundsAssumption DEF IInv, TypeOK
<1>6. CountsAgree'
  <2> SUFFICES ASSUME NEW u \in Live', u \notin odd',
                      Scanning => ~timer'[u].mark2Remove
               PROVE  /\ asked'[u] > 0 => /\ timer'[u].repeat > 0
                                          /\ called[u] + timer'[u].repeat = asked'[u] + Ahead(u)'
                      /\ asked'[u] = TIMER_LOOP => timer'[u].repeat = TIMER_LOOP
    BY <1>1 DEF CountsAgree, Scanning, Marked
  <2>1. CASE u = t
    <3>1. t \notin ToSet(next)
      BY <1>1, <1>2
    <3>2. Ahead(t)' = 0
      BY <1>1, <1>4, <2>1 DEF Ahead, Scanning, IInv, TypeOK
    <3> QED
      BY <1>1, <1>4, <2>1, <3>2
  <2>2. CASE u # t
    <3>1. u \in Live \ odd
      BY <1>1, <1>3, <2>2
    <3>2. timer'[u] = timer[u] /\ asked'[u] = asked[u] /\ Ahead(u)' = Ahead(u)
      BY <1>1, <1>2, <1>4, <2>2, <3>1 DEF Ahead, Scanning
    <3> QED
      BY <3>1, <3>2 DEF IInv, CountsAgree, Marked
  <2> QED
    BY <2>1, <2>2
<1>7. NoTimerOversleeps'
  BY <1>1 DEF NoTimerOversleeps
<1> QED
  BY <1>3, <1>5, <1>6, <1>7 DEF IInv

(* A timer is marked, or changed and so odd. *)
LEMMA ChangeKeeps ==
    ASSUME IInv, NEW t \in Timer,
           TimerRemove(t) \/ \E delay \in Delays : TimerModify(t, delay)
    PROVE  IInv'
<1>1. /\ pc \in {"idle", "callback"} /\ calls < MaxCalls /\ calls' = calls + 1
      /\ UNCHANGED <<now, pc, stamp, deadline, next, called, timers, asked>>
      /\ t \in Live
  BY DEF TimerRemove, TimerModify, Calling, Running
<1>2. Live' = Live
  BY <1>1 DEF Live
<1>3. /\ timer' \in [Timer -> [repeat : Int, period : Delays \cup {0}, when : Nat,
                               mark2Remove : BOOLEAN]]
      /\ odd' \subseteq Timer /\ odd \subseteq odd'
      /\ \A u \in Timer : u # t => timer'[u] = timer[u]
      /\ \/ t \in odd'
         \/ /\ timer'[t].when = timer[t].when /\ timer'[t].repeat = timer[t].repeat
            /\ timer'[t].mark2Remove
            /\ ~timer[t].mark2Remove
  <2>1. CASE TimerRemove(t)
    BY <2>1 DEF TimerRemove, IInv, TypeOK, Marked
  <2>2. ASSUME NEW delay \in Delays, TimerModify(t, delay)
        PROVE  <1>3
    <3>1. now + delay \in Nat
      BY DelaysAssumption DEF IInv, TypeOK
    <3>2. /\ timer' = [timer EXCEPT ![t].period = delay, ![t].when = now + delay]
          /\ odd' = odd \cup {t}
      BY <2>2 DEF TimerModify
    <3>3. timer \in [Timer -> [repeat : Int, period : Delays \cup {0}, when : Nat,
                               mark2Remove : BOOLEAN]]
      BY DEF IInv, TypeOK
    <3>4. timer' \in [Timer -> [repeat : Int, period : Delays \cup {0}, when : Nat,
                                mark2Remove : BOOLEAN]]
      BY <3>1, <3>2, <3>3
    <3>5. \A u \in Timer : u # t => timer'[u] = timer[u]
      BY <3>2, <3>3
    <3> QED
      BY <3>2, <3>4, <3>5 DEF IInv, TypeOK
  <2> QED
    BY <2>1, <2>2
<1>4. TypeOK' /\ NextIsEnd'
  <2>1. calls' \in 0..MaxCalls
    BY <1>1, BoundsAssumption DEF IInv, TypeOK
  <2>2. TypeOK'
    BY <1>1, <1>3, <2>1 DEF IInv, TypeOK
  <2> QED
    BY <1>1, <2>2 DEF IInv, NextIsEnd, Scanning
<1>5. CountsAgree'
  <2> SUFFICES ASSUME NEW u \in Live, u \notin odd',
                      Scanning => ~timer'[u].mark2Remove
               PROVE  /\ asked[u] > 0 => /\ timer'[u].repeat > 0
                                         /\ called[u] + timer'[u].repeat = asked[u] + Ahead(u)'
                      /\ asked[u] = TIMER_LOOP => timer'[u].repeat = TIMER_LOOP
    BY <1>1, <1>2 DEF CountsAgree, Scanning, Marked
  <2>1. u \in Timer /\ u \in Live \ odd
    BY <1>3, OfLists
  <2>2. /\ timer'[u].repeat = timer[u].repeat
        /\ timer'[u].when = timer[u].when
        /\ Scanning => ~timer[u].mark2Remove
    BY <1>3, <2>1
  <2>3. Ahead(u)' = Ahead(u)
    BY <1>1, <2>2 DEF Ahead, Scanning
  <2> QED
    BY <2>1, <2>2, <2>3 DEF IInv, CountsAgree, Marked
<1>6. NoTimerOversleeps'
  BY <1>1 DEF NoTimerOversleeps
<1> QED
  BY <1>1, <1>4, <1>5, <1>6 DEF IInv

-----------------------------------------------------------------------------
(* The loop *)

(* The timeout is the least time of a timer that is not marked, or of the  *)
(* head of the list.                                                       *)
LEMMA SleepKeeps ==
    ASSUME IInv, Sleep
    PROVE  IInv'
<1>1. /\ pc = "idle" /\ pc' = "asleep"
      /\ deadline' = IF timers = <<>> THEN Never ELSE Soonest
      /\ UNCHANGED <<now, timers, timer, stamp, next, calls, asked, called, odd>>
  BY DEF Sleep
<1>2. Live' = Live
  BY <1>1 DEF Live
<1>3. TypeOK' /\ NextIsEnd'
  BY <1>1 DEF IInv, TypeOK, NextIsEnd, Scanning
<1>4. CountsAgree'
  BY <1>1, <1>2 DEF IInv, CountsAgree, Scanning, Ahead, Marked
<1>5. NoTimerOversleeps'
  <2> SUFFICES ASSUME NEW t \in Live, ~Marked(t)
               PROVE  deadline' <= timer[t].when
    BY <1>1, <1>2 DEF NoTimerOversleeps, Marked
  <2> DEFINE times == {timer[u].when : u \in {v \in Live : ~Marked(v) \/ v = Head(timers)}}
  <2>1. timers # <<>>
    BY DEF Live, ToSet
  <2>2. times \subseteq Nat /\ timer[t].when \in times
    BY OfTimer, OfLists DEF IInv
  <2>3. \E w \in times : \A v \in times : w <= v
    BY <2>2, LeastNatural
  <2>4. Soonest \in times /\ \A v \in times : Soonest <= v
    BY <2>3, Zenon DEF Soonest
  <2> QED
    BY <1>1, <2>1, <2>2, <2>4
<1> QED
  BY <1>1, <1>3, <1>4, <1>5 DEF IInv

(* No timer of the list is ahead when a scan begins. *)
LEMMA BeginKeeps ==
    ASSUME IInv, pc = "asleep", BeginScan
    PROVE  IInv'
<1>1. /\ pc' = "scan" /\ stamp' = now /\ next' = timers
      /\ UNCHANGED <<now, timers, timer, calls, asked, called, odd>>
  BY DEF BeginScan
<1>2. Live' = Live /\ ToSet(next)' = Live
  BY <1>1 DEF Live
<1>3. TypeOK'
  BY <1>1 DEF IInv, TypeOK
<1>4. NextIsEnd'
  BY <1>1, EndsOfList DEF IInv, TypeOK, NextIsEnd, Scanning
<1>5. CountsAgree'
  <2>1. ~Scanning
    BY DEF Scanning
  <2>2. \A t \in Live : Ahead(t) = 0 /\ Ahead(t)' = 0
    BY <1>2, <2>1 DEF Ahead
  <2> QED
    BY <1>1, <1>2, <2>1, <2>2 DEF IInv, CountsAgree, Marked
<1>6. NoTimerOversleeps'
  BY <1>1 DEF NoTimerOversleeps
<1> QED
  BY <1>1, <1>3, <1>4, <1>5, <1>6 DEF IInv

(* What the visit of a timer leaves of the list. *)
LEMMA VisitLeaves ==
    ASSUME IInv, next # <<>>, next' = Tail(next), timers' = timers, Scanning'
    PROVE  /\ Head(next) \in Live /\ Head(next) \in Timer
           /\ Head(next) \in ToSet(next) /\ Head(next) \notin ToSet(next')
           /\ \A t \in Timer : t # Head(next) => (t \in ToSet(next') <=> t \in ToSet(next))
           /\ NextIsEnd'
<1>1. /\ next \in Seq(Timer) /\ IsInjective(next) /\ timers \in Seq(Timer)
      /\ ToSet(next) \subseteq Live /\ Live \subseteq Timer
  BY OfLists
<1>2. /\ Head(next) \in ToSet(next)
      /\ Tail(next) \in Seq(Timer)
      /\ ToSet(next) = ToSet(Tail(next)) \cup {Head(next)}
      /\ Head(next) \notin ToSet(Tail(next))
      /\ Ends(Tail(next), timers)
  BY <1>1, EndsTail DEF IInv, NextIsEnd
<1> QED
  BY <1>1, <1>2 DEF NextIsEnd

(* The timer that is called is ahead from now on. *)
LEMMA CallBackKeeps ==
    ASSUME IInv, CallBack
    PROVE  IInv'
<1> DEFINE t == Head(next)
<1>1. /\ pc = "scan" /\ pc' = "callback" /\ next # <<>> /\ next' = Tail(next)
      /\ called' = [called EXCEPT ![t] = IF @ < MaxCalled THEN @ + 1 ELSE @]
      /\ UNCHANGED <<now, timers, timer, stamp, deadline, calls, asked, odd>>
      /\ timer[t].when <= stamp /\ ~timer[t].mark2Remove
  BY DEF CallBack, Due, Marked
<1>2. /\ t \in Live /\ t \in Timer
      /\ t \in ToSet(next) /\ t \notin ToSet(next')
      /\ \A u \in Timer : u # t => (u \in ToSet(next') <=> u \in ToSet(next))
      /\ NextIsEnd'
  BY <1>1, VisitLeaves DEF Scanning
<1>3. Live' = Live /\ Live \subseteq Timer
  BY <1>1, OfLists DEF Live
<1> HIDE DEF t
<1>4. /\ called' \in [Timer -> 0..MaxCalled]
      /\ \A u \in Timer : u # t => called'[u] = called[u]
      /\ called[t] < MaxCalled => called'[t] = called[t] + 1
  BY <1>1, <1>2, BoundsAssumption DEF IInv, TypeOK
<1>5. TypeOK'
  BY <1>1, <1>4 DEF IInv, TypeOK
<1>6. CountsAgree'
  <2> SUFFICES ASSUME NEW u \in Live \ odd, ~timer[u].mark2Remove
               PROVE  /\ asked[u] > 0 => /\ timer[u].repeat > 0
                                         /\ called'[u] + timer[u].repeat = asked[u] + Ahead(u)'
                      /\ asked[u] = TIMER_LOOP => timer[u].repeat = TIMER_LOOP
    BY <1>1, <1>3 DEF CountsAgree, Scanning, Marked
  <2>1. /\ asked[u] > 0 => /\ timer[u].repeat > 0
                           /\ called[u] + timer[u].repeat = asked[u] + Ahead(u)
        /\ asked[u] = TIMER_LOOP => timer[u].repeat = TIMER_LOOP
    BY DEF IInv, CountsAgree, Marked
  <2>2. CASE u = t
    <3>1. Ahead(u) = 0 /\ Ahead(u)' = 1
      BY <1>1, <1>2, <2>2 DEF Ahead, Scanning
    <3>2. asked[u] > 0 => called[u] < MaxCalled
      <4> SUFFICES ASSUME asked[u] > 0 PROVE called[u] < MaxCalled
        OBVIOUS
      <4>1. asked[u] \in Int /\ asked[u] <= MaxCalled
        BY <1>2, <2>2, OfAsked
      <4>2. timer[u].repeat \in Int /\ called[u] \in Int /\ MaxCalled \in Int
        BY <1>2, <2>2, OfTimer, BoundsAssumption DEF IInv
      <4> QED
        BY <2>1, <3>1, <4>1, <4>2
    <3>3. timer[u].repeat \in Int /\ called[u] \in Int /\ asked[u] \in Int
      BY <1>2, <2>2, OfTimer, OfAsked DEF IInv
    <3> QED
      BY <1>4, <2>1, <2>2, <3>1, <3>2, <3>3
  <2>3. CASE u # t
    <3>1. Ahead(u)' = Ahead(u) /\ called'[u] = called[u]
      BY <1>1, <1>2, <1>3, <1>4, <2>3 DEF Ahead, Scanning
    <3> QED
      BY <2>1, <3>1
  <2> QED
    BY <2>2, <2>3
<1>7. NoTimerOversleeps'
  BY <1>1 DEF NoTimerOversleeps
<1> QED
  BY <1>1, <1>2, <1>5, <1>6, <1>7 DEF IInv

(* A timer that is passed over is marked, or not due and so not ahead. *)
LEMMA PassOverKeeps ==
    ASSUME IInv, PassOver
    PROVE  IInv'
<1> DEFINE t == Head(next)
<1>1. /\ pc = "scan" /\ next # <<>> /\ next' = Tail(next)
      /\ UNCHANGED <<now, timers, timer, pc, stamp, deadline, calls, asked, called, odd>>
      /\ ~(timer[t].when <= stamp) \/ timer[t].mark2Remove
  BY DEF PassOver, Due, Marked
<1>2. /\ t \in Live /\ t \in Timer
      /\ t \in ToSet(next) /\ t \notin ToSet(next')
      /\ \A u \in Timer : u # t => (u \in ToSet(next') <=> u \in ToSet(next))
      /\ NextIsEnd'
  BY <1>1, VisitLeaves DEF Scanning
<1>3. Live' = Live /\ Live \subseteq Timer
  BY <1>1, OfLists DEF Live
<1> HIDE DEF t
<1>4. TypeOK'
  BY <1>1 DEF IInv, TypeOK
<1>5. CountsAgree'
  <2> SUFFICES ASSUME NEW u \in Live \ odd, ~timer[u].mark2Remove
               PROVE  Ahead(u)' = Ahead(u)
    BY <1>1, <1>3 DEF IInv, CountsAgree, Scanning, Marked
  <2> QED
    BY <1>1, <1>2, <1>3 DEF Ahead, Scanning
<1>6. NoTimerOversleeps'
  BY <1>1 DEF NoTimerOversleeps
<1> QED
  BY <1>1, <1>2, <1>4, <1>5, <1>6 DEF IInv

(* A callback returns, or time goes on. *)
LEMMA WaitKeeps ==
    ASSUME IInv, Return \/ Tick
    PROVE  IInv'
<1>1. /\ Scanning' = Scanning /\ (pc = "asleep") = (pc' = "asleep")
      /\ pc' \in {"idle", "asleep", "scan", "callback"}
      /\ now \in 0..MaxNow => now' \in 0..MaxNow /\ now <= now'
      /\ UNCHANGED <<timers, timer, stamp, deadline, next, calls, asked, called, odd>>
  BY BoundsAssumption DEF Return, Tick, Scanning, IInv, TypeOK
<1>2. Live' = Live /\ \A t \in Live : Ahead(t)' = Ahead(t)
  BY <1>1 DEF Live, Ahead
<1>3. TypeOK'
  BY <1>1, BoundsAssumption DEF IInv, TypeOK
<1>4. NextIsEnd' /\ CountsAgree'
  BY <1>1, <1>2 DEF IInv, NextIsEnd, CountsAgree, Marked
<1>5. NoTimerOversleeps'
  BY <1>1, <1>2 DEF IInv, NoTimerOversleeps, Marked
<1> QED
  BY <1>1, <1>3, <1>4, <1>5 DEF IInv

(* The second pass counts the calls of the timers that are ahead: it meets *)
(* those that are due and not marked.                                      *)
LEMMA EndScanKeeps ==
    ASSUME IInv, EndScan
    PROVE  IInv'
<1> DEFINE gone == {t \in Live : Freed(t)}
<1>1. /\ pc = "scan" /\ pc' = "idle" /\ next = <<>> /\ stamp' = 0
      /\ timers' = Without(timers, gone)
      /\ UNCHANGED <<now, deadline, next, calls, asked, called, odd>>
  BY DEF EndScan
<1>2. timer' = [t \in Timer |->
                  IF t \in Live /\ Freed(t)
                  THEN [Blank EXCEPT !.mark2Remove = Marked(t)]
                  ELSE IF t \in Live /\ Due(t, stamp)
                  THEN [timer[t] EXCEPT !.repeat = Counted(t),
                                        !.when = stamp + timer[t].period]
                  ELSE timer[t]]
  BY DEF EndScan
<1>3. /\ timers' \in Seq(Timer) /\ IsInjective(timers')
      /\ Live' = Live \ gone
      /\ Live \subseteq Timer
  BY <1>1, OfLists, WithoutProperties DEF Live
<1>4. stamp \in Nat
  BY DEF IInv, TypeOK
<1>5. TypeOK'
  <2>1. ASSUME NEW t \in Timer
        PROVE  timer'[t] \in [repeat : Int, period : Delays \cup {0}, when : Nat,
                              mark2Remove : BOOLEAN]
    <3>1. timer[t] \in [repeat : Int, period : Delays \cup {0}, when : Nat,
                        mark2Remove : BOOLEAN]
      BY DEF IInv, TypeOK
    <3>2. /\ timer[t].mark2Remove \in BOOLEAN
          /\ Counted(t) \in Int /\ stamp + timer[t].period \in Nat
      BY <1>4, OfTimer DEF IInv, Counted, TIMER_LOOP
    <3>3. CASE t \in Live /\ Freed(t)
      <4>1. timer'[t] = [Blank EXCEPT !.mark2Remove = Marked(t)]
        BY <1>2, <3>3
      <4> QED
        BY <3>2, <4>1 DEF Blank, Marked
    <3>4. CASE ~(t \in Live /\ Freed(t)) /\ t \in Live /\ Due(t, stamp)
      <4>1. timer'[t] = [timer[t] EXCEPT !.repeat = Counted(t),
                                         !.when = stamp + timer[t].period]
        BY <1>2, <3>4
      <4> QED
        BY <3>1, <3>2, <4>1
    <3>5. CASE ~(t \in Live /\ Freed(t)) /\ ~(t \in Live /\ Due(t, stamp))
      BY <1>2, <3>1, <3>5
    <3> QED
      BY <3>3, <3>4, <3>5
  <2>2. timer' \in [Timer -> [repeat : Int, period : Delays \cup {0}, when : Nat,
                              mark2Remove : BOOLEAN]]
    <3>1. DOMAIN timer' = Timer /\ timer' = [t \in Timer |-> timer'[t]]
      BY <1>2
    <3> HIDE <1>2
    <3> QED
      BY <2>1, <3>1
  <2> QED
    BY <1>1, <1>3, <2>2 DEF IInv, TypeOK
<1>6. NextIsEnd'
  BY <1>1, <1>3, EndsOfList DEF IInv, NextIsEnd, Scanning
<1>7. CountsAgree'
  <2> SUFFICES ASSUME NEW t \in Live', t \notin odd
               PROVE  /\ asked[t] > 0 => /\ timer'[t].repeat > 0
                                         /\ called[t] + timer'[t].repeat = asked[t]
                      /\ asked[t] = TIMER_LOOP => timer'[t].repeat = TIMER_LOOP
    <3>1. ~Scanning' /\ \A u \in Timer : Ahead(u)' = 0
      BY <1>1 DEF Scanning, Ahead
    <3>2. asked \in [Timer -> Counts \cup {0}] /\ \A u \in Timer : asked[u] + 0 = asked[u]
      BY OfAsked DEF IInv
    <3> QED
      BY <1>1, <1>3, <3>1, <3>2 DEF CountsAgree
  <2>1. /\ t \in Live /\ t \in Timer
        /\ ~timer[t].mark2Remove
        /\ timer[t].when <= stamp => Counted(t) # 0
    BY <1>3 DEF Freed, Marked
  <2>2. /\ asked[t] > 0 => /\ timer[t].repeat > 0
                           /\ called[t] + timer[t].repeat = asked[t] + Ahead(t)
        /\ asked[t] = TIMER_LOOP => timer[t].repeat = TIMER_LOOP
    BY <2>1 DEF IInv, CountsAgree, Marked
  <2>3. t \notin ToSet(next)
    BY <1>1 DEF ToSet
  <2>4. /\ timer[t].repeat \in Int /\ called[t] \in Int /\ asked[t] \in Int
    BY <2>1, OfTimer, OfAsked DEF IInv
  <2>5. CASE timer[t].when <= stamp
    <3>1. Ahead(t) = 1
      BY <1>1, <2>3, <2>5 DEF Ahead, Scanning
    <3>2. timer'[t] = [timer[t] EXCEPT !.repeat = Counted(t),
                                       !.when = stamp + timer[t].period]
      BY <1>2, <2>1, <2>5 DEF Freed, Due, Marked
    <3>3. timer[t] \in [repeat : Int, period : Delays \cup {0}, when : Nat,
                        mark2Remove : BOOLEAN]
      BY <2>1 DEF IInv, TypeOK
    <3>4. timer'[t].repeat = Counted(t)
      BY <3>2, <3>3
    <3> QED
      BY <2>1, <2>2, <2>4, <2>5, <3>1, <3>4 DEF Counted, TIMER_LOOP
  <2>6. CASE ~(timer[t].when <= stamp)
    <3>1. Ahead(t) = 0
      BY <2>6 DEF Ahead
    <3>2. timer'[t] = timer[t]
      BY <1>2, <2>1, <2>6 DEF Freed, Due, Marked
    <3> QED
      BY <2>2, <2>4, <3>1, <3>2
  <2> QED
    BY <2>5, <2>6
<1>8. NoTimerOversleeps'
  BY <1>1 DEF NoTimerOversleeps
<1> QED
  BY <1>1, <1>5, <1>6, <1>7, <1>8 DEF IInv

(* Every step keeps the invariant.                                         *)
LEMMA StepKeeps == IInv /\ [Next]_vars => IInv'
<1> SUFFICES ASSUME IInv, [Next]_vars PROVE IInv'
  OBVIOUS
<1>1. CASE API
  BY <1>1, RepeatAfterKeeps, ChangeKeeps DEF API
<1>2. CASE Sleep
  BY <1>2, SleepKeeps
<1>3. CASE InputReady \/ TimedOut
  BY <1>3, BeginKeeps DEF InputReady, TimedOut
<1>4. CASE CallBack
  BY <1>4, CallBackKeeps
<1>5. CASE PassOver
  BY <1>5, PassOverKeeps
<1>6. CASE EndScan
  BY <1>6, EndScanKeeps
<1>7. CASE Return \/ Tick
  BY <1>7, WaitKeeps
<1>8. CASE UNCHANGED vars
  <2>1. Live' = Live /\ \A t \in Live : Ahead(t)' = Ahead(t)
    BY <1>8 DEF vars, Live, Ahead, Scanning
  <2>2. TypeOK' /\ NextIsEnd' /\ CountsAgree' /\ NoTimerOversleeps'
    BY <1>8, <2>1 DEF vars, IInv, TypeOK, NextIsEnd, CountsAgree, NoTimerOversleeps,
                      Scanning, Marked
  <2> QED
    BY <1>8, <2>2 DEF vars, IInv
<1> QED
  BY <1>1, <1>2, <1>3, <1>4, <1>5, <1>6, <1>7, <1>8 DEF Next, Scan

(* The invariant holds at any time, whatever the callbacks do (timer.c).   *)
THEOREM Invariance == Spec => []IInv
BY InitKeeps, StepKeeps, PTL DEF Spec

(* Times, counts and lists have their types, and no timer is in the list   *)
(* twice (timer.c:34-56).                                                  *)
THEOREM Typing == Spec => []TypeOK
<1>1. IInv => TypeOK
  BY DEF IInv
<1> QED
  BY <1>1, Invariance, PTL

(* The pointer to the next timer, which TimerScan() has read before it     *)
(* calls a callback, leads along the list to its end (timer.c:161-169).    *)
THEOREM WalksAreSafe == Spec => []WalkIsSafe
<1>1. IInv => WalkIsSafe
  BY SuffixIsEnd DEF IInv, TypeOK, NextIsEnd, WalkIsSafe
<1> QED
  BY <1>1, Invariance, PTL

(* The second pass of TimerScan() counts for every timer the calls that    *)
(* the first pass has made, and no other (timer.c:161-186).                *)
THEOREM CallsAlwaysCounted == Spec => []CallsAreCounted
<1>1. IInv => CallsAreCounted
  <2> SUFFICES ASSUME IInv, pc \in {"idle", "asleep"}, NEW t \in Live \ odd
               PROVE  /\ asked[t] > 0 => /\ timer[t].repeat > 0
                                         /\ called[t] + timer[t].repeat = asked[t]
                      /\ asked[t] = TIMER_LOOP => timer[t].repeat = TIMER_LOOP
    BY DEF CallsAreCounted
  <2>1. ~Scanning /\ Ahead(t) = 0
    BY DEF Scanning, Ahead
  <2>2. asked[t] \in Int
    BY OfLists, OfAsked
  <2> QED
    BY <2>1, <2>2 DEF IInv, CountsAgree
<1> QED
  BY <1>1, Invariance, PTL

(* AdjTimeout() finds the earliest timer: select() is never given a        *)
(* timeout that ends after one is due (timer.c:75-94).                     *)
THEOREM SelectWakesInTime == Spec => []NoTimerOversleeps
<1>1. IInv => NoTimerOversleeps
  BY DEF IInv
<1> QED
  BY <1>1, Invariance, PTL
=============================================================================

--------------------------- MODULE IvyLoopProofs ---------------------------
(***************************************************************************)
(* Proofs about IvyLoop, for every set of channels and of descriptors.     *)
(***************************************************************************)
EXTENDS IvyLoop, IvyListProofs, TLAPS

Walks == {"deferred", "read", "write"}

(* Where the loop is, and whose handler it has called. *)
LoopState ==
    /\ inCall = (channel # None \/ phase \in {"before", "timers"})
    /\ channel # None => phase \in Walks /\ channel \in Listed \ ToSet(next)
    /\ phase \notin Walks => next = <<>>

(* What a walk still has to visit is the end of the list. *)
NextIsEnd == Ends(next, channels_list)

(* What handle_delete was called for was a channel once, and leaves the    *)
(* list when it returns.                                                   *)
DeletedOnce ==
    \A c \in Channel : finalized[c] > 0 =>
        /\ finalized[c] = 1
        /\ c \in made
        /\ c \in Listed => phase = "deferred" /\ channel = c

(* Until the walk of the writers begins, nobody stops to wait. *)
AnswersKept ==
    /\ made \subseteq Channel
    /\ ready.wr \subseteq Fd
    /\ phase \in {"timers", "read"} => ready.wr \subseteq wrdy_fds

(* The inductive invariant. *)
IInv ==
    /\ TypeOK
    /\ LoopState
    /\ NextIsEnd
    /\ DeletedOnce
    /\ SetsMatchList
    /\ AnswersKept
    /\ WritesAreWaitedFor

-----------------------------------------------------------------------------
(* The list is empty, and so are the sets.                                 *)
LEMMA InitKeeps == Init => IInv
<1> SUFFICES ASSUME Init PROVE IInv
  OBVIOUS
<1>1. Listed = {} /\ ToSet(next) = {} /\ IsInjective(channels_list)
  BY DEF Init, Listed, ToSet, IsInjective
<1>2. TypeOK
  BY <1>1, FdAssumption DEF Init, TypeOK, Phases
<1>3. LoopState /\ DeletedOnce
  <2>1. LoopState
    BY Zenon DEF Init, LoopState, Walks
  <2>2. \A c \in Channel : finalized[c] = 0
    BY DEF Init
  <2> QED
    BY <2>1, <2>2 DEF DeletedOnce
<1>4. NextIsEnd
  <2>1. <<>> \in Seq(Channel)
    OBVIOUS
  <2> QED
    BY <2>1, EndsOfList DEF Init, NextIsEnd
<1>5. SetsMatchList /\ AnswersKept /\ WritesAreWaitedFor
  BY <1>1 DEF Init, SetsMatchList, FdsOf, AnswersKept, Nothing, WritesAreWaitedFor
<1> QED
  BY <1>2, <1>3, <1>4, <1>5 DEF IInv

-----------------------------------------------------------------------------
(* The API *)

(* A new channel has a descriptor of its own and joins no walk. *)
LEMMA AddKeeps ==
    ASSUME IInv, NEW c \in Channel, NEW f \in Fd, IvyChannelAdd(c, f)
    PROVE  IInv'
<1>1. /\ UNCHANGED <<phase, inCall, channel, next, ready, finalized, tobedeleted, wrdy_fds>>
      /\ c \notin made /\ f \notin system
      /\ made' = made \cup {c} /\ system' = system \cup {f}
      /\ channels_list' = <<c>> \o channels_list
      /\ fd' = [fd EXCEPT ![c] = f]
      /\ open_fds' = open_fds \cup {f}
  BY DEF IvyChannelAdd, Calling
<1>2. /\ channels_list \in Seq(Channel) /\ next \in Seq(Channel)
      /\ fd \in [Channel -> Fd]
      /\ Listed \subseteq made /\ IsInjective(channels_list)
  BY DEF IInv, TypeOK
<1>3. /\ channels_list' \in Seq(Channel)
      /\ Listed' = Listed \cup {c}
      /\ IsInjective(channels_list')
      /\ NextIsEnd'
  BY <1>1, <1>2, EndsOfLonger DEF IInv, NextIsEnd, Listed
<1>4. c \notin Listed /\ ToSet(next) \subseteq Listed
  BY <1>1, <1>2, EndsIsPart DEF IInv, NextIsEnd, Listed
<1>5. \A d \in Channel : fd'[d] = IF d = c THEN f ELSE fd[d]
  BY <1>1, <1>2
<1>6. TypeOK'
  BY <1>1, <1>2, <1>3 DEF IInv, TypeOK
<1>7. LoopState' /\ DeletedOnce'
  BY <1>1, <1>3 DEF IInv, LoopState, DeletedOnce
<1>8. SetsMatchList'
  <2>1. Listed \subseteq Channel
    BY DEF IInv, TypeOK, AnswersKept
  <2>2. FdsOf(Listed)' = FdsOf(Listed) \cup {f}
    BY <1>3, <1>4, <1>5, <2>1 DEF FdsOf
  <2>3. f \notin FdsOf(Listed)
    BY <1>1 DEF IInv, SetsMatchList
  <2> QED
    BY <1>1, <1>3, <1>4, <1>5, <2>1, <2>2, <2>3 DEF IInv, SetsMatchList, FdsOf
<1>9. AnswersKept'
  BY <1>1 DEF IInv, AnswersKept
<1>10. WritesAreWaitedFor'
  <2>1. \A d \in ToSet(next) : fd'[d] = fd[d]
    BY <1>2, <1>4, <1>5 DEF IInv, AnswersKept
  <2> QED
    BY <1>1, <2>1 DEF IInv, WritesAreWaitedFor, Wanted
<1> QED
  BY <1>3, <1>6, <1>7, <1>8, <1>9, <1>10 DEF IInv

(* Marking a channel, waiting to write and stopping the loop. *)
LEMMA MarkKeeps ==
    ASSUME IInv,
           \/ \E c \in Channel : IvyChannelRemove(c) \/ IvyChannelAddWritableEvent(c)
           \/ IvyChannelStop
    PROVE  IInv'
<1>1. /\ UNCHANGED <<phase, inCall, channel, next, ready, finalized>>
      /\ UNCHANGED <<channels_list, fd, open_fds, system, made>>
  BY DEF IvyChannelRemove, IvyChannelAddWritableEvent, IvyChannelStop, Calling
<1>2. Listed' = Listed /\ FdsOf(Listed)' = FdsOf(Listed)
  BY <1>1 DEF Listed, FdsOf
<1> DEFINE Sound == /\ tobedeleted' \subseteq Listed
                    /\ wrdy_fds \subseteq wrdy_fds' /\ wrdy_fds' \subseteq open_fds
<1>3. Sound
  <2>1. ASSUME NEW c \in Channel, IvyChannelRemove(c)
        PROVE  Sound
    BY <2>1 DEF IvyChannelRemove, IInv, TypeOK, SetsMatchList
  <2>2. ASSUME NEW c \in Channel, IvyChannelAddWritableEvent(c)
        PROVE  Sound
    BY <2>2 DEF IvyChannelAddWritableEvent, IInv, TypeOK, SetsMatchList, FdsOf
  <2>3. CASE IvyChannelStop
    BY <2>3 DEF IvyChannelStop, IInv, TypeOK, SetsMatchList
  <2> QED
    BY <2>1, <2>2, <2>3
<1>4. TypeOK'
  BY <1>1, <1>2, <1>3 DEF IInv, TypeOK
<1>5. LoopState' /\ DeletedOnce' /\ NextIsEnd'
  BY <1>1, <1>2 DEF IInv, LoopState, DeletedOnce, NextIsEnd
<1>6. SetsMatchList' /\ AnswersKept'
  BY <1>1, <1>2, <1>3 DEF IInv, SetsMatchList, AnswersKept
<1>7. WritesAreWaitedFor'
  BY <1>1, <1>3 DEF IInv, WritesAreWaitedFor, Wanted
<1> QED
  BY <1>4, <1>5, <1>6, <1>7 DEF IInv

(* The handler that stops to wait is not visited again. *)
LEMMA ClearKeeps ==
    ASSUME IInv, IvyChannelClearWritableEvent
    PROVE  IInv'
<1>1. /\ UNCHANGED <<phase, inCall, channel, next, ready, finalized>>
      /\ UNCHANGED <<channels_list, fd, tobedeleted, open_fds, system, made>>
      /\ phase = "write" /\ inCall
      /\ wrdy_fds' = wrdy_fds \ {fd[channel]}
  BY DEF IvyChannelClearWritableEvent, Calling
<1>2. Listed' = Listed /\ FdsOf(Listed)' = FdsOf(Listed)
  BY <1>1 DEF Listed, FdsOf
<1>3. channel \in Listed \ ToSet(next)
  BY <1>1 DEF IInv, LoopState
<1>4. TypeOK'
  BY <1>1, <1>2 DEF IInv, TypeOK
<1>5. LoopState' /\ DeletedOnce' /\ NextIsEnd'
  BY <1>1, <1>2 DEF IInv, LoopState, DeletedOnce, NextIsEnd
<1>6. SetsMatchList' /\ AnswersKept'
  BY <1>1, <1>2 DEF IInv, SetsMatchList, AnswersKept
<1>7. WritesAreWaitedFor'
  <2>1. \A d \in ToSet(next) : d \in Listed /\ d # channel
    BY <1>3, EndsIsPart DEF IInv, TypeOK, NextIsEnd, Listed
  <2>2. \A d \in ToSet(next) : fd[d] # fd[channel]
    BY <1>3, <2>1 DEF IInv, SetsMatchList
  <2> QED
    BY <1>1, <2>2 DEF IInv, WritesAreWaitedFor, Wanted
<1> QED
  BY <1>4, <1>5, <1>6, <1>7 DEF IInv

-----------------------------------------------------------------------------
(* The loop *)

(* Into the loop, and from one part of a pass to the next. *)
LEMMA GotoKeeps ==
    ASSUME IInv, NEW p \in Phases, Goto(p), channel = None,
           UNCHANGED <<channels_list, fd, tobedeleted, open_fds, wrdy_fds, made,
                       system, finalized>>,
           ready'.wr \subseteq Fd,
           p \in {"timers", "read", "write"} => ready'.wr \subseteq wrdy_fds
    PROVE  IInv'
<1>1. /\ phase' = p
      /\ inCall' = (p \in {"before", "timers"})
      /\ next' = IF p \in Walks THEN channels_list ELSE <<>>
      /\ channel' = None
  BY DEF Goto, Walks
<1>2. Listed' = Listed /\ FdsOf(Listed)' = FdsOf(Listed)
  BY DEF Listed, FdsOf
<1>3. /\ channels_list \in Seq(Channel)
      /\ next' \in Seq(Channel)
  <2>1. <<>> \in Seq(Channel)
    OBVIOUS
  <2> QED
    BY <1>1, <2>1 DEF IInv, TypeOK
<1>4. TypeOK'
  BY <1>1, <1>2, <1>3 DEF IInv, TypeOK
<1>5. LoopState'
  <2>1. inCall' = (channel' # None \/ phase' \in {"before", "timers"})
    <3>1. CASE p \in {"before", "timers"}
      BY <1>1, <3>1
    <3>2. CASE p \notin {"before", "timers"}
      BY <1>1, <3>2
    <3> QED
      BY <3>1, <3>2
  <2>2. phase' \notin Walks => next' = <<>>
    BY <1>1, Zenon
  <2> QED
    BY <1>1, <2>1, <2>2, Zenon DEF LoopState
<1>6. DeletedOnce'
  <2>1. \A c \in Channel : finalized[c] > 0 => c \notin Listed
    BY NoneAssumption DEF IInv, DeletedOnce
  <2> QED
    BY <1>2, <2>1 DEF IInv, DeletedOnce
<1>7. NextIsEnd'
  BY <1>1, <1>3, EndsOfList DEF NextIsEnd
<1>8. SetsMatchList'
  BY <1>2 DEF IInv, SetsMatchList
<1>9. AnswersKept'
  BY <1>1 DEF IInv, AnswersKept
<1>10. WritesAreWaitedFor'
  BY <1>1 DEF IInv, WritesAreWaitedFor, Wanted
<1> QED
  BY <1>4, <1>5, <1>6, <1>7, <1>8, <1>9, <1>10 DEF IInv

(* IvyMainLoop() is entered again.                                         *)
LEMMA EnterKeeps ==
    ASSUME IInv, Enter
    PROVE  IInv'
<1>1. /\ phase = "left" /\ phase' = "top"
      /\ UNCHANGED <<channels_list, fd, tobedeleted, open_fds, wrdy_fds, inCall,
                     channel, next, ready, system, made, finalized>>
  BY DEF Enter
<1>2. Listed' = Listed /\ FdsOf(Listed)' = FdsOf(Listed)
  BY <1>1 DEF Listed, FdsOf
<1>3. channel = None /\ ~inCall /\ next = <<>>
  BY <1>1 DEF IInv, LoopState, Walks
<1>4. TypeOK'
  BY <1>1, <1>2 DEF IInv, TypeOK, Phases
<1>5. LoopState' /\ DeletedOnce' /\ NextIsEnd'
  BY <1>1, <1>2, <1>3 DEF IInv, LoopState, DeletedOnce, NextIsEnd, Walks
<1>6. SetsMatchList' /\ AnswersKept' /\ WritesAreWaitedFor'
  BY <1>1, <1>2 DEF IInv, SetsMatchList, AnswersKept, WritesAreWaitedFor
<1> QED
  BY <1>4, <1>5, <1>6 DEF IInv

(* A visit takes the head of what the walk has before it. *)
LEMMA VisitKeeps ==
    ASSUME IInv, Visit
    PROVE  IInv'
<1> DEFINE c == Head(next)
<1>1. /\ ~inCall /\ next # <<>> /\ next' = Tail(next)
      /\ UNCHANGED <<channels_list, fd, tobedeleted, open_fds, wrdy_fds, made,
                     phase, ready, system>>
  BY DEF Visit, api
<1>2. Listed' = Listed /\ FdsOf(Listed)' = FdsOf(Listed)
  BY <1>1 DEF Listed, FdsOf
<1>3. channel = None /\ phase \in Walks
  BY <1>1 DEF IInv, LoopState
<1>4. /\ next' \in Seq(Channel)
      /\ c \in Listed
      /\ c \notin ToSet(next')
      /\ ToSet(next') \subseteq ToSet(next)
      /\ NextIsEnd'
  <2>1. ToSet(next) \subseteq Listed /\ IsInjective(next)
    BY EndsIsPart DEF IInv, TypeOK, NextIsEnd, Listed
  <2> QED
    BY <1>1, <2>1, EndsTail DEF IInv, TypeOK, NextIsEnd
<1>5. c \in Channel /\ c # None
  BY <1>4, NoneAssumption DEF IInv, TypeOK, AnswersKept
<1>6. \/ Wanted(c) /\ inCall' = TRUE /\ channel' = c
      \/ inCall' = inCall /\ channel' = channel
  BY DEF Visit
<1>7. LoopState'
  BY <1>1, <1>2, <1>3, <1>4, <1>5, <1>6 DEF IInv, LoopState, Walks
<1>8. \A d \in Channel : finalized[d] > 0 => d \notin Listed
  BY <1>3, NoneAssumption DEF IInv, DeletedOnce
<1>9. /\ finalized' \in [Channel -> 0..2]
      /\ DeletedOnce'
  <2>1. CASE phase = "deferred" /\ Wanted(c)
    <3>1. finalized[c] = 0
      BY <1>4, <1>5, <1>8 DEF IInv, TypeOK
    <3>2. /\ finalized' = [finalized EXCEPT ![c] = IF @ < 2 THEN @ + 1 ELSE @]
          /\ channel' = c
      BY <2>1 DEF Visit
    <3>3. /\ finalized' \in [Channel -> 0..2]
          /\ finalized'[c] = 1
          /\ \A d \in Channel : d # c => finalized'[d] = finalized[d]
      BY <1>5, <3>1, <3>2 DEF IInv, TypeOK
    <3>4. c \in made
      BY <1>4 DEF IInv, TypeOK
    <3> QED
      BY <1>1, <1>2, <1>8, <2>1, <3>2, <3>3, <3>4 DEF IInv, DeletedOnce
  <2>2. CASE ~(phase = "deferred" /\ Wanted(c))
    <3>1. finalized' = finalized
      BY <2>2 DEF Visit
    <3> QED
      BY <1>1, <1>2, <1>8, <3>1 DEF IInv, TypeOK, DeletedOnce
  <2> QED
    BY <2>1, <2>2
<1>10. TypeOK'
  <2>1. channel' \in Channel \cup {None}
    BY <1>3, <1>5, <1>6
  <2> QED
    BY <1>1, <1>2, <1>4, <1>9, <2>1 DEF IInv, TypeOK
<1>11. SetsMatchList' /\ AnswersKept'
  BY <1>1, <1>2 DEF IInv, SetsMatchList, AnswersKept
<1>12. WritesAreWaitedFor'
  BY <1>1, <1>4 DEF IInv, WritesAreWaitedFor, Wanted
<1> QED
  BY <1>4, <1>7, <1>9, <1>10, <1>11, <1>12 DEF IInv

(* What handle_delete was called for leaves the list, which has no other   *)
(* channel with its descriptor, and the walk goes on behind it.            *)
LEMMA ReturnKeeps ==
    ASSUME IInv, Return
    PROVE  IInv'
<1>1. /\ inCall /\ channel # None /\ inCall' = FALSE /\ channel' = None
      /\ UNCHANGED <<fd, made, phase, next, ready, finalized>>
  BY DEF Return
<1>2. channel \in Listed \ ToSet(next) /\ phase \in Walks
  BY <1>1 DEF IInv, LoopState
<1>3. channel \in Channel /\ Listed \subseteq Channel
  BY <1>1 DEF IInv, TypeOK, AnswersKept
<1>4. LoopState'
  <2>1. phase \notin {"before", "timers"}
    BY <1>2 DEF Walks
  <2> QED
    BY <1>1, <1>2, <2>1, Zenon DEF LoopState
<1>5. CASE phase = "deferred"
  <2>1. /\ channels_list' = Without(channels_list, {channel})
        /\ tobedeleted' = tobedeleted \ {channel}
        /\ open_fds' = open_fds \ {fd[channel]}
        /\ wrdy_fds' = wrdy_fds \ {fd[channel]}
        /\ system' = system \ {fd[channel]}
    BY <1>5 DEF Return, FreeChannel
  <2>2. /\ channels_list' \in Seq(Channel)
        /\ Listed' = Listed \ {channel}
        /\ IsInjective(channels_list')
    BY <2>1, WithoutProperties DEF IInv, TypeOK, Listed
  <2>3. NextIsEnd'
    BY <1>1, <1>2, <2>1, EndsOfWithout DEF IInv, TypeOK, NextIsEnd
  <2>4. TypeOK'
    BY <1>1, <2>1, <2>2 DEF IInv, TypeOK
  <2>5. DeletedOnce'
    BY <1>1, <2>2 DEF IInv, DeletedOnce
  <2>6. SetsMatchList'
    <3>1. \A d \in Listed : d # channel => fd[d] # fd[channel]
      BY <1>2 DEF IInv, SetsMatchList
    <3>2. FdsOf(Listed)' = FdsOf(Listed) \ {fd[channel]}
      BY <1>1, <2>2, <3>1 DEF FdsOf
    <3> QED
      BY <1>1, <2>1, <2>2, <3>2 DEF IInv, SetsMatchList
  <2>7. AnswersKept' /\ WritesAreWaitedFor'
    BY <1>1, <1>5 DEF IInv, AnswersKept, WritesAreWaitedFor
  <2> QED
    BY <1>4, <2>3, <2>4, <2>5, <2>6, <2>7 DEF IInv
<1>6. CASE phase # "deferred"
  <2>1. UNCHANGED <<channels_list, tobedeleted, open_fds, wrdy_fds, system>>
    BY <1>6 DEF Return
  <2>2. Listed' = Listed /\ FdsOf(Listed)' = FdsOf(Listed)
    BY <1>1, <2>1 DEF Listed, FdsOf
  <2>3. TypeOK' /\ NextIsEnd'
    BY <1>1, <2>1, <2>2 DEF IInv, TypeOK, NextIsEnd
  <2>4. DeletedOnce'
    BY <1>1, <1>6, <2>2 DEF IInv, DeletedOnce
  <2>5. SetsMatchList' /\ AnswersKept'
    BY <1>1, <2>1, <2>2 DEF IInv, SetsMatchList, AnswersKept
  <2>6. WritesAreWaitedFor'
    BY <1>1, <2>1 DEF IInv, WritesAreWaitedFor, Wanted
  <2> QED
    BY <1>4, <2>3, <2>4, <2>5, <2>6 DEF IInv
<1> QED
  BY <1>5, <1>6

-----------------------------------------------------------------------------
(* The parts of a pass follow each other. *)
LEMMA PassKeeps ==
    ASSUME IInv, While \/ EndWalk \/ EndHook \/ Wake
    PROVE  IInv'
<1>1. UNCHANGED <<channels_list, fd, tobedeleted, open_fds, wrdy_fds, made,
                  system, finalized>>
  BY DEF While, EndWalk, EndHook, Wake, api
<1>2. CASE While
  <2> DEFINE p == IF MainLoop THEN "deferred" ELSE "left"
  <2>1. /\ phase = "top" /\ Goto(p) /\ ready' = Nothing
    BY <1>2 DEF While
  <2>2. channel = None /\ p \in Phases
    BY <2>1 DEF IInv, LoopState, Walks, Phases
  <2>3. ready'.wr \subseteq Fd /\ p \notin {"timers", "read", "write"}
    BY <2>1 DEF Nothing
  <2> HIDE DEF p
  <2> QED
    BY <1>1, <2>1, <2>2, <2>3, GotoKeeps
<1>3. CASE EndWalk
  <2>1. ready' = ready /\ ~inCall /\ channel = None
    BY <1>3 DEF EndWalk, IInv, LoopState
  <2>2. ready'.wr \subseteq Fd
    BY <2>1 DEF IInv, AnswersKept
  <2>3. CASE phase = "deferred" /\ Goto("before")
    BY <1>1, <2>1, <2>2, <2>3, GotoKeeps DEF Phases
  <2>4. CASE phase = "read" /\ Goto("write")
    <3>1. ready'.wr \subseteq wrdy_fds
      BY <2>1, <2>4 DEF IInv, AnswersKept
    <3> QED
      BY <1>1, <2>1, <2>2, <2>4, <3>1, GotoKeeps DEF Phases
  <2>5. CASE phase = "write" /\ Goto("top")
    BY <1>1, <2>1, <2>2, <2>5, GotoKeeps DEF Phases
  <2> QED
    BY <1>3, <2>3, <2>4, <2>5 DEF EndWalk
<1>4. CASE EndHook
  <2>1. ready' = ready /\ channel = None
    BY <1>4 DEF EndHook
  <2>2. ready'.wr \subseteq Fd
    BY <2>1 DEF IInv, AnswersKept
  <2>3. CASE phase = "before" /\ Goto("select")
    BY <1>1, <2>1, <2>2, <2>3, GotoKeeps DEF Phases
  <2>4. CASE phase = "timers" /\ Goto(IF ready = Nothing THEN "top" ELSE "read")
    <3>1. ready'.wr \subseteq wrdy_fds
      BY <2>1, <2>4 DEF IInv, AnswersKept
    <3>2. CASE ready = Nothing
      BY <1>1, <2>1, <2>2, <2>4, <3>2, GotoKeeps DEF Phases
    <3>3. CASE ready # Nothing
      BY <1>1, <2>1, <2>2, <2>4, <3>1, <3>3, GotoKeeps DEF Phases
    <3> QED
      BY <3>2, <3>3
  <2> QED
    BY <1>4, <2>3, <2>4 DEF EndHook
<1>5. CASE Wake
  <2>1. /\ phase = "select" /\ Goto("timers")
        /\ \E rd \in SUBSET open_fds, wr \in SUBSET wrdy_fds :
              ready' = [rd |-> rd, wr |-> wr]
    BY <1>5 DEF Wake
  <2>2. channel = None
    BY <2>1 DEF IInv, LoopState, Walks
  <2>3. ready'.wr \subseteq wrdy_fds /\ ready'.wr \subseteq Fd
    BY <2>1 DEF IInv, TypeOK
  <2> QED
    BY <1>1, <2>1, <2>2, <2>3, GotoKeeps DEF Phases
<1> QED
  BY <1>2, <1>3, <1>4, <1>5

(* Every step keeps the invariant.                                         *)
LEMMA StepKeeps == IInv /\ [Next]_vars => IInv'
<1> SUFFICES ASSUME IInv, [Next]_vars PROVE IInv'
  OBVIOUS
<1>1. CASE API
  BY <1>1, AddKeeps, MarkKeeps, ClearKeeps DEF API
<1>2. CASE Enter
  BY <1>2, EnterKeeps
<1>3. CASE Pass
  BY <1>3, VisitKeeps, ReturnKeeps, PassKeeps DEF Pass
<1>4. CASE Wake
  BY <1>4, PassKeeps
<1>5. CASE UNCHANGED vars
  <2>1. Listed' = Listed /\ FdsOf(Listed)' = FdsOf(Listed)
    BY <1>5 DEF vars, Listed, FdsOf
  <2>2. TypeOK' /\ NextIsEnd' /\ LoopState' /\ DeletedOnce'
    BY <1>5, <2>1 DEF vars, IInv, TypeOK, NextIsEnd, LoopState, DeletedOnce
  <2>3. SetsMatchList' /\ AnswersKept' /\ WritesAreWaitedFor'
    BY <1>5, <2>1 DEF vars, IInv, SetsMatchList, AnswersKept, WritesAreWaitedFor, Wanted
  <2> QED
    BY <2>2, <2>3 DEF IInv
<1> QED
  BY <1>1, <1>2, <1>3, <1>4, <1>5 DEF Next

(* The invariant holds at any time, whatever the callbacks do (ivyloop.c). *)
THEOREM Invariance == Spec => []IInv
BY InitKeeps, StepKeeps, PTL DEF Spec

(* Every list, set and flag of the loop has its type, no channel is in the *)
(* list twice, and only channels of the list are marked (ivyloop.c:43-56). *)
THEOREM Typing == Spec => []TypeOK
<1>1. IInv => TypeOK
  BY DEF IInv
<1> QED
  BY <1>1, Invariance, PTL

(* select() is given the descriptors of the channels in the list, each     *)
(* with its own, all open and no other (ivyloop.c:80-126).                 *)
THEOREM SetsAlwaysMatch == Spec => []SetsMatchList
<1>1. IInv => SetsMatchList
  BY DEF IInv
<1> QED
  BY <1>1, Invariance, PTL

(* No walk over the list meets a channel that was freed, whatever its      *)
(* handlers add and remove, and handle_delete is called once               *)
(* (ivyloop.c:79-100, 141-175).                                            *)
THEOREM WalksAreSafe == Spec => []WalkIsSafe
<1>1. IInv => WalkIsSafe
  <2> SUFFICES ASSUME IInv PROVE WalkIsSafe
    OBVIOUS
  <2>1. IsSuffix(next, channels_list)
    BY SuffixIsEnd DEF IInv, TypeOK, NextIsEnd
  <2> QED
    BY <2>1 DEF IInv, LoopState, DeletedOnce, WalkIsSafe
<1> QED
  BY <1>1, Invariance, PTL

(* A handler for writing is called only for a channel that still waits to  *)
(* write, whoever stopped to wait since select() (ivyloop.c:128-153).      *)
THEOREM WritersAreWaitedFor == Spec => []WritesAreWaitedFor
<1>1. IInv => WritesAreWaitedFor
  BY DEF IInv
<1> QED
  BY <1>1, Invariance, PTL
=============================================================================

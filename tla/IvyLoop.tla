------------------------------ MODULE IvyLoop ------------------------------
(***************************************************************************)
(* ivyloop.c: the select() loop and its channels.                          *)
(*                                                                         *)
(* A channel that is removed is only marked.  The loop frees it at the     *)
(* start of its next pass, so that the walks over the list of channels,    *)
(* which call handlers that add and remove channels, never lose their way. *)
(* IvyIdle() is a pass of the loop in which the hooks and TimerScan() do   *)
(* nothing.                                                                *)
(*                                                                         *)
(* No peer of the bus sends out-of-band data, so select() reports no       *)
(* exceptional condition and the walk of IvyChannelHandleExcpt() finds     *)
(* nothing to do; it is left out.                                          *)
(***************************************************************************)
EXTENDS Integers, Sequences, SequencesExt, IvyList

CONSTANTS
    Channel,    \* the memory of the channels: what was freed is not made again
    Fd,         \* the descriptors the system may give out
    None        \* no channel

ASSUME NoneAssumption == None \notin Channel
ASSUME FdAssumption == Fd # {}

VARIABLES
    channels_list,  \* the list, latest first
    fd,             \* per channel: its descriptor
    tobedeleted,    \* the channels that are marked
    open_fds,       \* the descriptors select() looks at for reading
    wrdy_fds,       \* and for writing
    MainLoop,
    phase,          \* where IvyMainLoop() is: see Phases
    inCall,         \* it has called a handler, a hook or TimerScan()
    channel,        \* the channel whose handler it is, or None
    next,           \* the channels the walk still has to look at
    ready,          \* what select() answered
    system,         \* the descriptors that are open in the process
    (* History variables. *)
    made,           \* the channels made so far
    finalized       \* per channel: how often its handle_delete was called

api == <<MainLoop, fd, tobedeleted, open_fds, wrdy_fds, made>>
vars == <<channels_list, fd, tobedeleted, open_fds, wrdy_fds, MainLoop, phase,
          inCall, channel, next, ready, system, made, finalized>>

(* left: outside of IvyMainLoop(); top: at its while; deferred: in         *)
(* ChannelDefferedDelete(); before, select: around select(); timers: in    *)
(* the hook after it and TimerScan(); read, write: the two walks.          *)
Phases == {"left", "top", "deferred", "before", "select", "timers", "read", "write"}

Nothing == [rd |-> {}, wr |-> {}]

Listed == ToSet(channels_list)
FdsOf(cs) == {fd[c] : c \in cs}

Init ==
    /\ channels_list = <<>>
    /\ fd \in [Channel -> {CHOOSE f \in Fd : TRUE}]
    /\ tobedeleted = {}
    /\ open_fds = {} /\ wrdy_fds = {}
    /\ MainLoop = TRUE
    /\ phase = "left" /\ inCall = FALSE /\ channel = None
    /\ next = <<>>
    /\ ready = Nothing
    /\ system = {}
    /\ made = {}
    /\ finalized = [c \in Channel |-> 0]

-----------------------------------------------------------------------------
(* The API, called by handlers, by hooks and outside of the loop.          *)

Calling ==
    /\ inCall \/ phase = "left"
    /\ UNCHANGED <<phase, inCall, channel, next, ready, finalized>>

(* On a descriptor that was just opened. *)
IvyChannelAdd(c, f) ==
    /\ Calling
    /\ c \notin made /\ f \notin system
    /\ made' = made \cup {c}
    /\ system' = system \cup {f}
    /\ channels_list' = <<c>> \o channels_list
    /\ fd' = [fd EXCEPT ![c] = f]
    /\ open_fds' = open_fds \cup {f}
    /\ UNCHANGED <<tobedeleted, wrdy_fds, MainLoop>>

(* Mutation of IvyChannelRemove: the channel leaves the list at once. *)
IvyChannelRemoveNow(c) ==
    /\ Calling
    /\ c \in Listed
    /\ channels_list' = Without(channels_list, {c})
    /\ open_fds' = open_fds \ {fd[c]}
    /\ wrdy_fds' = wrdy_fds \ {fd[c]}
    /\ system' = system \ {fd[c]}
    /\ UNCHANGED <<fd, tobedeleted, MainLoop, made>>

(* Mutation of IvyChannelRemove: it is marked and leaves the list as well. *)
IvyChannelRemoveTwice(c) ==
    /\ Calling
    /\ c \in Listed
    /\ tobedeleted' = tobedeleted \cup {c}
    /\ channels_list' = Without(channels_list, {c})
    /\ UNCHANGED <<fd, open_fds, wrdy_fds, MainLoop, system, made>>

IvyChannelRemove(c) ==
    /\ Calling
    /\ c \in Listed
    /\ tobedeleted' = tobedeleted \cup {c}
    /\ UNCHANGED <<channels_list, fd, open_fds, wrdy_fds, MainLoop, system, made>>

(* A send that congests, on any channel of the list, marked or not. *)
IvyChannelAddWritableEvent(c) ==
    /\ Calling
    /\ c \in Listed
    /\ wrdy_fds' = wrdy_fds \cup {fd[c]}
    /\ UNCHANGED <<channels_list, fd, tobedeleted, open_fds, MainLoop, system, made>>

(* Mutation of IvyChannelClearWritableEvent: it clears the whole set. *)
ClearWritableZero ==
    /\ Calling
    /\ phase = "write"
    /\ wrdy_fds' = {}
    /\ UNCHANGED <<channels_list, fd, tobedeleted, open_fds, MainLoop, system, made>>

(* HandleCongestionWrite(), the only caller, clears its own channel. *)
IvyChannelClearWritableEvent ==
    /\ Calling
    /\ phase = "write"
    /\ wrdy_fds' = wrdy_fds \ {fd[channel]}
    /\ UNCHANGED <<channels_list, fd, tobedeleted, open_fds, MainLoop, system, made>>

IvyChannelStop ==
    /\ Calling
    /\ MainLoop' = FALSE
    /\ UNCHANGED <<channels_list, fd, tobedeleted, open_fds, wrdy_fds, system, made>>

API ==
    \/ \E c \in Channel :
          \/ \E f \in Fd : IvyChannelAdd(c, f)
          \/ IvyChannelRemove(c)
          \/ IvyChannelAddWritableEvent(c)
    \/ IvyChannelClearWritableEvent
    \/ IvyChannelStop

-----------------------------------------------------------------------------
(* The loop *)

(* IvyInit() sets the flag again before IvyMainLoop() is called. *)
Enter ==
    /\ phase = "left"
    /\ phase' = "top"
    /\ MainLoop' = TRUE
    /\ UNCHANGED <<channels_list, fd, tobedeleted, open_fds, wrdy_fds, inCall,
                   channel, next, ready, system, made, finalized>>

(* A walk over the list, or the next part of the pass. *)
Goto(p) ==
    /\ phase' = p
    /\ inCall' = (p \in {"before", "timers"})
    /\ next' = IF p \in {"deferred", "read", "write"} THEN channels_list ELSE <<>>
    /\ channel' = None

(* Mutation of While: ChannelDefferedDelete() is left out. *)
WhileNoDelete ==
    /\ phase = "top"
    /\ Goto(IF MainLoop THEN "before" ELSE "left")
    /\ ready' = Nothing
    /\ UNCHANGED <<channels_list, api, system, finalized>>

While ==
    /\ phase = "top"
    /\ Goto(IF MainLoop THEN "deferred" ELSE "left")
    /\ ready' = Nothing
    /\ UNCHANGED <<channels_list, api, system, finalized>>

(* Which handler of the channel the walk calls, if any. *)
Wanted(c) ==
    \/ phase = "deferred" /\ c \in tobedeleted
    \/ phase = "read"  /\ fd[c] \in ready.rd
    \/ phase = "write" /\ fd[c] \in ready.wr

Visit ==
    /\ ~inCall /\ next # <<>>
    /\ next' = Tail(next)
    /\ IF Wanted(Head(next))
       THEN inCall' = TRUE /\ channel' = Head(next)
       ELSE UNCHANGED <<inCall, channel>>
    /\ finalized' = IF phase = "deferred" /\ Wanted(Head(next))
                    THEN [finalized EXCEPT ![Head(next)] = IF @ < 2 THEN @ + 1 ELSE @]
                    ELSE finalized
    /\ UNCHANGED <<channels_list, api, phase, ready, system>>

EndWalk ==
    /\ ~inCall /\ next = <<>>
    /\ \/ phase = "deferred" /\ Goto("before")
       \/ phase = "read" /\ Goto("write")
       \/ phase = "write" /\ Goto("top")
    /\ UNCHANGED <<channels_list, api, ready, system, finalized>>

(* Mutation of FreeChannel: the descriptor stays in the sets. *)
FreeChannelOnly ==
    /\ channels_list' = Without(channels_list, {channel})
    /\ tobedeleted' = tobedeleted \ {channel}
    /\ UNCHANGED <<open_fds, wrdy_fds>>

(* Mutation of FreeChannel: the channel stays in the list. *)
FreeChannelListed ==
    /\ open_fds' = open_fds \ {fd[channel]}
    /\ wrdy_fds' = wrdy_fds \ {fd[channel]}
    /\ UNCHANGED <<channels_list, tobedeleted>>

(* The rest of IvyChannelDelete(), after handle_delete. *)
FreeChannel ==
    /\ channels_list' = Without(channels_list, {channel})
    /\ tobedeleted' = tobedeleted \ {channel}
    /\ open_fds' = open_fds \ {fd[channel]}
    /\ wrdy_fds' = wrdy_fds \ {fd[channel]}

(* A handler returns.  A handle_delete (DeleteSocket) closes the           *)
(* descriptor last.                                                        *)
Return ==
    /\ inCall /\ channel # None
    /\ inCall' = FALSE /\ channel' = None
    /\ system' = IF phase = "deferred" THEN system \ {fd[channel]} ELSE system
    /\ IF phase = "deferred"
       THEN FreeChannel
       ELSE UNCHANGED <<channels_list, tobedeleted, open_fds, wrdy_fds>>
    /\ UNCHANGED <<fd, MainLoop, made, phase, next, ready, finalized>>

EndHook ==
    /\ inCall /\ channel = None
    /\ \/ phase = "before" /\ Goto("select")
       \/ phase = "timers" /\ Goto(IF ready = Nothing THEN "top" ELSE "read")
    /\ UNCHANGED <<channels_list, api, ready, system, finalized>>

(* select() answers.  It does not fail: the descriptors are all open, as   *)
(* SetsMatchList shows.  A timeout and EINTR leave the sets unused.        *)
Wake ==
    /\ phase = "select"
    /\ \E rd \in SUBSET open_fds, wr \in SUBSET wrdy_fds :
          ready' = [rd |-> rd, wr |-> wr]
    /\ Goto("timers")
    /\ UNCHANGED <<channels_list, api, system, finalized>>

Pass == While \/ Visit \/ EndWalk \/ Return \/ EndHook

Next == API \/ Enter \/ Pass \/ Wake

Spec == Init /\ [][Next]_vars

(* Handlers and hooks return, and select() does not wait for ever: some    *)
(* peer, the clock at least, keeps sending.                                *)
FairSpec == Spec /\ WF_vars(Pass) /\ WF_vars(Wake)

-----------------------------------------------------------------------------
(* Properties *)

TypeOK ==
    /\ channels_list \in Seq(Channel) /\ IsInjective(channels_list)
    /\ fd \in [Channel -> Fd]
    /\ tobedeleted \subseteq Listed
    /\ open_fds \subseteq Fd /\ wrdy_fds \subseteq Fd /\ system \subseteq Fd
    /\ phase \in Phases
    /\ channel \in Channel \cup {None}
    /\ next \in Seq(Channel)
    /\ Listed \subseteq made
    /\ finalized \in [Channel -> 0..2]

(* Whatever handlers add and remove, and whenever: the channels in the     *)
(* list have different descriptors, all open, and select() looks at these  *)
(* and at no other, so it never fails and no channel is forgotten.         *)
SetsMatchList ==
    /\ \A c, d \in Listed : c # d => fd[c] # fd[d]
    /\ open_fds = FdsOf(Listed)
    /\ wrdy_fds \subseteq open_fds
    /\ open_fds = system

(* The walk holds no pointer to a channel that was freed: the one it calls *)
(* and the ones it has still to visit are in the list, in its order; and   *)
(* handle_delete is called once, for a channel that was removed, and after *)
(* it no other handler of the channel (ivyloop.c:79-100).                  *)
WalkIsSafe ==
    /\ channel # None => channel \in Listed
    /\ IsSuffix(next, channels_list)
    /\ \A c \in Channel : finalized[c] > 0 =>
          /\ finalized[c] = 1
          /\ c \in Listed => phase = "deferred" /\ channel = c

(* A handler for writing finds its channel still waiting to write: the     *)
(* fifo that HandleCongestionWrite() empties exists (ivysocket.c:219-233). *)
WritesAreWaitedFor ==
    phase = "write" => \A c \in ToSet(next) : Wanted(c) => fd[c] \in wrdy_fds

(* A channel that was removed is deleted in the end, unless the loop is    *)
(* stopped or has not been entered (ivyloop.c:73-100).                     *)
RemovedIsDeleted ==
    \A c \in Channel :
        (c \in tobedeleted) ~> (c \notin Listed \/ ~MainLoop \/ phase = "left")
=============================================================================

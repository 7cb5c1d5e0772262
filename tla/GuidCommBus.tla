---------------------------- MODULE GuidCommBus ----------------------------
(***************************************************************************)
(* GUID-COMM on the bus: GuidComm composed with the TCP links to one peer  *)
(* that sends it well formed traffic, and with the subscriptions the peer  *)
(* holds.                                                                  *)
(*                                                                         *)
(* Each start() calls IvyInit(), IvyStart() and the nine IvyBindMsg() once *)
(* more.  Nothing of the previous start is undone: the links stay open,    *)
(* the old bindings stay in msg_recv and in the peer's dictionary, and the *)
(* new broadcast makes the peer open one more link.  The peer sends a      *)
(* message once per subscription it holds and once per link, so callbacks  *)
(* run several times for one message.                                      *)
(*                                                                         *)
(* When the peer and GUID-COMM start together each hears the other's       *)
(* broadcast and connects, and both links stay (IvyBus, OneLinkPerPair):   *)
(* there is then one link more than there were starts.                     *)
(***************************************************************************)
EXTENDS GuidComm, Sequences, SequencesExt

CONSTANTS
    Together,    \* the peer may start at the same time as GUID-COMM
    Cycle,       \* what the peer sends, again and again, once in flight
    MaxSent,     \* a bound: the messages the peer sends
    MaxRequests, \* a bound: the Restart_GUID_COMM messages sent
    MaxQueue     \* a bound: the frames waiting on one link

Kinds == {"InitStateVector", "AircraftSetPosition", "GS_Data", "Time", "Restart_GUID_COMM"}

ASSUME TogetherAssumption == Together \in BOOLEAN
ASSUME CycleAssumption == Cycle \in Seq(Kinds) /\ Len(Cycle) > 0
ASSUME BoundsAssumption == MaxSent \in Nat /\ MaxRequests \in Nat /\ MaxQueue \in Nat

(* The links that n starts may leave open. *)
Opened(n) == IF Together THEN n + 1 ELSE n

(* The links, in the order in which they were opened. *)
Links == 1..Opened(MaxTry)

VARIABLES
    known,    \* per link: the copies of each binding the peer holds, 0 before it connects
    queue,    \* per link: the frames sent and not dispatched
    due,      \* per link: how many of them this select() round has read
    sent,     \* how many messages the peer has sent
    requests  \* how many of Restart_GUID_COMM

bus == <<known, queue, due, sent, requests>>
busVars == <<vars, bus>>

-----------------------------------------------------------------------------
Nothing == [l \in Links |-> 0]

BusInit ==
    /\ Init
    /\ known = Nothing
    /\ queue = [l \in Links |-> <<>>]
    /\ due = Nothing
    /\ sent = 0
    /\ requests = 0

(* The peer answers the broadcast of the latest start() with a new link,   *)
(* or GUID-COMM that of the peer; it learns every binding made so far      *)
(* (SendService).  CheckConnected() sees no other link to this peer.       *)
Connect ==
    /\ pc \in {"poll", "round"}
    /\ \E l \in 1..Opened(nb_try) :
          /\ known[l] = 0
          /\ \A k \in 1..(l - 1) : known[k] > 0
          /\ known' = [known EXCEPT ![l] = nb_try]
    /\ UNCHANGED <<vars, queue, due, sent, requests>>

(* The AddRegexp messages of a new start() reach the peer on an old link;  *)
(* it adds them to the ones it has.                                        *)
LearnBindings ==
    /\ \E l \in Links :
          /\ known[l] \in 1..(nb_try - 1)
          /\ known' = [known EXCEPT ![l] = nb_try]
    /\ UNCHANGED <<vars, queue, due, sent, requests>>

(* Mutation of Post: the peer holds every subscription twice. *)
PostTwice(kind) ==
    /\ known[1] > 0
    /\ \A l \in Links : Len(queue[l]) + 2 * known[l] <= MaxQueue
    /\ queue' = [l \in Links |-> queue[l] \o [i \in 1..(2 * known[l]) |-> kind]]
    /\ UNCHANGED <<vars, known, due>>

(* The peer's IvySendMsg(): one frame per subscription, on every link. *)
Post(kind) ==
    /\ known[1] > 0
    /\ \A l \in Links : Len(queue[l]) + known[l] <= MaxQueue
    /\ queue' = [l \in Links |-> queue[l] \o [i \in 1..known[l] |-> kind]]
    /\ UNCHANGED <<vars, known, due>>

SendTraffic ==
    /\ sent < MaxSent
    /\ Post(IF sent = 0 THEN "InitStateVector" ELSE Cycle[((sent - 1) % Len(Cycle)) + 1])
    /\ sent' = sent + 1
    /\ UNCHANGED requests

SendRequest ==
    /\ requests < MaxRequests
    /\ Post("Restart_GUID_COMM")
    /\ requests' = requests + 1
    /\ UNCHANGED sent

-----------------------------------------------------------------------------
(* Mutation of BusSelect: only the first link is in the set select() looks at. *)
BusSelectFirstLink ==
    /\ Select
    /\ \E n \in 1..Len(queue[1]) : due' = [Nothing EXCEPT ![1] = n]
    /\ UNCHANGED <<known, queue, sent, requests>>

(* select() returns with some of the waiting frames of each link read. *)
BusSelect ==
    /\ Select
    /\ \E read \in [Links -> 0..MaxQueue] :
          /\ \A l \in Links : read[l] <= Len(queue[l])
          /\ \E l \in Links : read[l] > 0
          /\ due' = read
    /\ UNCHANGED <<known, queue, sent, requests>>

Handler(kind) ==
    \/ kind = "InitStateVector" /\ start_flight
    \/ kind = "AircraftSetPosition" /\ getPosition
    \/ kind = "GS_Data" /\ computeBankAngleObj
    \/ kind = "Time" /\ sendGC
    \/ kind = "Restart_GUID_COMM" /\ restart

(* The links are served in the order of channels_list: latest first.  The  *)
(* loop's flag is not looked at before the round is over.                  *)
Served(l) == due[l] > 0 /\ \A k \in Links : due[k] > 0 => k <= l

Dispatch ==
    \E l \in Links :
        /\ Served(l)
        /\ Handler(Head(queue[l]))
        /\ queue' = [queue EXCEPT ![l] = Tail(@)]
        /\ due' = [due EXCEPT ![l] = @ - 1]
        /\ UNCHANGED <<known, sent, requests>>

(* Mutation of BusEndRound: the round is left with frames still to handle. *)
BusEndRoundEarly == EndRound /\ UNCHANGED bus

BusEndRound == due = Nothing /\ EndRound /\ UNCHANGED bus

Main == (LeaveLoop \/ Start \/ GiveUp) /\ UNCHANGED bus

BusGone == Gone /\ UNCHANGED bus

(* The traffic is used up and everything was handled. *)
Idle ==
    /\ sent = MaxSent
    /\ \A l \in Links : queue[l] = <<>>
    /\ pc = "poll" /\ loop
    /\ UNCHANGED busVars

BusNext ==
    \/ Connect \/ LearnBindings \/ SendTraffic \/ SendRequest
    \/ BusSelect \/ Dispatch \/ BusEndRound \/ Main \/ BusGone \/ Idle

BusSpec == BusInit /\ [][BusNext]_busVars

(* What a Dispatch step does to the frames that were read.  It is the only *)
(* step that takes one, and a callback is always ready to run, so fairness *)
(* of this part is fairness of Dispatch; TLC decides it without evaluating *)
(* the callbacks.                                                          *)
TakeFrame == InCallback /\ \E l \in Links : Served(l) /\ due' = [due EXCEPT ![l] = @ - 1]

(* The process runs, and the kernel delivers what was sent. *)
FairBusSpec ==
    /\ BusSpec
    /\ WF_busVars(BusSelect) /\ WF_due(TakeFrame)
    /\ WF_busVars(BusEndRound) /\ WF_busVars(Main)

-----------------------------------------------------------------------------
(* Properties *)

(* What was read is there, a link without bindings is silent, and links    *)
(* are opened in order.                                                    *)
BusTypeOK ==
    /\ known \in [Links -> 0..nb_try]
    /\ \A l \in Links : queue[l] \in Seq(Kinds) /\ due[l] \in 0..Len(queue[l])
    /\ \A l \in Links : known[l] = 0 => queue[l] = <<>>
    /\ \A k, l \in Links : k < l /\ known[l] > 0 => known[k] > 0
    /\ \A l \in Links : due[l] > 0 => pc = "round"

OneLink == \A l \in Links : l > 1 => known[l] = 0

(* Over one link, well formed traffic in which a computation precedes each *)
(* tick never stops the first start, however the messages are cut into     *)
(* rounds: with one subscription every tick finds its five commands fresh  *)
(* (sendGC:335-395).  Over two links it would come twice, and the second   *)
(* tick find nothing.                                                      *)
HealthyTrafficRuns ==
    nb_try = 1 /\ OneLink /\ ~requested => loop /\ modif["roll_cmd"] >= 0

(* The same without the condition, to show that it is needed: an agent     *)
(* that started together with GUID-COMM stops it.                          *)
HealthyTrafficRunsAnyway ==
    nb_try = 1 /\ ~requested => loop

(* A warm restart loses no message: what a peer has sent is dispatched,    *)
(* before or after the restart, as long as the process lives.              *)
InboxDrains ==
    \A l \in Links : (queue[l] # <<>>) ~> (queue[l] = <<>> \/ pc \in {"ended", "killed"})

(* app_guid_comm.c:561 "Main loop, allows to restart the application       *)
(* following a crash": one warm restart in otherwise healthy traffic does  *)
(* not end the application, not even with one link per start.  The second  *)
(* start runs every callback twice; the second sendGC of a tick finds      *)
(* nothing fresh and restarts again.                                       *)
RestartRecovers == pc # "ended"
=============================================================================

------------------------------- MODULE IvyBus -------------------------------
(***************************************************************************)
(* Agents of one machine that meet on the bus (ivy.c, ivysocket.c): each   *)
(* listens, announces itself by a UDP broadcast, connects to whom it hears *)
(* and exchanges its bindings, then its ready message; agents start at any *)
(* moment, crash, are told to die, and are launched again.                 *)
(*                                                                         *)
(* Each end of a link is an <<agent, peer, side>>: "out" where the agent   *)
(* connected, "in" where it accepted.  No broadcast is lost once the       *)
(* receiver's socket is bound.  The tables of expressions are in           *)
(* IvyDictionary: here an end holds the set of the bindings of its peer.   *)
(***************************************************************************)
EXTENDS IvyList, SequencesExt

CONSTANTS
    Agent,      \* processes; a program launched again is another one
    Binding,    \* expressions
    Greeting,   \* the binding that the ready messages match
    Port,       \* Port[a]: the port a listens on
    Ephemeral,  \* Ephemeral[a]: the ports that the connections of a may come from
    Killer,     \* agents that may send a Die
    Mortal      \* agents that may crash

ASSUME BusAssumption ==
    /\ Greeting \in Binding
    /\ Port \in [Agent -> 1..255]
    /\ Ephemeral \in [Agent -> (SUBSET (1..255)) \ {{}}]
    /\ Killer \subseteq Agent /\ Mortal \subseteq Agent

End == {e \in Agent \X Agent \X {"out", "in"} : e[1] # e[2]}
Far(e) == <<e[2], e[1], IF e[3] = "out" THEN "in" ELSE "out">>
EndsOf(a) == {e \in End : e[1] = a}

VARIABLES
    phase,          \* "off", "listening", "joined" (UDP bound), "up", "gone"
    heard,          \* the announcements in the UDP socket
    bound,          \* msg_recv
    state,          \* "none", "waiting" for accept(), "open", "closed", "gone"
    wire,           \* the frames on their way to an end
    from,           \* the port that a connection comes from, of its out end
    app_port,       \* clnt->app_port
    readyToSend,    \* clnt->readyToSend
    ignore,         \* clnt->ignore_subsequent_msg
    held,           \* the bindings of the peer in the dictionary
    asked,          \* history: the greeting was in the list sent to the peer
    greeted         \* history: the ready messages that arrived

client == <<app_port, readyToSend, ignore, held>>
vars == <<phase, heard, bound, state, wire, from, client, asked, greeted>>

Init ==
    /\ phase = [a \in Agent |-> "off"]
    /\ heard = [a \in Agent |-> {}]
    /\ bound = [a \in Agent |-> {}]
    /\ state = [e \in End |-> "none"]
    /\ wire = [e \in End |-> <<>>]
    /\ from = [e \in End |-> 0]
    /\ app_port = [e \in End |-> 0]
    /\ readyToSend = [e \in End |-> 0]
    /\ ignore = [e \in End |-> FALSE]
    /\ held = [e \in End |-> {}]
    /\ asked = [e \in End |-> FALSE]
    /\ greeted = [e \in End |-> 0]

-----------------------------------------------------------------------------
(* Frames *)

Frame(type, arg) == [type |-> type, arg |-> arg]

(* Mutation of Service: the end of the list is sent before the list. *)
ServiceEndFirst(a) ==
    <<Frame("StartRegexp", Port[a]), Frame("EndRegexp", 0)>>
    \o SetToSeq({Frame("AddRegexp", b) : b \in bound[a]})

(* What SendService() sends. *)
Service(a) ==
    <<Frame("StartRegexp", Port[a])>>
    \o SetToSeq({Frame("AddRegexp", b) : b \in bound[a]})
    \o <<Frame("EndRegexp", 0)>>

(* Frames on one end. *)
On(e, frames) == [end \in {e} |-> frames]

(* The frames that a process sends, fs[e] on its end e: they wait in the   *)
(* kernel, also of an agent that did not call accept() yet, and are lost   *)
(* with an end that is gone.                                               *)
Sent(w, fs) ==
    [e \in End |-> IF Far(e) \in DOMAIN fs /\ state[e] \in {"waiting", "open", "closed"}
                   THEN w[e] \o fs[Far(e)]
                   ELSE w[e]]

-----------------------------------------------------------------------------
(* The detection of an agent met twice *)

(* Ports as they are in the memory of a little-endian machine. *)
htons(p) == (p % 16) * 16 + p \div 16

(* SocketGetRemotePort(), SocketGetRemoteAddr(): client->from was filled by *)
(* accept(), in network order; connect() leaves it zero.                   *)
RemotePort(e) == IF e[3] = "in" THEN htons(from[Far(e)]) ELSE 0
RemoteAddr(e) == IF e[3] = "in" THEN "localhost" ELSE "0.0.0.0"

LocalPort(e) == IF e[3] = "in" THEN Port[e[1]] ELSE from[e]

(* The clients that CheckConnected() finds: any one may be the first. *)
CheckConnected(e) ==
    {o \in EndsOf(e[1]) \ {e} :
        /\ state[o] \in {"open", "closed"}
        /\ RemotePort(e) # 0
        /\ RemotePort(e) = app_port[o]
        /\ RemoteAddr(o) = RemoteAddr(e)}

MaxPort(e) == IF LocalPort(e) > RemotePort(e) THEN LocalPort(e) ELSE RemotePort(e)

(* Which of two links to close. *)
Target(other, e) == IF MaxPort(other) > MaxPort(e) THEN other ELSE e

-----------------------------------------------------------------------------
(* Starting: the steps of IvyStart(), in its order *)

Running == {a \in Agent : phase[a] \in {"listening", "joined", "up"}}

(* SocketServer(): from here on the kernel takes connections. *)
SocketServer(a) ==
    /\ phase[a] = "off"
    /\ phase' = [phase EXCEPT ![a] = "listening"]
    /\ UNCHANGED <<heard, bound, state, wire, client, asked, greeted, from>>

(* Whose UDP socket is bound. *)
Hearers == {a \in Agent : phase[a] \in {"joined", "up"}}

SocketBroadcastCreate(a) ==
    /\ phase[a] = "listening"
    /\ phase' = [phase EXCEPT ![a] = "joined"]
    /\ UNCHANGED <<heard, bound, state, wire, client, asked, greeted, from>>

(* SocketSendBroadcast(): everybody hears it, the sender as well. *)
SocketSendBroadcast(a) ==
    /\ phase[a] = "joined"
    /\ phase' = [phase EXCEPT ![a] = "up"]
    /\ heard' = [b \in Agent |-> IF b \in Hearers THEN heard[b] \cup {a} ELSE heard[b]]
    /\ UNCHANGED <<bound, state, wire, client, asked, greeted, from>>

(* Mutation of Answers: who connects is agreed on by the ports. *)
AnswersGreater(a, x) == Port[a] < Port[x]

(* "check if we received our own message", by the unique identifier. *)
Answers(a, x) == a # x

-----------------------------------------------------------------------------
(* The two ends of a link come up *)

(* SendService() of an end that opens: w are the wires. *)
SendService(w, e) ==
    /\ state' = [state EXCEPT ![e] = "open",
                             ![Far(e)] = IF e[3] = "out" THEN "waiting" ELSE @]
    /\ wire' = w
    /\ readyToSend' = [readyToSend EXCEPT ![e] = 1]
    /\ asked' = [asked EXCEPT ![e] = Greeting \in bound[e[1]]]

(* Connecting succeeds as soon as the other one listens; the kernel gives  *)
(* the connection a port.                                                  *)
SocketConnectAddr(e) == \E p \in Ephemeral[e[1]] : from' = [from EXCEPT ![e] = p]

BroadcastReceive(a) ==
    /\ phase[a] = "up"
    /\ \E x \in heard[a] :
          LET e == <<a, x, "out">>
          IN  /\ heard' = [heard EXCEPT ![a] = @ \ {x}]
              /\ IF Answers(a, x) /\ x \in Running
                 THEN SocketConnectAddr(e) /\ SendService([wire EXCEPT ![Far(e)] = Service(a)], e)
                 ELSE UNCHANGED <<state, wire, readyToSend, asked, from>>
    /\ UNCHANGED <<phase, bound, app_port, ignore, held, greeted>>

(* A client that is connected already is closed without a word. *)
ClientCreate(e) ==
    IF CheckConnected(e) = {}
    THEN SendService(Sent(wire, On(e, Service(e[1]))), e)
    ELSE state' = [state EXCEPT ![e] = "closed"] /\ UNCHANGED <<wire, readyToSend, asked>>

(* accept() *)
HandleServer(e) ==
    /\ phase[e[1]] = "up"
    /\ state[e] = "waiting"
    /\ ClientCreate(e)
    /\ UNCHANGED <<phase, heard, bound, app_port, ignore, held, greeted, from>>

-----------------------------------------------------------------------------
(* Frames are interpreted: Receive() *)

(* A line of an end that the loop still reads.  What follows a Bye is the  *)
(* end of the stream; what follows a duplicate is ignored.                 *)
Receive(e, type) ==
    /\ phase[e[1]] = "up"
    /\ state[e] = "open"
    /\ ~ignore[e]
    /\ wire[e] # <<>> /\ Head(wire[e]).type = type

Taken(e) == [wire EXCEPT ![e] = Tail(@)]

(* The port is noted before the check; of two links, the one with the      *)
(* greater port is closed.                                                 *)
ReceiveStart(e) ==
    /\ Receive(e, "StartRegexp")
    /\ app_port' = [app_port EXCEPT ![e] = Head(wire[e]).arg]
    /\ IF CheckConnected(e) = {}
       THEN wire' = Taken(e) /\ UNCHANGED <<state, ignore>>
       ELSE \E other \in CheckConnected(e) :
               LET t == Target(other, e)
               IN  /\ wire' = Sent(Taken(e), On(t, <<Frame("Error", 0)>>))
                   /\ state' = [state EXCEPT ![t] = "closed"]
                   /\ ignore' = [ignore EXCEPT ![t] = TRUE]
    /\ UNCHANGED <<phase, heard, bound, readyToSend, held, asked, greeted, from>>

ReceiveAdd(e) ==
    /\ Receive(e, "AddRegexp")
    /\ held' = [held EXCEPT ![e] = @ \cup {Head(wire[e]).arg}]
    /\ wire' = Taken(e)
    /\ UNCHANGED <<phase, heard, bound, state, app_port, readyToSend, ignore, asked, greeted, from>>

(* Mutation of IsReady: the end of the own list is not counted. *)
IsReadyAtOne(n) == n = 1

IsReady(n) == n = 2

(* ClientCall(): the ready message, if the peer wants it. *)
ReadyMessage(e) == IF Greeting \in held[e] THEN <<Frame("Msg", Greeting)>> ELSE <<>>

ReceiveEnd(e) ==
    /\ Receive(e, "EndRegexp")
    /\ readyToSend' = [readyToSend EXCEPT ![e] = @ + 1]
    /\ wire' = Sent(Taken(e),
                    On(e, IF IsReady(readyToSend'[e]) THEN ReadyMessage(e) ELSE <<>>))
    /\ UNCHANGED <<phase, heard, bound, state, app_port, ignore, held, asked, greeted, from>>

(* A message calls its callback, an error is only printed. *)
ReceiveMsg(e) ==
    /\ \E type \in {"Msg", "Error"} :
          /\ Receive(e, type)
          /\ greeted' = [greeted EXCEPT ![e] = IF type = "Msg" THEN @ + 1 ELSE @]
    /\ wire' = Taken(e)
    /\ UNCHANGED <<phase, heard, bound, state, client, asked, from>>

(* Bye, and recv() that answers 0: the channel is removed. *)
ReceiveBye(e) ==
    /\ Receive(e, "Bye") \/ Receive(e, "EOF")
    /\ state' = [state EXCEPT ![e] = "closed"]
    /\ wire' = Taken(e)
    /\ UNCHANGED <<phase, heard, bound, client, asked, greeted, from>>

-----------------------------------------------------------------------------
(* Ends of links, and of agents *)

(* Mutation of Forgotten: what the dictionary holds of the clients stays. *)
ForgottenLater(ends) == held

(* delOneClient(): the dictionary, then the client itself is freed. *)
Forgotten(ends) == [e \in End |-> IF e \in ends THEN {} ELSE held[e]]

Freed(ends) ==
    /\ held' = Forgotten(ends)
    /\ app_port' = [e \in End |-> IF e \in ends THEN 0 ELSE app_port[e]]
    /\ readyToSend' = [e \in End |-> IF e \in ends THEN 0 ELSE readyToSend[e]]
    /\ ignore' = [e \in End |-> e \notin ends /\ ignore[e]]
    /\ asked' = [e \in End |-> e \notin ends /\ asked[e]]
    /\ greeted' = [e \in End |-> IF e \in ends THEN 0 ELSE greeted[e]]

(* DeleteSocket(): the peer reads the end of the stream. *)
DeleteSocket(e) == wire' = [Sent(wire, On(e, <<Frame("EOF", 0)>>)) EXCEPT ![e] = <<>>]

(* The deferred deletion of a channel. *)
ClientDelete(e) ==
    /\ phase[e[1]] = "up"
    /\ state[e] = "closed"
    /\ state' = [state EXCEPT ![e] = "gone"]
    /\ DeleteSocket(e)
    /\ Freed({e})
    /\ UNCHANGED <<phase, heard, bound, from>>

(* The process ends: the kernel closes its links, after the frames last.   *)
Exit(a, last) ==
    LET live == {e \in EndsOf(a) : state[e] \in {"waiting", "open", "closed"}}
        w    == Sent(wire, [e \in live |->
                    (IF state[e] = "waiting" THEN <<>> ELSE last) \o <<Frame("EOF", 0)>>])
    IN  /\ phase' = [phase EXCEPT ![a] = "gone"]
        /\ heard' = [heard EXCEPT ![a] = {}]
        /\ bound' = [bound EXCEPT ![a] = {}]
        /\ state' = [e \in End |-> IF e \in live THEN "gone" ELSE state[e]]
        /\ wire' = [e \in End |-> IF e \in EndsOf(a) THEN <<>> ELSE w[e]]
        /\ Freed(EndsOf(a))
        /\ UNCHANGED from

Crash(a) == a \in Mortal \cap Running /\ Exit(a, <<>>)

(* Bye to all clients. *)
IvyCleanup(a) == Exit(a, <<Frame("Bye", 0)>>)

ReceiveDie(e) == Receive(e, "Die") /\ IvyCleanup(e[1])

(* Bounded: not twice at a time. *)
IvySendDieMsg(e) ==
    /\ phase[e[1]] = "up" /\ e[1] \in Killer
    /\ state[e] = "open"
    /\ ~Contains(wire[Far(e)], Frame("Die", 0))
    /\ wire' = Sent(wire, On(e, <<Frame("Die", 0)>>))
    /\ UNCHANGED <<phase, heard, bound, state, client, asked, greeted, from>>

(* Mutation of Clients: only those that are ready. *)
ReadyClients(a) == {e \in EndsOf(a) : readyToSend[e] = 2}

(* allClients *)
Clients(a) == {e \in EndsOf(a) : state[e] \in {"open", "closed"} /\ readyToSend[e] > 0}

IvyBindMsg(a, b) ==
    /\ phase[a] \in {"off", "up"}
    /\ b \notin bound[a]
    /\ bound' = [bound EXCEPT ![a] = @ \cup {b}]
    /\ wire' = Sent(wire, [e \in Clients(a) |-> <<Frame("AddRegexp", b)>>])
    /\ UNCHANGED <<phase, heard, state, client, asked, greeted, from>>

-----------------------------------------------------------------------------

(* What the loop of an agent does with the channel of a client. *)
Handle(e) ==
    \/ HandleServer(e) \/ ClientDelete(e)
    \/ ReceiveStart(e) \/ ReceiveAdd(e) \/ ReceiveEnd(e)
    \/ ReceiveMsg(e) \/ ReceiveBye(e) \/ ReceiveDie(e)

(* IvyStart(), once begun. *)
IvyStart(a) == SocketBroadcastCreate(a) \/ SocketSendBroadcast(a)

(* What an agent does of itself. *)
Run(a) == IvyStart(a) \/ BroadcastReceive(a) \/ \E e \in EndsOf(a) : Handle(e)

Next ==
    \E a \in Agent :
        \/ SocketServer(a) \/ Run(a) \/ Crash(a)
        \/ \E b \in Binding : IvyBindMsg(a, b)
        \/ \E e \in EndsOf(a) : IvySendDieMsg(e)

(* An agent that is started goes on, to its loop, as long as a socket of    *)
(* it can be read; nothing obliges anyone to start, to bind or to die.     *)
Spec ==
    /\ Init /\ [][Next]_vars
    /\ \A a \in Agent : WF_vars(Run(a))

-----------------------------------------------------------------------------
(* Properties *)

Up(e) == phase[e[1]] = "up" /\ state[e] = "open"

(* Types, and the two ends of a link: an agent that is gone has none, one  *)
(* that is not accepted yet has one that waits for it; what the dictionary *)
(* holds belongs to a client that is there; the ready message comes once.  *)
BusTypeOK ==
    /\ phase \in [Agent -> {"off", "listening", "joined", "up", "gone"}]
    /\ heard \in [Agent -> SUBSET Agent] /\ bound \in [Agent -> SUBSET Binding]
    /\ state \in [End -> {"none", "waiting", "open", "closed", "gone"}]
    /\ readyToSend \in [End -> 0..2] /\ greeted \in [End -> 0..1]
    /\ held \in [End -> SUBSET Binding]
    /\ \A e \in End :
          /\ state[e] \in {"open", "closed"} => phase[e[1]] = "up" /\ state[Far(e)] # "none"
          /\ state[e] = "waiting" => e[3] = "in" /\ e[1] \in Running
          /\ held[e] # {} => state[e] \in {"open", "closed"}

AddsOf(e) == Without(wire[e], {f \in ToSet(wire[e]) : f.type # "AddRegexp"})

(* What an agent holds of its peer and what is on its way are the bindings *)
(* of the peer, each once: also of those made while the lists cross, and   *)
(* before the link is ready (SendService:759, IvyBindMsg:1168).            *)
HoldsWhatIsBound ==
    \A e \in End : Up(e) /\ Up(Far(e)) =>
        LET coming == [k \in DOMAIN AddsOf(e) |-> AddsOf(e)[k].arg]
        IN  /\ held[e] \cup ToSet(coming) = bound[e[2]]
            /\ held[e] \cap ToSet(coming) = {}
            /\ IsInjective(coming)

Linked(a, b) == \E e \in EndsOf(a) :
    e[2] = b /\ \A end \in {e, Far(e)} : Up(end) /\ readyToSend[end] = 2

NoTrace(a, b) == \A e \in EndsOf(a) :
    e[2] = b => state[e] \in {"none", "gone"} /\ held[e] = {}

(* Two agents that run find each other, in whatever order they start, and  *)
(* one that dies is forgotten by all (IvyStart:990, BroadcastReceive:862,  *)
(* ClientDelete:792): the bus comes to rest with everybody linked.         *)
Settled ==
    \A a \in Agent : \A b \in Agent \ {a} :
        phase[a] = "up" => CASE phase[b] = "up"   -> Linked(a, b)
                             [] phase[b] = "gone" -> NoTrace(a, b)
                             [] OTHER -> TRUE

MembershipSettles == []<>Settled

(* An agent that had bound the greeting when it met its peer gets the      *)
(* ready message once, whatever was bound or who left meanwhile, and one   *)
(* that had not gets none (Receive:714-723).                               *)
Greeted ==
    \A e \in End : Up(e) /\ Up(Far(e)) => greeted[e] = IF asked[e] THEN 1 ELSE 0

GreetedInTime == []<>Greeted

(* ivy.c:630 "the symetric processing will try to close each other, only   *)
(* one side may be closed": two agents that are ready have one link.       *)
OneLinkPerPair ==
    \A e, f \in End :
        (/\ e[1] = f[1] /\ e[2] = f[2] /\ e # f
         /\ \A end \in {e, f, Far(e), Far(f)} : Up(end) /\ wire[end] = <<>>) => FALSE

(* ivy.c:649 "Application already connected": an agent is turned away only *)
(* where another link with it is up.                                       *)
OnlyDoublesAreClosed ==
    \A e \in End :
        (state[e] = "closed" /\ wire[e] = <<>> /\ Up(Far(e))) =>
            \E f \in EndsOf(e[1]) : f # e /\ f[2] = e[2] /\ state[f] = "open"
=============================================================================

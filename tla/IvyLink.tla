------------------------------ MODULE IvyLink ------------------------------
(***************************************************************************)
(* One direction of a TCP link between two agents (ivysocket.c): an agent  *)
(* that sends frames, the bytes the two kernels hold, and the agent that   *)
(* cuts what it reads into frames again.                                   *)
(*                                                                         *)
(* Sockets do not block.  What the kernel does not take waits in a fifo of *)
(* the sender, of which ByteQueue says what it promises; IvyFifo           *)
(* implements it.  It does not promise a clean queue: when the second of   *)
(* two send() is refused a stray byte joins what waits (Slip), and the     *)
(* stream goes on with it.  A message of a subscription is sent in two     *)
(* parts, the number of the subscription and the arguments; every other    *)
(* frame in one.                                                           *)
(*                                                                         *)
(* The link stays up: what its end does to the channel is in IvyLoop.      *)
(***************************************************************************)
EXTENDS ByteQueue, FiniteSetsExt

CONSTANTS
    MaxMsg,     \* a bound: the frames sent
    MaxArgs,    \* a bound: the bytes of the arguments of a frame
    NetSize,    \* the bytes the kernels hold
    BufferSize  \* IVY_BUFFER_SIZE

Parts == {"id", "arg", "nl"}

(* A byte is known by its frame and by what it is there; the stray byte    *)
(* looks like any other and is of no frame.                                *)
ASSUME ByteAssumption == Byte = [msg : 0..MaxMsg, part : Parts]
ASSUME StrayAssumption == Stray \in Byte /\ Stray.msg = 0
ASSUME LinkAssumption ==
    /\ MaxMsg \in Nat /\ MaxArgs \in Nat
    /\ NetSize \in Nat \ {0} /\ BufferSize \in Nat \ {0}

VARIABLES
    congested,      \* sender: client->ifb is there
    writable,       \* sender: the channel waits for select() to say it can write
    body,           \* sender: the second part of a message, still to be sent
    s1,             \* sender: what sending the first part returned
    told,           \* sender: the last event given to application_callback
    net,            \* the bytes on their way
    buffer,         \* receiver: the bytes from client->buffer to client->ptr
    buffer_size,    \* receiver
    (* History variables, sent a bound as well. *)
    sent,           \* how many frames were begun
    accepted,       \* the bytes the kernel or the fifo took
    interpreted,    \* the bytes of the lines given to the interpretation
    refused,        \* the frames of which the fifo refused a part
    slipped         \* a stray byte has joined the stream

sender == <<congested, writable, body, s1, told>>
receiver == <<buffer, buffer_size, interpreted>>
linkVars == <<queueVars, sender, net, receiver, sent, accepted, refused, slipped>>

LinkInit ==
    /\ Init
    /\ congested = FALSE /\ writable = FALSE
    /\ body = <<>> /\ s1 = "ok"
    /\ told = "none"
    /\ net = <<>>
    /\ buffer = <<>> /\ buffer_size = BufferSize
    /\ sent = 0
    /\ accepted = <<>> /\ interpreted = <<>>
    /\ refused = {} /\ slipped = FALSE

-----------------------------------------------------------------------------
(* Sending *)

Room == NetSize - Len(net)

(* IvyFifoWrite() of data, before which the kernel has taken taken. *)
FifoWrite(taken, data) ==
    \/ /\ Accept(data)
       /\ accepted' = accepted \o taken \o data
       /\ UNCHANGED refused
    \/ /\ Refuse(data)
       /\ accepted' = accepted \o taken
       /\ refused' = refused \cup {Head(data).msg}

(* The socket is congested: the data joins what waits. *)
Append2Fifo(data, state) ==
    /\ congested
    /\ FifoWrite(<<>>, data)
    /\ state = (IF full' THEN "full" ELSE "still")
    /\ UNCHANGED <<congested, writable, net>>

(* Mutation of SendWhole: the fifo is not looked at. *)
SendWholeAnyway(data, state) ==
    /\ Len(data) <= Room
    /\ net' = net \o data
    /\ accepted' = accepted \o data
    /\ state = "ok"
    /\ UNCHANGED <<queueVars, congested, writable, refused>>

(* send() takes everything. *)
SendWhole(data, state) ==
    /\ ~congested
    /\ Len(data) <= Room
    /\ net' = net \o data
    /\ accepted' = accepted \o data
    /\ state = "ok"
    /\ UNCHANGED <<queueVars, congested, writable, refused>>

(* Mutation of SendPart: the channel does not wait to be writable. *)
SendPartQuietly(data, state) ==
    /\ ~congested
    /\ \E n \in 0..(Len(data) - 1) :
          LET taken == SubSeq(data, 1, n)
          IN  /\ n <= Room
              /\ net' = net \o taken
              /\ FifoWrite(taken, SubSeq(data, n + 1, Len(data)))
    /\ congested' = TRUE
    /\ state = "change"
    /\ UNCHANGED writable

(* send() takes a part or, with EWOULDBLOCK, nothing: the rest begins a    *)
(* new fifo.                                                               *)
SendPart(data, state) ==
    /\ ~congested
    /\ \E n \in 0..(Len(data) - 1) :
          LET taken == SubSeq(data, 1, n)
          IN  /\ n <= Room
              /\ net' = net \o taken
              /\ FifoWrite(taken, SubSeq(data, n + 1, Len(data)))
    /\ congested' = TRUE /\ writable' = TRUE
    /\ state = "change"

BufferizedSocketSendRaw(data, state) ==
    \/ Append2Fifo(data, state)
    \/ SendWhole(data, state)
    \/ SendPart(data, state)

States == {"ok", "change", "still", "full"}

Tell(state) ==
    told' = CASE state = "change" -> "Congestion"
              [] state = "full"   -> "FifoFull"
              [] OTHER            -> told

Id(m) == <<[msg |-> m, part |-> "id"]>>

Body(m, args) ==
    [i \in 1..args |-> [msg |-> m, part |-> "arg"]] \o <<[msg |-> m, part |-> "nl"]>>

(* MsgSendTo(): a frame in one part. *)
MsgSendTo ==
    /\ body = <<>>
    /\ sent < MaxMsg
    /\ sent' = sent + 1
    /\ \E args \in 0..MaxArgs, state \in States :
          /\ BufferizedSocketSendRaw(Id(sent + 1) \o Body(sent + 1, args), state)
          /\ Tell(state)
    /\ UNCHANGED <<body, s1, receiver, slipped>>

(* RegexpCall(): SocketSendRawWithId() sends the first part, *)
SendId ==
    /\ body = <<>>
    /\ sent < MaxMsg
    /\ sent' = sent + 1
    /\ \E args \in 0..MaxArgs : body' = Body(sent + 1, args)
    /\ \E state \in States :
          /\ BufferizedSocketSendRaw(Id(sent + 1), state)
          /\ s1' = state
    /\ UNCHANGED <<told, receiver, slipped>>

(* Mutation of Outcome: what the first part returned is forgotten. *)
OutcomeOfBody(s2) == s2

(* and whatever that returned the second part, *)
Outcome(s2) == IF s1 = "change" THEN s1 ELSE s2

(* after which the application is told. *)
SendBody ==
    /\ body # <<>>
    /\ \E s2 \in States : BufferizedSocketSendRaw(body, s2) /\ Tell(Outcome(s2))
    /\ body' = <<>> /\ s1' = "ok"
    /\ UNCHANGED <<receiver, sent, slipped>>

(* IvyFifoSendSocket() sends what the kernel takes; when nothing is left   *)
(* the fifo is deleted. *)
Drained ==
    \E n \in 0..Len(content) :
        /\ n <= Room
        /\ n = 0 => content = <<>>
        /\ net' = net \o SubSeq(content, 1, n)
        /\ IF n = Len(content)
           THEN /\ congested' = FALSE /\ writable' = FALSE
                /\ told' = "Decongestion"
                /\ content' = <<>> /\ full' = FALSE /\ out' = <<>>
           ELSE /\ Deliver(n)
                /\ UNCHANGED <<congested, writable, told>>
        /\ UNCHANGED slipped

(* The first send() fills the kernel and the second one is refused.        *)
DrainedTooFar ==
    /\ Slip(Room)
    /\ net' = net \o SubSeq(content, 1, Room)
    /\ slipped' = TRUE
    /\ UNCHANGED <<congested, writable, told>>

(* select() says that the kernel has room. *)
HandleCongestionWrite ==
    /\ body = <<>>
    /\ writable /\ Room > 0
    /\ Drained \/ DrainedTooFar
    /\ UNCHANGED <<body, s1, receiver, sent, accepted, refused>>

-----------------------------------------------------------------------------
(* Receiving *)

(* A buffer that is full is doubled before it is read into. *)
Grown == IF Len(buffer) = buffer_size THEN 2 * buffer_size ELSE buffer_size

(* Mutation of ToRead: the bytes kept from the last time are forgotten. *)
ToReadAll == Grown

ToRead == Grown - Len(buffer)

(* Mutation of EndOfLines: what was read is taken for whole lines. *)
EndOfLinesAll(bytes) == Len(bytes)

(* Where the last whole line ends. *)
EndOfLines(bytes) == Max({0} \cup {i \in DOMAIN bytes : bytes[i].part = "nl"})

(* The whole lines are interpreted one after the other, what follows them  *)
(* is moved to the start of the buffer.                                    *)
HandleSocket ==
    /\ \E n \in 1..Len(net) :
          LET bytes == buffer \o SubSeq(net, 1, n)
              end   == EndOfLines(bytes)
          IN  /\ n <= ToRead
              /\ interpreted' = interpreted \o SubSeq(bytes, 1, end)
              /\ buffer' = SubSeq(bytes, end + 1, Len(bytes))
              /\ net' = SubSeq(net, n + 1, Len(net))
    /\ buffer_size' = Grown
    /\ UNCHANGED <<queueVars, sender, sent, accepted, refused, slipped>>

(* The sender has nothing more to say. *)
Quiet ==
    /\ sent = MaxMsg /\ body = <<>>
    /\ UNCHANGED linkVars

-----------------------------------------------------------------------------
LinkNext ==
    \/ MsgSendTo \/ SendId \/ SendBody \/ HandleCongestionWrite
    \/ HandleSocket \/ Quiet

(* Both loops run: a callback of the sender goes on, select() says so when *)
(* the kernel has room, and the receiver reads.                            *)
LinkSpec ==
    /\ LinkInit /\ [][LinkNext]_linkVars
    /\ WF_linkVars(SendBody) /\ WF_linkVars(HandleCongestionWrite)
    /\ WF_linkVars(HandleSocket)

-----------------------------------------------------------------------------
(* Properties *)

(* The fifo is there only in a congestion, never fills its limit, and the  *)
(* receiver reads no further than its buffer (ivysocket.c:159-215).        *)
LinkTypeOK ==
    /\ content \in Seq(Byte) /\ Len(content) < MaxSize
    /\ ~congested => content = <<>> /\ ~full
    /\ net \in Seq(Byte) /\ Len(net) <= NetSize
    /\ buffer \in Seq(Byte) /\ Len(buffer) <= buffer_size
    /\ s1 \in States
    /\ told \in {"none", "Congestion", "FifoFull", "Decongestion"}
    /\ refused \subseteq 1..sent

(* The bytes of frames. *)
Written(bytes) == SelectSeq(bytes, LAMBDA byte : byte # Stray)

(* Between the two agents no byte that was accepted is lost, doubled or    *)
(* overtaken, through congestion, decongestion, refused send() and partial *)
(* reads: what was interpreted, what the receiver keeps, what is on its    *)
(* way and what waits in the fifo make up the stream, stray bytes apart    *)
(* (ivysocket.c:574-656, 159-233).                                         *)
StreamIsKept == accepted = Written(interpreted \o buffer \o net \o content)

(* As long as the fifo has refused nothing and no stray byte has joined    *)
(* the stream the interpretation is given the frames that were sent,       *)
(* whole, one by one and in order, wherever the stream was cut into reads  *)
(* (HandleSocket).                                                         *)
FrameBegins(bytes, i) == i = 1 \/ bytes[i - 1].part = "nl"

WholeFrames(bytes) ==
    /\ bytes # <<>> => Last(bytes).part = "nl"
    /\ \A i \in DOMAIN bytes :
          IF FrameBegins(bytes, i)
          THEN bytes[i].part = "id"
          ELSE bytes[i].part # "id" /\ bytes[i].msg = bytes[i - 1].msg

InOrder(bytes) ==
    \A i \in 2..Len(bytes) :
        bytes[i].msg = bytes[i - 1].msg + (IF FrameBegins(bytes, i) THEN 1 ELSE 0)

FramesArrive ==
    refused = {} /\ ~slipped => WholeFrames(interpreted) /\ InOrder(interpreted)

(* Between two callbacks the application knows whether the peer is         *)
(* congested: an agent that went on sending because it was not told, or    *)
(* waits for a decongestion that does not come, would be wrong             *)
(* (MsgSendTo:269, SocketSendRawWithId:677-680, HandleCongestionWrite).    *)
CongestionIsTold ==
    body = <<>> => (congested <=> told \in {"Congestion", "FifoFull"})

(* A congestion ends and, unless the fifo was full, everything that was    *)
(* accepted is interpreted in the end, whatever stray bytes come with it.  *)
EverythingArrives ==
    (congested \/ accepted # Written(interpreted))
        ~> (~congested /\ (accepted = Written(interpreted) \/ refused # {}))

(* doc/NEWS:24 "fifo has reach maximum size, subsequent messages sent to   *)
(* this agent will be lost": messages, not parts of them.  The fifo takes  *)
(* or refuses the two parts of a message one by one, and what follows a    *)
(* first part alone is read as its arguments.                              *)
MessagesAreLostWhole ==
    ~slipped => \A i \in 1..(Len(interpreted) - 1) :
        interpreted[i].part = "id" => interpreted[i + 1].msg = interpreted[i].msg
=============================================================================

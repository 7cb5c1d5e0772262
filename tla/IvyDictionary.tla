--------------------------- MODULE IvyDictionary ---------------------------
(***************************************************************************)
(* The dictionary of ivy.c: an agent, the publisher, keeps for each of its *)
(* clients the list of the expressions it subscribed to, and for each      *)
(* expression the list of the clients that want it.  Subscribers bind,     *)
(* unbind and change expressions, leave or crash, while frames are on      *)
(* their way in both directions.                                           *)
(*                                                                         *)
(* A message is the set of the expressions it matches (PCRE decides); an   *)
(* expression that does not compile is in no message.  Start frames change *)
(* nothing here, the handshake is in IvyBus.  TCP keeps the order.         *)
(***************************************************************************)
EXTENDS IvyList, SequencesExt

CONSTANTS
    Client,     \* the addresses of the publisher's struct _client
    Regexp,     \* expressions
    Message,    \* messages of the publisher: sets of expressions
    Filtered,   \* expressions that IvyBindingFilter() refuses
    Fickle,     \* clients whose program calls IvyChangeMsg()
    MaxCalls,   \* a bound: calls of the API and deaths of subscribers
    MaxFlight   \* a bound: the messages on their way to one client

ASSUME DictAssumption ==
    /\ Message \subseteq SUBSET Regexp
    /\ Filtered \subseteq Regexp
    /\ Fickle \subseteq Client
    /\ MaxCalls \in Nat /\ MaxFlight \in Nat

Steady == Client \ Fickle
Id == 0..MaxCalls
Binding == [id : Id, regexp : Regexp]

VARIABLES
    msg_recv,   \* subscriber: its bindings, the last one first
    recv_id,    \* subscriber: the next identifier
    link,       \* "down", "up", "left" by the subscriber, "closed" by the publisher
    frames,     \* on their way to the publisher
    msgs,       \* on their way to the subscriber
    id,         \* publisher: clnt->id
    srcRegList, \* publisher: clnt->srcRegList
    dict,       \* publisher: messSndByRegexp, in the order of its hh.next
    alive,      \* the publisher runs
    freed,      \* history: the clients of whom an element was read after free()
    calls       \* counts up to MaxCalls

subscriber == <<msg_recv, recv_id>>
publisher == <<id, srcRegList, dict, alive, freed>>
vars == <<subscriber, link, frames, msgs, publisher, calls>>

Init ==
    /\ msg_recv = [c \in Client |-> <<>>]
    /\ recv_id = [c \in Client |-> 0]
    /\ link = [c \in Client |-> "down"]
    /\ frames = [c \in Client |-> <<>>]
    /\ msgs = [c \in Client |-> <<>>]
    /\ id = [c \in Client |-> 0]
    /\ srcRegList = [c \in Client |-> <<>>]
    /\ dict = <<>>
    /\ alive = TRUE
    /\ freed = {}
    /\ calls = 0

-----------------------------------------------------------------------------
(* The dictionary: a sequence of expressions with their clientList.  The   *)
(* operators below take the dictionary d and return it changed.            *)

(* HASH_FIND_STR *)
Has(d, r) == \E k \in DOMAIN d : d[k].regexp = r

(* What the entries of the table name: the client, the identifier.         *)
Entry == [client : Client, id : Id]

(* IvyBindingFree(), HASH_DEL: an expression that nobody wants goes. *)
NoEmptyKey(d) == Without(d, {e \in ToSet(d) : e.clientList = <<>>})

(* Clients go from the lists of some expressions. *)
DropFrom(d, regexps, gone) ==
    NoEmptyKey([k \in DOMAIN d |->
        IF d[k].regexp \in regexps
        THEN [d[k] EXCEPT !.clientList = Without(@, gone)]
        ELSE d[k]])

(* Mutation of delOneIvyClientFromDictionaryEntry: the identifier is not   *)
(* compared.                                                               *)
delEveryIdFromDictionaryEntry(d, regexps, c, i) == DropFrom(d, regexps, [client : {c}, id : Id])

(* For one expression after the other. *)
delOneIvyClientFromDictionaryEntry(d, regexps, c, i) ==
    DropFrom(d, regexps, {[client |-> c, id |-> i]})

(* Mutation of delOneClientFromEveryEntry: the first loop of delOneClient()*)
(* is believed to have done it.                                            *)
delNothing(d, c) == d

(* delOneClientFromDictionaryEntry() for every entry. *)
delOneClientFromEveryEntry(d, c) == DropFrom(d, Regexp, [client : {c}, id : Id])

(* Mutation of addRegexpToDictionary: only the first client is entered. *)
addKeyToDictionary(d, r, c, i) ==
    IF Has(d, r) THEN d
    ELSE Append(d, [regexp |-> r, clientList |-> <<[client |-> c, id |-> i]>>])

addRegexpToDictionary(d, r, c, i) ==
    LET new == <<[client |-> c, id |-> i]>>
    IN  IF Has(d, r)
        THEN [k \in DOMAIN d |->
                 IF d[k].regexp # r THEN d[k]
                 ELSE [d[k] EXCEPT !.clientList = new \o @]]
        ELSE Append(d, [regexp |-> r, clientList |-> new])

changeRegexpInDictionary(d, r, c, i) ==
    addRegexpToDictionary(delOneIvyClientFromDictionaryEntry(d, {r}, c, i), r, c, i)

-----------------------------------------------------------------------------
(* The publisher: what it does for the frame of a client. *)

addRegexp(r, c, i) ==
    /\ dict' = addRegexpToDictionary(dict, r, c, i)
    /\ srcRegList' = [srcRegList EXCEPT ![c] = <<[id |-> i, regexp |-> r]>> \o @]

changeRegexp(r, c, i) ==
    /\ dict' = changeRegexpInDictionary(dict, r, c, i)
    /\ srcRegList' = [srcRegList EXCEPT ![c] = [k \in DOMAIN @ |->
           IF @[k].id = i THEN [@[k] EXCEPT !.regexp = r] ELSE @[k]]]

(* Mutation of IsChange: any subscription of the client is taken for the   *)
(* same one.                                                               *)
IsKnown(r, c, i) ==
    \E k \in DOMAIN dict :
        dict[k].regexp = r /\ \E e \in ToSet(dict[k].clientList) : e.client = c

(* The entry of a client that counts is the first one of the list. *)
IsFirst(list, j) == \A h \in 1..(j - 1) : list[h].client # list[j].client

IsChange(r, c, i) ==
    \E k \in DOMAIN dict :
        /\ dict[k].regexp = r
        /\ \E j \in DOMAIN dict[k].clientList :
              dict[k].clientList[j] = [client |-> c, id |-> i] /\ IsFirst(dict[k].clientList, j)

addOrChangeRegexp(r, c, i) ==
    IF IsChange(r, c, i) THEN changeRegexp(r, c, i) ELSE addRegexp(r, c, i)

Regexps(list, ids) == {b.regexp : b \in {b \in ToSet(list) : b.id \in ids}}

(* Every element of the list with an identifier in gone goes; the          *)
(* dictionary is searched for the identifier that the client last sent.    *)
delFromDictionary(d, list, c, gone, last) ==
    delOneIvyClientFromDictionaryEntry(d, Regexps(list, gone), c, last)

(* Mutation of delFromList: what has the expression of the first one found *)
(* goes as well.                                                           *)
delAlikeFromList(list, gone) ==
    Without(list, [id : gone, regexp : Regexp]
                  \cup [id : Id, regexp : Regexps(list, gone)])

delFromList(list, gone) == Without(list, [id : gone, regexp : Regexp])

delRegexpForOneClient(c, i) ==
    /\ dict' = delFromDictionary(dict, srcRegList[c], c, {i}, i)
    /\ srcRegList' = [srcRegList EXCEPT ![c] = delFromList(@, {i})]

(* delOneClient() walks the list with the next element at hand, while each *)
(* call of delRegexpForOneClient() frees all elements of one identifier:   *)
(* the next one is read after free() if it has the same identifier.        *)
ReadsFreed(list) ==
    \E k \in DOMAIN list :
        LET rest == delFromList(list, {list[j].id : j \in 1..(k - 1)})
        IN  /\ Len(rest) > 1
            /\ ~Contains(delFromList(rest, {rest[1].id}), rest[2])

(* Freed memory may read as it was, or end the process. *)
delOneClient(c) ==
    /\ dict' = delOneClientFromEveryEntry(
                   delFromDictionary(dict, srcRegList[c], c, Id, id[c]), c)
    /\ srcRegList' = [srcRegList EXCEPT ![c] = <<>>]
    /\ IF ReadsFreed(srcRegList[c])
       THEN freed' = freed \cup {c} /\ alive' \in BOOLEAN
       ELSE UNCHANGED <<freed, alive>>

-----------------------------------------------------------------------------
(* A subscriber *)

Frame(type, i, r) == [type |-> type, id |-> i, regexp |-> r]
NoRegexp == "none"

(* MsgSendTo(): a frame for the publisher, if it is there. *)
MsgSendTo(c, f) ==
    frames' = IF link[c] = "up" THEN [frames EXCEPT ![c] = Append(@, f)] ELSE frames

(* A subscriber that runs calls the API. *)
Call(c) ==
    /\ alive
    /\ link[c] \in {"down", "up"}
    /\ calls < MaxCalls /\ calls' = calls + 1
    /\ UNCHANGED publisher

(* Mutation of NextId: a number that is free is taken. *)
FreeId(c) == Len(msg_recv[c])

(* recv_id++ *)
NextId(c) == recv_id[c]

IvyBindMsg(c, r) ==
    /\ Call(c)
    /\ msg_recv' = [msg_recv EXCEPT ![c] = <<[id |-> NextId(c), regexp |-> r]>> \o @]
    /\ recv_id' = [recv_id EXCEPT ![c] = @ + 1]
    /\ MsgSendTo(c, Frame("AddRegexp", NextId(c), r))
    /\ UNCHANGED <<link, msgs>>

IvyUnbindMsg(c, k) ==
    /\ Call(c)
    /\ msg_recv' = [msg_recv EXCEPT ![c] = RemoveAt(@, k)]
    /\ MsgSendTo(c, Frame("DelRegexp", msg_recv[c][k].id, NoRegexp))
    /\ UNCHANGED <<recv_id, link, msgs>>

IvyChangeMsg(c, k, r) ==
    /\ Call(c)
    /\ c \in Fickle
    /\ msg_recv' = [msg_recv EXCEPT ![c][k].regexp = r]
    /\ MsgSendTo(c, Frame("AddRegexp", msg_recv[c][k].id, r))
    /\ UNCHANGED <<recv_id, link, msgs>>

(* SendService(): a new link begins with all bindings. *)
SendService(c) ==
    /\ Call(c)
    /\ link[c] = "down"
    /\ link' = [link EXCEPT ![c] = "up"]
    /\ frames' = [frames EXCEPT ![c] =
           [k \in DOMAIN msg_recv[c] |->
               Frame("AddRegexp", msg_recv[c][k].id, msg_recv[c][k].regexp)]
           \o <<Frame("EndRegexp", 0, NoRegexp)>>]
    /\ UNCHANGED <<subscriber, msgs>>

(* The program ends: by IvyCleanup(), with a Bye, or by a crash, which may *)
(* take along the last frames.  A later one begins from nothing.           *)
Leave(c) ==
    /\ Call(c)
    /\ link[c] = "up"
    /\ link' = [link EXCEPT ![c] = "left"]
    /\ \/ MsgSendTo(c, Frame("Bye", 0, NoRegexp))
       \/ \E n \in 0..Len(frames[c]) : frames' = [frames EXCEPT ![c] = SubSeq(@, 1, n)]
    /\ msg_recv' = [msg_recv EXCEPT ![c] = <<>>]
    /\ recv_id' = [recv_id EXCEPT ![c] = 0]
    /\ msgs' = [msgs EXCEPT ![c] = <<>>]

(* Receive(), Msg: the binding with the number of the message. *)
Called(c, i) == {rcv \in ToSet(msg_recv[c]) : rcv.id = i}

ReceiveMsg(c) ==
    /\ msgs[c] # <<>>
    /\ msgs' = [msgs EXCEPT ![c] = Tail(@)]
    /\ UNCHANGED <<subscriber, link, frames, publisher, calls>>

-----------------------------------------------------------------------------
(* The publisher *)

(* Receive(): a frame of a client, of a type. *)
Receive(c, type) ==
    /\ alive
    /\ link[c] \in {"up", "left"}
    /\ frames[c] # <<>> /\ Head(frames[c]).type = type
    /\ id' = [id EXCEPT ![c] = Head(frames[c]).id]
    /\ frames' = [frames EXCEPT ![c] = Tail(@)]
    /\ UNCHANGED <<subscriber, msgs, alive, freed, calls>>

(* IvyBindingFilter() *)
Accepted(r) == r \notin Filtered

ReceiveAdd(c) ==
    /\ Receive(c, "AddRegexp")
    /\ LET f == Head(frames[c])
       IN  IF Accepted(f.regexp)
           THEN addOrChangeRegexp(f.regexp, c, f.id)
           ELSE UNCHANGED <<dict, srcRegList>>
    /\ UNCHANGED link

ReceiveDel(c) ==
    /\ Receive(c, "DelRegexp")
    /\ delRegexpForOneClient(c, Head(frames[c]).id)
    /\ UNCHANGED link

ReceiveEnd(c) ==
    /\ Receive(c, "EndRegexp")
    /\ UNCHANGED <<link, dict, srcRegList>>

ReceiveBye(c) ==
    /\ Receive(c, "Bye")
    /\ link' = [link EXCEPT ![c] = "closed"]
    /\ UNCHANGED <<dict, srcRegList>>

(* HandleSocket(): recv() answers 0, or fails. *)
EndOfFile(c) ==
    /\ alive
    /\ link[c] = "left" /\ frames[c] = <<>>
    /\ link' = [link EXCEPT ![c] = "closed"]
    /\ UNCHANGED <<subscriber, frames, msgs, publisher, calls>>

(* The deferred deletion of the channel. *)
ClientDelete(c) ==
    /\ alive
    /\ link[c] = "closed"
    /\ link' = [link EXCEPT ![c] = "down"]
    /\ delOneClient(c)
    /\ id' = [id EXCEPT ![c] = 0]
    /\ UNCHANGED <<subscriber, frames, msgs, calls>>

(* RegexpCall(): a message for every client of an expression it matches. *)
Sent(entry, c) ==
    LET mine == Without(entry.clientList, [client : Client \ {c}, id : Id])
    IN  [k \in DOMAIN mine |-> [id |-> mine[k].id, regexp |-> entry.regexp]]

(* IvyBindingExec(); an expression that did not compile matches nothing. *)
IvyBindingExec(r, m) == r \in m

(* IvySendMsg(): in the order of the dictionary. *)
IvySendMsg(m) ==
    /\ alive
    /\ LET matched == Without(dict, {entry \in ToSet(dict) : ~IvyBindingExec(entry.regexp, m)})
       IN  msgs' = [c \in Client |->
                       IF link[c] # "up" THEN msgs[c]
                       ELSE msgs[c] \o FlattenSeq([k \in DOMAIN matched |-> Sent(matched[k], c)])]
    /\ \A c \in Client : Len(msgs'[c]) <= MaxFlight
    /\ msgs' # msgs
    /\ UNCHANGED <<subscriber, link, frames, publisher, calls>>

-----------------------------------------------------------------------------
Listen(c) ==
    \/ ReceiveAdd(c) \/ ReceiveDel(c) \/ ReceiveEnd(c) \/ ReceiveBye(c)
    \/ EndOfFile(c) \/ ClientDelete(c)

Next ==
    \/ \E c \in Client :
          \/ \E r \in Regexp : IvyBindMsg(c, r)
          \/ \E k \in DOMAIN msg_recv[c] :
                \/ IvyUnbindMsg(c, k)
                \/ \E r \in Regexp : IvyChangeMsg(c, k, r)
          \/ SendService(c) \/ Leave(c)
          \/ ReceiveMsg(c)
          \/ Listen(c)
    \/ \E m \in Message : IvySendMsg(m)

(* The loop of the publisher reads what has come and deletes what is gone. *)
Spec == Init /\ [][Next]_vars /\ \A c \in Client : WF_vars(Listen(c))

-----------------------------------------------------------------------------
(* Properties *)

(* Whom messages go to. *)
Served ==
    UNION {{<<e.client, e.id, entry.regexp>> : e \in ToSet(entry.clientList)} : entry \in ToSet(dict)}

TypeOK ==
    /\ \A c \in Client :
          /\ link[c] \in {"down", "up", "left", "closed"}
          /\ msg_recv[c] \in Seq(Binding) /\ srcRegList[c] \in Seq(Binding)
    /\ \A k \in DOMAIN dict :
          /\ dict[k].regexp \in Regexp
          /\ dict[k].clientList \in Seq([client : Client, id : Id])

(* An expression is once in the table, and somebody wants it. *)
KeysAreWanted ==
    /\ \A k \in DOMAIN dict : dict[k].clientList # <<>>
    /\ \A k, l \in DOMAIN dict : dict[k].regexp = dict[l].regexp => k = l

(* The table names no client that was freed: the next client may get its   *)
(* address, and its messages.                                              *)
GoneIsForgotten ==
    \A s \in Served : link[s[1]] # "down"

(* What a client has in its list has its entry in the table. *)
ListedIsServed ==
    \A c \in Client : \A b \in ToSet(srcRegList[c]) : <<c, b.id, b.regexp>> \in Served

(* The table of expressions and the lists of the clients agree, whatever   *)
(* the clients bind, change, give up, and whenever they leave              *)
(* (ivy.c:1545-1950).                                                      *)
DictionaryAgrees == TypeOK /\ KeysAreWanted /\ GoneIsForgotten /\ ListedIsServed

(* What the publisher would hold of a client after the frames on their way: *)
(* what it holds and what comes, if it is not given up behind that.        *)
Kept(c, b, n) ==
    \A l \in (n + 1)..Len(frames[c]) : frames[c][l] # Frame("DelRegexp", b.id, NoRegexp)

Held(c) ==
    {b \in ToSet(srcRegList[c]) : Kept(c, b, 0)} \cup
    {b \in Binding :
        /\ b.regexp \notin Filtered
        /\ \E n \in DOMAIN frames[c] :
              frames[c][n] = Frame("AddRegexp", b.id, b.regexp) /\ Kept(c, b, n)}

(* A subscriber that never changes an expression and its publisher never   *)
(* come apart: the list of the publisher with the frames on their way makes *)
(* up the bindings of the subscriber, those made before the link and those *)
(* given up since, and no entry is double (SendService:759, IvyBindMsg:1168, *)
(* IvyUnbindMsg:1153).                                                     *)
EndsAgree ==
    \A c \in Steady :
        link[c] = "up" =>
            /\ Held(c) = {b \in ToSet(msg_recv[c]) : b.regexp \notin Filtered}
            /\ IsInjective(srcRegList[c])
            /\ \A k \in DOMAIN dict : \A i, j \in DOMAIN dict[k].clientList :
                  LET list == dict[k].clientList
                  IN  list[i] = list[j] /\ list[i].client = c => i = j

(* A message that was sent for a binding its subscriber has given up since *)
(* calls no other one (Receive:672-695, recv_id:1173).                     *)
LateMessageIsDropped ==
    \A c \in Steady : \A m \in ToSet(msgs[c]) :
        \A rcv \in Called(c, m.id) : rcv.regexp = m.regexp

(* The walk of delOneClient() reads freed memory only for a client that    *)
(* changed an expression, never for one that bound and unbound, in any     *)
(* order (ivy.c:1789-1799).                                                *)
FreedOnlyAfterChange == freed \subseteq Fickle

(* A moment comes when everything a linked subscriber has bound is served, *)
(* and who left is forgotten (Receive:552, ClientDelete:792).              *)
AllServed(c) ==
    \A b \in ToSet(msg_recv[c]) :
        b.regexp \in Filtered \/ <<c, b.id, b.regexp>> \in Served

Forgotten(c) == \A s \in Served : s[1] # c

BothEndsSettle ==
    \A c \in Client :
        /\ (c \in Steady /\ link[c] = "up") ~> (AllServed(c) \/ link[c] # "up" \/ ~alive)
        /\ link[c] = "left" ~> (Forgotten(c) \/ ~alive)

(* Towards a client that never changes an expression the dictionary is     *)
(* what Subscriptions promises, whatever the others do (ivy.c:1690-1950).  *)
Promise == INSTANCE Subscriptions WITH
    Client <- Steady,
    served <- {s \in Served : s[1] \in Steady}

ImplementsSubscriptions == Promise!Spec

(* ivy.c:1199 "changement de regexp d'un bind existant": once the frames   *)
(* have arrived the publisher sends for the new expression, not for the    *)
(* old one.                                                                *)
ChangeReplaces ==
    \A c \in Client :
        (alive /\ link[c] = "up" /\ frames[c] = <<>>) =>
            \A s \in Served :
                s[1] = c => Contains(msg_recv[c], [id |-> s[2], regexp |-> s[3]])
=============================================================================

# GUID-COMM verification

TLA+ specifications, TLC runs and TLAPS proofs for GUID-COMM, the application of
`src/` that turns a lateral deviation from a trajectory into flight commands, and
for the parts of the Ivy software bus (`src/ivy-c_3.15.1`) it runs on.

## 1. The system

GUID-COMM is one single-threaded C process. `main()` calls `start()` at most four
times; `start()` joins the Ivy bus, binds nine callbacks and runs `IvyMainLoop()`.
Everything else happens in callbacks, each run to completion by the loop:

    peers --TCP--> IvyMainLoop --> HandleSocket --> Receive --> callback
                        ^                                          |
                        |  IvyStop() clears MainLoop               | reads and writes
                        +------------ error() <--------------------+ shared variables

Data goes from one callback to the next through the global variables of
`app_guid_comm.h`: each holds a value and a flag `modif` (1: updated, 0: used,
negative: a count of errors). When an error is judged serious `error()` announces
a restart on the bus and calls `IvyStop()`; the loop ends its `select()` round, and
`main()` calls `start()` again.

### Components

| Component | State | Operations | What is hard | What makes it correct |
|---|---|---|---|---|
| Application callbacks (`app_guid_comm.c`) | the shared variables, `AP_MODE_VAL`, `flight_starting`, `nb_try` | nine bound callbacks, SIGINT, `main()`'s loop | messages of different peers in any order; stop in the middle of a round; state that survives a warm restart | commands that leave are the ones computed since the last tick; a missing computation is reported; a stop is announced; restart reaches a running loop or the end |
| Error manager (`errors.c`) | the counters in `modif` | `error`, `error_init`, `testFormat` | a comparison with exactly -3; counters charged to the wrong datum; counters that survive a restart | three errors of one datum, or two at once, stop the application; counters start at 0 |
| Command computation (`computing.c`) | values and flags of the five commands | `computeCmd`, two guidance laws | wrap-around of angles, division by speed, PI gains | heading error folded to the shortest turn |
| Ivy main loop (`ivyloop.c`) | `channels_list`, the fd sets, `MainLoop` | add, remove, write-ready, the `select()` round | a channel removed by a callback of the round that serves it | no callback on a channel after its deferred delete ran, no leak |
| Ivy timers (`timer.c`) | list of timers, `nextTime` | repeat, modify, remove, `TimerScan` | timers created, changed or removed from inside a timer's callback | a timer fires the number of times it was created for |
| Ivy output fifo (`ivyfifo.c`) | ring buffer, size, full flag | write with growth, read, drain, send | wrap-around, growth, limit of 32 MiB, partial and failed sends | bytes come out in order, nothing in between lost |
| Ivy sockets (`ivysocket.c`) | per client: fd, fifo, read buffer | connect, accept, send with congestion, frame reassembly | partial writes, congestion between two parts of a frame, death of a peer | frames arrive whole and in order or the peer is dropped |
| Ivy bus protocol (`ivy.c`) | per client: name, port, number of the last frame, `readyToSend`, list of its expressions; own bindings | start, broadcast, handshake, ready message, Bye, Die | simultaneous start, two connections of one pair, crash of a peer at any moment, bindings made while the lists cross | everybody who runs is linked, who is gone is forgotten, an end holds what its peer has bound |
| Ivy dictionary (`ivy.c`) | table from expressions to lists of clients, beside the lists of the clients | add, change and delete an expression, delete a client, dispatch | two structures that must agree; a walk over a list that is being freed; numbers of bindings that are used again | who subscribed, and has not given up, is served; nobody else |
| Ivy bindings (`ivybind.c`) | compiled expressions, list of filters | compile, match, filter | none concurrent | a filter never hides a binding that could match |
| Interval expressions (`intervalRegexp.c`) | none | interval to regular expression | section 5 | matches exactly the integers of the interval |
| Adapters to Glib, Xt, GLUT, Tcl | - | forward to the toolkit | not linked into the application | - |
| Ivy tools and examples | - | test programs | - | - |
| Simulator (`seq_sim.c`) | none | answers a tick with one `GS_Data` | section 3 | - |
| Displays (`affichage`), Matlab studies (`asservissement`) | - | only read the bus / offline | - | - |

## 2. The modules

    GuidComm        the application: callbacks, flags, error counter, restart
      GuidCommBus       EXTENDS GuidComm with links, subscriptions, select() rounds
        MCGuidCommBus   ... with the traffic of a flight
        GuidCommProofs  theorems about both, and that GuidCommBus implements GuidComm
    GuidHeading     the selected heading: field test, law, track objective
      MCGuidHeading
    IvyList         what the modules of Ivy do with lists
      IvyListProofs     lemmas about it, and induction over numbers
    IvyBus          ivy.c, ivysocket.c: agents that start, meet, greet and end
      MCIvyBus
      IvyBusProofs      its theorems
    Subscriptions   what an agent promises those that subscribe
      IvyDictionary     ivy.c: bindings, the table and the lists; implements it
        IvyDictionaryProofs  its theorems, the refinement among them
    IvyLoop         ivyloop.c: channels, walks, deferred deletion
      IvyLoopProofs     its theorems
    IvyTimer        timer.c: timers and the two passes of TimerScan()
      MCIvyTimer
      IvyTimerProofs    its theorems
    ByteQueue       the abstract fifo: what ivyfifo.c promises
      IvyFifo           ivyfifo.c, a ring buffer: implements ByteQueue
        IvyFifoProofs   its theorems, the refinement among them
      IvyLink           EXTENDS ByteQueue: a TCP link with congestion and framing
        MCIvyLink
        IvyLinkProofs   its theorems

Definitions keep the names of the functions they stand for; `PROJECT.json` gives
the lines of each under "map". A definition called "Mutation of X" in its comment
is X with a bug put in; it is there to show that a property fails when the code
is wrong, and nothing else uses it.

### GuidComm: the application

`modif` is the function from the shared variables of `app_guid_comm.h` to their
flags. A callback is a composition of operators (`Acquire`, `Spend`, `error`,
`Steer`, `computeCmd`) on a record that holds what callbacks change; a callback
that makes five calls applies five operators in the order of the code, so that an
error in the middle sees what the calls before it did. Whether a field is well
formed is a free choice among the fields in `Malformed`. Command values, printing,
displays and the announcements of values are left out. `pc` tells `main()` from
the loop; `loop` is `MainLoop`. History variables say what was computed and
announced; no guard reads them.

`IvyStop()` only clears `MainLoop`: `EndRound` is a step of its own, so any number
of callbacks may run between the stop and the end of the loop. The callback bound
to `Die` ends the process as `stop` does. SIGINT can come at any moment from the
first `start()` on.

### GuidCommBus: a warm restart seen from the bus

`start()` is run again over sockets and bindings nobody closed. `known[l]` is how
many copies of each binding a peer holds on its `l`-th link: it grows when a new
start sends its bindings over the old links, and the new broadcast makes the peer
open one more link. A peer that starts together with the application connects to it
and is connected to, and both links stay (run `twice_linked`): where `Together` is
TRUE there may be one link more than there were starts (`Opened`). `queue[l]` are the frames on that link, `due[l]` how many of
them the `select()` round has read. A callback runs once per copy and per link.

### IvyLoop, IvyTimer

Both model a list that is walked while the handlers called on the way add and
remove elements. `next` is the saved pointer of the walk, written as the rest of
the list it leads to: the walk is safe when that rest is a suffix of the list.
Memory that was freed is not given out again, so a use of it shows as a member of
`next` that is not in the list. `IvyIdle()` is a pass with hooks and timers that
do nothing. The walk over exceptional conditions is left out: no peer sends
out-of-band data.

### GuidHeading: from the selection to the bank angle

`GuidComm` has only the flags; `GuidHeading` has the values of one chain: the heading
that is selected (`getMode`), the one the aircraft sends (`getPosition`), 360 included,
the speed (`getState`), the bank angle of `computeBankAngleObjHdg` and the track
objective of `computeCmd`. The aircraft is not modelled: its messages say anything, in
any order. Headings are counted in parts of a turn, bank angles in units for which the
gain `K4` is a whole number; it is 0 until a speed was understood, and one of `Gains`
after that. Two things are assumed: the load factor is positive (upright flight), and
no speed of 0 is sent in flight. Of the track objective only the division is there: by
a speed of 0 its value is undefined. `testFormat` is translated with its two oddities:
`type == "int"` compares addresses, which is true when the linker keeps one copy of
equal literals (`Pooled`), and `strcmp` on a character without an end may find every
character but a digit unknown (`Verdicts`). `SelectHeading` enters HDG mode whether the
field is good or not. `gs.modif` gates the law: without a position since the last
computation the wings are levelled. `said` and `selected` are what the aircraft and the
pilot said last, for the properties: a value in digits counts as said always, one
written otherwise where the build accepts it.

### IvyList

`Without(list, gone)` is a list after elements were taken out of it and the rest
was linked together again, in the order it had (list.h, `IVY_LIST_REMOVE`). It is
what deleting a channel, a timer, a binding or an entry of the dictionary has in
common.

### Subscriptions, IvyDictionary: who is served

`IvyDictionary` is one publisher with its subscribers. `msg_recv[c]` are the
bindings of the subscriber, `frames[c]` what it has sent and the publisher has not
read, `srcRegList[c]` and `dict` the two structures of the publisher: the list of
each client and `messSndByRegexp`, in the order uthash keeps. The operators have
the names and the order of the functions; `delOneClient` goes through the list,
calling `delRegexpForOneClient` for each element, and then through the table, as
the code does, and `ReadsFreed` says whether the walk comes to an element that the
call before has freed: then the process may end. `id[c]` is `clnt->id`, the number
of the last frame, which `delOneIvyClientFromDictionaryEntry` compares with. A
message is the set of the expressions it matches. `Subscriptions` is the promise:
a number has one expression until it is given up or its owner is gone.

### IvyBus: agents that meet

Each end of a link is an agent, its peer, and the side that connected. `IvyStart`
is three steps, since other processes run between them: `SocketServer` (the kernel
takes connections from here on), `SocketBroadcastCreate` (broadcasts are heard),
`SocketSendBroadcast`. A broadcast that is heard is answered by a connection with
the list of bindings; the accepting side sends its own list (`SendService`) when
it is accepted. `readyToSend` counts the two ends of lists. A link that is closed
stays until the loop deletes its channel (`ClientDelete`). An agent that crashes
or cleans up leaves the end of the stream on its links, what it sent before still
arrives. `CheckConnected` is translated with the ports it really compares: the
port of `client->from`, in network order and zero on the side that connected,
with the listening port the peer announced. A program that is launched again is
another agent.

### ByteQueue, IvyFifo, IvyLink

`IvyFifo` has the pointers of the ring as offsets, its growth by whole blocks and
the flag `full`. `IvyFifoSendSocket` has two outcomes: `SendTakes`, and `SendRefused`
where the ring has wrapped, the first `send()` took all up to its end and the second
one answers -1, which is drained like a number of bytes and leaves the read pointer one
byte in front of the buffer. `ByteQueue` says the same without pointers: a write is
taken whole or refused, what leaves is a prefix of what waits, and a refused second
`send()` puts one stray byte before the rest (`Slip`). `IvyLink` uses the abstract
queue, slips included, for what the kernel does not take. It sends a message of a
subscription as the code does, the number first and the arguments after, with
the peer free to read in between, and the receiver cuts what it reads into lines.

## 3. What the runs check

| Run | Question | Bounds |
|---|---|---|
| `core` | Do the flags, the error counter and the announcement stay consistent in any order of callbacks? | 3 starts, 4 fields that may be malformed, counter to -4 |
| `bus` | Does well formed traffic run for ever over one link, and is every frame dispatched across a restart? | 2 starts, 3 links, 6 messages (start of the flight and one cycle with two ticks), 1 requested restart, 3 frames waiting per link |
| `timers` | Do both passes of the scan agree on who was called, and is no timer late? | 2 timers, 3 milliseconds, 4 calls of the API, 3 calls of a callback counted |
| `loop` | Does the walk survive what handlers do, and do the sets of `select()` match the list? | 3 channels on 2 descriptors |
| `fifo` | Is the ring buffer a queue? | blocks of 2 bytes, limit 6, writes of up to 3 bytes |
| `link` | Is the stream kept through congestion, are frames whole, is the application told? | 3 frames of 2 to 5 bytes, 3 bytes in the kernel, fifo limit 6, read buffer 2 |
| `dictionary` | Do the table and the lists agree, do both ends settle, is the promise kept? | 2 subscribers, one of whom changes expressions, 3 expressions, one filtered, 5 calls, 2 messages on their way |
| `agents` | Do agents find, hold, greet and forget each other whenever they start and crash? | 2 agents that may crash, 1 binding, one may kill |
| `heading` | Does a command bank to the right side, and when is the track objective defined? | 24 parts of a turn, all 25 headings from 0 to 360, 6 selected ones, 2 gains, limit 3, 3 spellings |

Why the bounds are enough:

- `core`: nothing but `nb_try` tells the second restart from the first, so three
  starts show a start from a clean state, one from the state a restart leaves,
  and one after that. The counter only matters around -3; -4 and the callbacks that
  start at -3 step over it. `gs` gates the guidance law, `heading_aircraft` comes in the
  same message and lets one callback count two errors, `current_time` is the only
  error of a tick, `heading_objective` the one that depends on the mode; the other
  fields behave like one of them.
- `bus`: two starts and a simultaneous start give three links and two copies of the
  bindings; the cycle has two ticks after one position, so that a tick follows another
  one. Three waiting frames per link let a read cut the frames of one message.
- `timers`: two timers let a callback change the one the walk comes to next, the
  one it has passed, its own, and create one. Counts are 2 and "for ever"; a count
  of 1 is reached from 2.
- `loop`: three channels let a handler remove the one before, its own and the one
  after it in the list; with two descriptors each is given out again.
- `fifo`: blocks of 2 and a limit of 6 make two growths, refusal at the limit and
  wrapping at every offset, with a refused second `send()` at each. The proofs hold for
  every size.
- `link`: frames longer than the kernel's room and than the read buffer are sent in
  three pieces, read in several and make the buffer double.
- `dictionary`: two subscribers put two clients into one entry; five calls let one
  bind twice, link, give up or change, and leave. One message matches one
  expression, the other two, so that one subscriber gets it twice.
- `agents`: what happens to a link involves its two ends only, except for
  `CheckConnected`, which compares a link with the others of the agent: with three
  agents one configuration below is checked for that. The binding is the one the
  ready messages match.
- `heading`: the two sides of both folds, the headings next to them and next to 0, and
  360; the gains put the limit at different errors. Nothing bounds the number of
  messages.

Fairness:

- `GuidComm`: `EndRound`, `LeaveLoop`, `Start`, `GiveUp` are weakly fair. The
  process is scheduled, and a round ends because it has read finitely many bytes.
  No callback and no message is assumed to come.
- `GuidCommBus`: in addition `select()` returns when frames wait and callbacks
  return (`TakeFrame`, the part of `Dispatch` that takes the frame).
- `IvyTimer`: the process is scheduled, `select()` returns at its timeout,
  callbacks return, and time goes on.
- `IvyLoop`: handlers return, and `select()` returns: some peer keeps sending, the
  clock at least. Without that a removed channel waits for the next message.
- `IvyDictionary`: the publisher reads the frames of each client, sees the end of a
  stream and deletes the client. Nobody need call anything.
- `IvyBus`: an agent that has begun `IvyStart` goes on, and its loop handles its
  sockets (`Run`). Starting, binding, crashing and killing are free.
- `IvyLink`: a callback under way goes on, `select()` reports room in the kernel,
  and the receiver reads.

What the passing runs say, in short:

- One tick in flight before which nothing was computed always announces a restart
  and stops the loop (`StaleTickRestarts`); a tick after a computation finds all
  five commands fresh and settles the count (`FreshTickSettles`); the flags tell
  what happened, across restarts (`FlagsTellFreshness`). No callback steps over the
  count of -3 that stops the application (`ThirdErrorStops`), although the test is for
  equality, a tick may count three errors, and the count survives restarts. It is one
  count for all data, which is not what errors.c says: see `two_errors` below.
- Over one link, healthy traffic never stops the first start (`HealthyTrafficRuns`); over
  two it does.
- The channel list, the timer list and the ring buffer survive everything their
  callers may do in the middle of a walk.
- The stream between two agents loses, doubles and reorders nothing that was accepted.
  It is exact, and made of whole frames in order, until the fifo refuses a part of a
  frame or a second `send()` is refused: the first loses that part, the second puts
  a byte nobody wrote into the stream (`OneStrayByte`, `StreamIsKept`).
- The table of expressions and the lists of the clients agree in every state
  (`DictionaryAgrees`): the second loop of `delOneClient` is what makes that true,
  the first one searches for the wrong number. For a client that only binds and
  unbinds, the dictionary keeps the promise of `Subscriptions` whatever other
  clients do, both ends settle, no late message reaches another binding, and the
  walk of `delOneClient` never reads what it has freed (`FreedOnlyAfterChange`).
- Two agents that run end up linked, and what is gone is forgotten, in whatever
  order they start, bind, crash and are killed (`MembershipSettles`); the ready
  message is sent once (`GreetedInTime`).
- The heading law turns to the right side although its fold is wrong below half a
  turn to the left (computing.c:138 gives Full - e for Full + e): the sense is right
  and the size saturates. It levels the wings only on the heading or before a speed is
  known. An aircraft that says 360 with 0 selected is the one case apart: it is on its
  heading and is banked right to the limit. The track objective is undefined until a
  speed was understood, and never again after that (`TrackIsDefined`).

Runs that end in a violation show where the code differs from what it says:

| Run | What TLC finds |
|---|---|
| `cascade` | one requested restart in healthy traffic makes every callback run twice; the second `sendGC` of a tick finds nothing fresh, and four starts are used up |
| `twice_linked` | two agents that start together connect to each other, `CheckConnected` compares ports of different kinds, and both links stay |
| `two_errors` | `strcmp()` is taken for a test of equality (errors.c:8): every error but one about `roll_cmd` is counted on `roll_cmd`, no two flags are negative together, and a position with both fields malformed stops nothing, whatever errors.c:144 says of simultaneous errors |

Further configurations in this directory end in a violation too. Each is run by
`tlc -config <file> <module>` and states what a comment or the manual says:

| Configuration | What TLC finds |
|---|---|
| `GuidComm_PositionLeavesRollAlone` | `strcmp()` is taken for a test of equality (errors.c:8): an error on the ground speed counts on the roll command |
| `GuidComm_CountersResetAtStart` | `error_init()` leaves that one counter as it was: a warm restart starts with errors counted |
| `MCGuidCommBus_HealthyTrafficRunsAnyway` | a peer that starts together with the application is linked twice: each tick comes twice, the second finds nothing fresh and the first start is stopped |
| `IvyFifo_OnlyWrittenGoesOut` | a refused second `send()` is drained as -1 bytes (ivyfifo.c:160): a byte that nobody wrote goes out |
| `IvyDictionary_ChangeReplaces` | `IvyChangeMsg` adds the new expression under the same number (ivy.c:1198-1200, 1869-1881): the old one is served as well |
| `IvyTimer_CalledBeforeFreed` | a timer created with delay 0 in a callback is counted and freed without a call (timer.c:176) |
| `MCIvyLink_MessagesAreLostWhole` | at the limit of the fifo the number of a message is sent without its arguments (ivysocket.c:668), and the next frame is read as these |
| `MCIvyBus_OnlyDoublesAreClosed` | three agents: the port a connection comes from is the swapped listening port of another one, and the connection is closed as a double (ivy.c:521, 649) |
| `MCGuidHeading_HeadingIsHeard` | a heading written `360.0`, as in app_guid_comm.c:448, is refused as an integer where equal literals are pooled, or where the byte after `temp` is not 0 |

Seen while modelling, and not shown by a run: two `GS_Data` for one position level
the wings, since the first uses the position up (app_guid_comm.c:180-223); the first of
two answered pings clears the time stamp of the second (ivy.c:737), whose answer is
not reported; a timer changed from its own
callback is called once more than asked for (timer.c:176); a channel that was
removed is still given to its read handler in the same pass (ivyloop.c:158); with
out-of-band data `IvyChannelHandleExcpt` deletes the client and keeps its channel
(ivyloop.c:170); the simulator sends `ALDTWP=` (seq_sim.c:14) where the application
binds `ALDTWPT=` (app_guid_comm.c:455), so its answers match no binding.

## 4. What is proved

TLAPS checks every theorem for all values of the constants that meet the `ASSUME`s
of the modules. A run shows the same property on a small instance; where a property
is not inductive by itself, the conjunction `IInv` that is was checked by TLC on
that instance before it was proved. All proofs have the same outline: `Init` gives
`IInv`, one lemma per action says that the action keeps it, `Invariance` puts them
together, and each theorem follows from `Invariance`.

| Module | Theorem | Says |
|---|---|---|
| `GuidCommProofs` | `TypeCorrect`, `FlagsAreFreshness`, `StopsAreExplained` | `TypeOK`, `FlagsTellFreshness`, `StoppedMeansWarned` |
| | `ThirdErrorsStop` | `ThirdErrorStops`: no callback steps over the count that stops |
| | `StaleTicksRestart`, `FreshTicksSettle` | the two action properties of a tick |
| | `BusImplements` | every behaviour of `GuidCommBus` is one of `GuidComm` |
| | `BusTyping`, `HealthyTraffic` | `BusTypeOK`; `HealthyTrafficRuns` for healthy traffic over one link |
| `IvyFifoProofs` | `TypeCorrect`, `OneStrayByteOnly`, `FifoIsQueue` | `TypeOK`, `OneStrayByte`, `ImplementsQueue` |
| `IvyLinkProofs` | `Typing`, `StreamKept`, `FramesAlwaysArrive`, `CongestionAlwaysTold` | `LinkTypeOK`; the stream is exact until a slip; `FramesArrive`, `CongestionIsTold` |
| `IvyLoopProofs` | `Typing`, `SetsAlwaysMatch`, `WalksAreSafe`, `WritersAreWaitedFor` | `TypeOK`, `SetsMatchList`, `WalkIsSafe`, `WritesAreWaitedFor` |
| `IvyTimerProofs` | `Typing`, `WalksAreSafe`, `CallsAlwaysCounted`, `SelectWakesInTime` | `TypeOK`, `WalkIsSafe`, `CallsAreCounted`, `NoTimerOversleeps` |
| `IvyDictionaryProofs` | `TableAgrees`, `EndsNeverPart`, `LateMessagesDropped`, `FreedReadsExplained` | `DictionaryAgrees`, `EndsAgree`, `LateMessageIsDropped`, `FreedOnlyAfterChange` |
| | `DictionaryKeepsPromise` | `ImplementsSubscriptions` |
| `IvyBusProofs` | `Typing`, `BindingsHeld` | `BusTypeOK`, `HoldsWhatIsBound` |

### GuidCommProofs

`IInv` is `TypeOK`, `OnlyRollCounts`, `FlagsTellFreshness` and `StoppedMeansWarned`
together: that a computation flags the roll command (`FlagsTellFreshness`) needs the
flags of the others to be 0 or 1 (`OnlyRollCounts`); that no second counter is
touched by a tick needs the flags of `roll_cmd` and `nx_cmd` to be coupled
(`FlagsTellFreshness`); and the counters of a tick without a computation need the
type of the flags. `OnlyRollCounts` is an auxiliary fact, what the inverted `strcmp()`
makes of the flags, and no aim: `TwoErrorsStop` refutes what was meant. The proof carries the invariant through the composition of
operators: a predicate `Good` on the record says it in the middle of a callback,
lemmas say that `error`, `Acquire`, `Spend`, `Steer` and `computeCmd` keep it, and one
step per action puts them together. For `ThirdErrorsStop` the record is followed from
call to call as well (a count that went to -3 or below has stopped the loop, however
many calls come after it). `StaleTicksRestart` and `FreshTicksSettle` are
the two action properties: the chain of five `Spend` is followed through, counting 1
to -1 and down to -3. Assumed: `MaxTry` is a positive number, `Malformed` a set of
shared variables, `MaxCount` a number. The code's 4 starts are one instance.

Every step of `GuidCommBus` is a step of `GuidComm` or leaves its variables alone
(`BusImplements`), so all of this holds on the bus as well, in whatever order and
however often the frames make the callbacks run. `BInv` adds what the bus needs to
`BusTypeOK`: links are opened by starts (`known[l] > 0 => l <= Opened(nb_try)`), which keeps the
new link of a start apart from those there are. `HealthyTraffic` is about the first
start over one link with well formed fields (`Malformed = {}`) and a peer in whose cycle a `GS_Data`
comes before each `Time`, after the `Time` before it in the cycle if there is one
(`HealthyCycle`; the cycle of the run is one of these). Its invariant `Healthy` says of the queue what the flags say
of the program: going through the frames that wait, from the freshness there is now,
every tick finds a computation before it (`Covered`), and so will the frame the peer
sends next. It holds in the first start only; the run `cascade` shows what the second
one does.

### IvyFifoProofs

`IInv` is `TypeOK` and `OneStrayByte`. For every block size and limit
such that the limit is a whole number of blocks (`SizeAssumption`), and whatever
`send()` answers: pointers stay in the buffer, or the read pointer is one byte in front
of it; what waits between them was written but for that byte; and every step of the
ring is a step of `ByteQueue` or leaves it as it is (`FifoIsQueue`). After a refused
second `send()` this is `Slip`, and the queue is never promised to be clean. The heart
of it is arithmetic: after `Store`, at most two copies, the content is the old content
with the data at its end, whichever side of the end of the buffer the pointers are.

### IvyLinkProofs

For any number and size of frames, any room in the kernel, any limit of the fifo and
any read buffer. `StreamKept` is about `StreamIsExact`: until a stray byte has joined
(`slipped`), what was accepted is what was interpreted, read, is on its way or waits. With stray bytes
`StreamIsKept` filters them out of the stream; that filter is a recursive function over
the whole history and stays with TLC. `StreamIsExact` is nearly inductive; `CongestionIsTold` is not, since a
message is sent in two parts with the application told in between: `OutcomeKept` says
what the outcome of the first part leaves for the callback after the second.
`FramesArrive` needs `FramesSent` (as long as nothing was refused and nothing slipped, what was accepted
with the part still to be sent is a sequence of whole frames in order) and `LinesEnd`
(only whole lines are interpreted), and then that the beginning of such a sequence
that ends with a line feed is one again (`FramesBegin`).

### IvyListProofs, IvyLoopProofs, IvyTimerProofs

The walk is safe when the saved pointer leads to an end of the list (`Ends`). The
lemmas of `IvyListProofs` say what `Without` does to a list and to its ends: taking
elements out of both leaves an end of the shorter list, which is why a handler may
remove channels or timers of the walk, and an element that is put in front of the list
leaves all its ends what they were. `Without` is a recursive function; what it gives is
found step by step (`Walk`), with induction from the least member of a set of numbers
(`LeastNatural`, `NatSetInduction`, from the theorem that `<` on the naturals is well
founded), since the induction theorems of the library cannot be used here.

`IvyLoop`'s `IInv` adds to the properties where the loop is (`LoopState`), that
`handle_delete` is called once and last (`DeletedOnce`), and that nobody who was found
ready to write stops waiting until the writers are walked (`AnswersKept`): handlers of
the read pass cannot finish a write. `FdAssumption`: there is a descriptor.

`IvyTimer`'s `IInv` has `CountsAgree`, which is `CallsAreCounted` in the middle of a
scan: a timer that was due when the first pass met it is called already and counted by
the second pass only (`Ahead`). `CalledAssumption`: the history is long enough for every
count that is asked for.

### IvyDictionaryProofs

For any clients, expressions, numbers of calls and sets of messages
(`DictAssumption`). `Table` says that an expression is a key once and has somebody; in
`Served1` the two structures agree, for every client. `Steady1` is for a client that
never changes an expression and carries the numbers: a number is given out once
(`Distinct`, `Given`), the frames on their way bring new ones (`Fresh`), whoever is in
the table is in the list of the client, and the list with the frames on their way is
what the subscriber has bound (`Holds`). The argument of `FreedReadsExplained` is here:
as numbers are distinct in the list, `delRegexpForOneClient` frees the element it was
called for and no other, so that the walk has not lost its next one. With a changed
expression one number is in two elements, and both are freed.

`DictionaryKeepsPromise` maps the entries of the table to the served triples of
`Subscriptions`: `MsgRead`, service lists and calls of subscribers change none of them,
`AddRegexp` adds one that is new, `DelRegexp` takes away one number, `Bye`, the end of the
stream and the deletion of a client take away what it has.

### IvyBusProofs

For any agents, bindings and ports (`BusAssumption`: only that the ready message is a
binding and ports are ports), whoever crashes or kills. `HoldsWhatIsBound` is about two
ends that are up; what makes it inductive is what it leaves out. `Joined`: both ends of
a link come into being together, and an agent that heard a broadcast has not connected
yet, so that a link is opened once. `Flow`: what an end reads, in every state of both
ends. Nothing comes from an end that is not accepted yet; after the end of the list none
comes again; the ready message comes once and only after the far end is ready; what
comes is bound; and the held bindings with those on their way are the bindings of the
peer, each once, also while the end still waits to be accepted. The heart is
`SendService` of a finite set of bindings against `IvyBindMsg` on a link whose list was
sent before: a binding goes out with the list or by itself, never both.

### What is only model-checked

- Liveness, which the prover does not do: `StopTakesEffect`, `InboxDrains`,
  `DueIsCalled`, `RemovedIsDeleted`, `EverythingArrives`, `BothEndsSettle`,
  `MembershipSettles`, `GreetedInTime`.
- `TurnsTheShortWay` and `TrackIsDefined` of `GuidHeading`: the run goes through all
  the angles, and only the gains are sampled.
- `StreamIsKept` after a slip.
- The violations of section 3, which are counterexamples.

## 5. Not modelled

- Values of the commands other than the bank angle of HDG mode and whether the track
  objective is defined: the saturated roll rate, nx, nz, the law of NAV mode. Only their
  effect on the flags is in `GuidComm`. How the aircraft answers a command is not
  modelled at all, so nothing is said of a heading that is reached.
- A load factor that is 0 or negative, and a speed of 0 in flight: the laws divide by
  the one and the track objective by the other.
- Ping, Pong, direct messages, and the queries of the API: none of them changes
  what the models are about. Lines that are not Ivy frames (ivy.c:568-576): every
  peer is an Ivy agent.
- The addresses of a bus (`IvyStart` parses a list of networks): all agents are in
  one broadcast domain and on one machine, the case in which `CheckConnected`
  compares equal addresses. A lost broadcast is not modelled, nor IPv6.
- What `send()` answers on a connection that is gone: the channel is removed when
  the next read fails, which is in `IvyLoop`.
- The list of filter words: `Filtered` is the set of expressions that the filter
  refuses, and no filter changes while agents are linked.
- Interval expressions. `nextMax` counts a `size_t` down to `>= 0`
  (intervalRegexp.c:203, 207, 212), so that its loops leave their arrays for every
  interval of more than one number: there is no result to compare with the interval,
  and a model of what was meant would not be a model of this code.
- Hooks around `select()` appear only as code that may call the API.
- Regular expressions (PCRE, regex(3)), name look-up, malloc failures, OpenMP and
  Windows variants, adapters to other toolkits, tools, displays, Matlab studies.

## 6. Plan

1. Proofs: `TurnsTheShortWay` of `GuidHeading`, for any number of parts of a turn; that
   `GuidCommBus` dispatches the frames of a link in the order they came; that the link
   of `IvyBus` delivers what `IvyLink` promises.
2. Classes of values for the other laws of `computing.c` (a load factor of 0, a ground
   speed of 0 in NAV mode) in `GuidHeading`.
3. Ping and Pong, with the time stamp of the last ping, as actions of `IvyBus`.
4. Three agents in `IvyBus` that are launched again, once a reduction makes the
   instance small enough: with relaunches it has more than three million states.

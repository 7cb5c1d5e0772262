---------------------------- MODULE IvyBusProofs ----------------------------
(***************************************************************************)
(* Proofs about IvyBus, for any agents, any bindings and any ports.        *)
(***************************************************************************)
EXTENDS IvyBus, IvyListProofs, FiniteSetTheorems

-----------------------------------------------------------------------------
(* The inductive invariant *)

AnyFrame ==
    [type : {"StartRegexp"}, arg : 1..255] \cup
    [type : {"AddRegexp"}, arg : Binding] \cup
    [type : {"Msg"}, arg : {Greeting}] \cup
    [type : {"EndRegexp", "Bye", "EOF", "Die", "Error"}, arg : {0}]

(* What comes once on a link: a binding, the end of the list, the ready    *)
(* message.                                                                *)
Single == {"AddRegexp", "EndRegexp", "Msg"}

EachOnce(w) == \A m, n \in DOMAIN w : w[m] = w[n] /\ w[m].type \in Single => m = n

Adds(w) == {b \in Binding : Frame("AddRegexp", b) \in ToSet(w)}

Live == {"waiting", "open", "closed"}

Typed ==
    /\ phase \in [Agent -> {"off", "listening", "joined", "up", "gone"}]
    /\ heard \in [Agent -> SUBSET Agent]
    /\ bound \in [Agent -> SUBSET Binding]
    /\ \A a \in Agent : IsFiniteSet(bound[a])
    /\ state \in [End -> {"none", "waiting", "open", "closed", "gone"}]
    /\ wire \in [End -> Seq(AnyFrame)]
    /\ held \in [End -> SUBSET Binding]
    /\ readyToSend \in [End -> 0..2]
    /\ greeted \in [End -> 0..1]

(* The states of the two ends of a link: who has announced itself already  *)
(* does it no more, so that nobody connects to an agent twice.             *)
Joined(e) ==
    /\ e[3] = "out" =>
          /\ state[e] # "waiting"
          /\ state[e] = "none" <=> state[Far(e)] = "none"
          /\ e[2] \in heard[e[1]] => state[e] = "none" /\ phase[e[2]] \in {"up", "gone"}
          /\ phase[e[2]] \in {"off", "listening", "joined"} => state[e] = "none"
    /\ state[e] \in {"open", "closed"} => phase[e[1]] = "up"
    /\ state[e] = "waiting" => e[1] \in Running

(* What an end in the state s, whose far end is in the state far, reads    *)
(* from the wire w and has read: h is held, r is readyToSend and rf that   *)
(* of the far end, g is greeted, and bs are the bindings of the peer.      *)
Flow(s, far, w, h, r, rf, g, bs) ==
    /\ EachOnce(w)
    /\ s \in {"none", "gone"} => w = <<>>
    /\ s \notin {"open", "closed"} => r = 0 /\ h = {}
    /\ s = "open" => r # 0
    /\ far \in {"none", "waiting"} => w = <<>> /\ h = {} /\ r # 2 /\ g = 0
    /\ r = 2 => Frame("EndRegexp", 0) \notin ToSet(w)
    /\ g = 1 => Frame("Msg", Greeting) \notin ToSet(w)
    /\ far \in {"open", "closed"} /\ rf # 2 => Frame("Msg", Greeting) \notin ToSet(w) /\ g = 0
    /\ far \in {"open", "closed"} => Adds(w) \subseteq bs
    /\ s \in {"waiting", "open"} /\ far = "open" =>
          h \cup Adds(w) = bs /\ h \cap Adds(w) = {}

(* So it is at an end, with the states st and the wires w. *)
Flows(st, w, e) ==
    Flow(st[e], st[Far(e)], w[e], held[e], readyToSend[e], readyToSend[Far(e)],
         greeted[e], bound[e[2]])

Stream(e) == Flows(state, wire, e)

IInv ==
    /\ Typed
    /\ \A e \in End : Joined(e)
    /\ \A e \in End : Stream(e)

-----------------------------------------------------------------------------
(* Ends and frames *)

(* Each end has one far end, on the other side. *)
LEMMA FarEnds ==
    /\ \A e \in End :
          /\ e[1] \in Agent /\ e[2] \in Agent /\ e[1] # e[2] /\ e[3] \in {"out", "in"}
          /\ e = <<e[1], e[2], e[3]>>
          /\ Far(e) \in End /\ Far(e) # e /\ Far(Far(e)) = e
          /\ Far(e)[1] = e[2] /\ Far(e)[2] = e[1] /\ Far(e)[3] # e[3]
    /\ \A d, e \in End : Far(d) = Far(e) => d = e
<1>1. \A e \in End :
          /\ e[1] \in Agent /\ e[2] \in Agent /\ e[1] # e[2] /\ e[3] \in {"out", "in"}
          /\ e = <<e[1], e[2], e[3]>>
          /\ Far(e) \in End /\ Far(e) # e /\ Far(Far(e)) = e
          /\ Far(e)[1] = e[2] /\ Far(e)[2] = e[1] /\ Far(e)[3] # e[3]
  BY DEF End, Far
<1>2. ASSUME NEW d \in End, NEW e \in End, Far(d) = Far(e)
      PROVE  d = e
  <2>1. Far(Far(d)) = d /\ Far(Far(e)) = e
    BY <1>1
  <2>2. Far(Far(d)) = Far(Far(e))
    BY <1>2
  <2> QED
    BY <2>1, <2>2
<1> QED
  BY <1>1, <1>2

(* One side of it connected. *)
LEMMA OutEnds ==
    ASSUME NEW a \in Agent, NEW x \in Agent, a # x
    PROVE  /\ <<a, x, "out">> \in End
           /\ Far(<<a, x, "out">>) = <<x, a, "in">>
BY DEF End, Far

LEMMA FramesTyped ==
    /\ \A p \in 1..255 : Frame("StartRegexp", p) \in AnyFrame
    /\ \A b \in Binding : Frame("AddRegexp", b) \in AnyFrame
    /\ Frame("Msg", Greeting) \in AnyFrame
    /\ \A t \in {"EndRegexp", "Bye", "EOF", "Die", "Error"} : Frame(t, 0) \in AnyFrame
    /\ \A t, x : Frame(t, x).type = t /\ Frame(t, x).arg = x
    /\ \A f \in AnyFrame : f = Frame(f.type, f.arg)
    /\ \A f \in AnyFrame : f.type = "AddRegexp" => f.arg \in Binding
    /\ \A f \in AnyFrame : f.type = "Msg" => f = Frame("Msg", Greeting)
    /\ \A f \in AnyFrame : f.type = "EndRegexp" => f = Frame("EndRegexp", 0)
<1>1. \A t, x : Frame(t, x).type = t /\ Frame(t, x).arg = x
  BY DEF Frame
<1>2. \A f \in AnyFrame : f = Frame(f.type, f.arg)
  BY DEF Frame, AnyFrame
<1>3. /\ \A p \in 1..255 : Frame("StartRegexp", p) \in AnyFrame
      /\ \A b \in Binding : Frame("AddRegexp", b) \in AnyFrame
      /\ Frame("Msg", Greeting) \in AnyFrame
      /\ \A t \in {"EndRegexp", "Bye", "EOF", "Die", "Error"} : Frame(t, 0) \in AnyFrame
  BY DEF Frame, AnyFrame
<1>4. /\ \A f \in AnyFrame : f.type = "AddRegexp" => f.arg \in Binding
      /\ \A f \in AnyFrame : f.type = "Msg" => f.arg = Greeting
      /\ \A f \in AnyFrame : f.type = "EndRegexp" => f.arg = 0
  BY DEF AnyFrame
<1> QED
  BY <1>1, <1>2, <1>3, <1>4

(* More frames on a wire: what comes once still does, if the wire had none *)
(* of it.                                                                  *)
LEMMA Appended ==
    ASSUME NEW w \in Seq(AnyFrame), NEW fs \in Seq(AnyFrame)
    PROVE  /\ w \o fs \in Seq(AnyFrame)
           /\ ToSet(w \o fs) = ToSet(w) \cup ToSet(fs)
           /\ EachOnce(w) /\ EachOnce(fs)
                 /\ (\A f \in ToSet(fs) : f.type \in Single => f \notin ToSet(w))
                 => EachOnce(w \o fs)
<1> DEFINE new == w \o fs
<1>1. /\ new \in Seq(AnyFrame)
      /\ DOMAIN new = 1..(Len(w) + Len(fs)) /\ Len(w) \in Nat /\ Len(fs) \in Nat
      /\ DOMAIN w = 1..Len(w) /\ DOMAIN fs = 1..Len(fs)
      /\ \A k \in DOMAIN w : k \in DOMAIN new /\ new[k] = w[k]
      /\ \A k \in DOMAIN fs : k + Len(w) \in DOMAIN new /\ new[k + Len(w)] = fs[k]
  OBVIOUS
<1> HIDE DEF new
<1>2. \A k \in DOMAIN new : k \notin DOMAIN w => k - Len(w) \in DOMAIN fs /\ (k - Len(w)) + Len(w) = k
  BY <1>1
<1>3. \A f : f \in ToSet(new) <=> f \in ToSet(w) \/ f \in ToSet(fs)
  BY <1>1, <1>2 DEF ToSet
<1>4. ASSUME EachOnce(w), EachOnce(fs), \A f \in ToSet(fs) : f.type \in Single => f \notin ToSet(w)
      PROVE  EachOnce(new)
  <2> SUFFICES ASSUME NEW m \in DOMAIN new, NEW n \in DOMAIN new, new[m] = new[n],
                      new[m].type \in Single
               PROVE  m = n
    BY DEF EachOnce
  <2>1. CASE m \in DOMAIN w /\ n \in DOMAIN w
    <3>1. w[m] = w[n] /\ w[m].type \in Single
      BY <1>1, <2>1
    <3> QED
      BY <1>4, <2>1, <3>1, Zenon DEF EachOnce
  <2>2. CASE m \notin DOMAIN w /\ n \notin DOMAIN w
    <3>1. /\ m - Len(w) \in DOMAIN fs /\ n - Len(w) \in DOMAIN fs
          /\ fs[m - Len(w)] = new[m] /\ fs[n - Len(w)] = new[n]
      BY <1>1, <1>2, <2>2
    <3>2. m - Len(w) = n - Len(w)
      <4>1. fs[m - Len(w)] = fs[n - Len(w)] /\ fs[m - Len(w)].type \in Single
        BY <3>1
      <4> QED
        BY <1>4, <3>1, <4>1, Zenon DEF EachOnce
    <3>3. (m - Len(w)) + Len(w) = m /\ (n - Len(w)) + Len(w) = n
      BY <1>2, <2>2
    <3> QED
      BY <3>2, <3>3, Zenon
  <2>3. CASE m \in DOMAIN w /\ n \notin DOMAIN w
    <3>1. n - Len(w) \in DOMAIN fs /\ fs[n - Len(w)] = new[n] /\ w[m] = new[m]
      BY <1>1, <1>2, <2>3
    <3>2. new[m] \in ToSet(fs) /\ new[m] \in ToSet(w)
      BY <2>3, <3>1 DEF ToSet
    <3> QED
      BY <1>4, <3>2
  <2>4. CASE m \notin DOMAIN w /\ n \in DOMAIN w
    <3>1. m - Len(w) \in DOMAIN fs /\ fs[m - Len(w)] = new[m] /\ w[n] = new[n]
      BY <1>1, <1>2, <2>4
    <3>2. new[m] \in ToSet(fs) /\ new[m] \in ToSet(w)
      BY <2>4, <3>1 DEF ToSet
    <3> QED
      BY <1>4, <3>2
  <2> QED
    BY <2>1, <2>2, <2>3, <2>4
<1> QED
  BY <1>1, <1>3, <1>4 DEF new

(* The first frame of a wire is read. *)
LEMMA FirstRead ==
    ASSUME NEW w \in Seq(AnyFrame), w # <<>>
    PROVE  /\ Tail(w) \in Seq(AnyFrame) /\ Head(w) \in AnyFrame
           /\ ToSet(w) = ToSet(Tail(w)) \cup {Head(w)}
           /\ EachOnce(w) =>
                 EachOnce(Tail(w)) /\ (Head(w).type \in Single => Head(w) \notin ToSet(Tail(w)))
<1> DEFINE new == Tail(w)
<1>1. /\ new \in Seq(AnyFrame) /\ Head(w) \in AnyFrame /\ Head(w) = w[1]
      /\ DOMAIN w = 1..Len(w) /\ Len(w) \in Nat /\ 1 \in DOMAIN w
      /\ DOMAIN new = 1..(Len(w) - 1)
      /\ \A k \in DOMAIN new : k + 1 \in DOMAIN w /\ k + 1 # 1 /\ new[k] = w[k + 1]
  OBVIOUS
<1> HIDE DEF new
<1>2. \A k \in DOMAIN w : k # 1 => k - 1 \in DOMAIN new /\ new[k - 1] = w[k]
  BY <1>1
<1>3. \A f : f \in ToSet(w) <=> f \in ToSet(new) \/ f = Head(w)
  BY <1>1, <1>2 DEF ToSet
<1>4. ASSUME EachOnce(w)
      PROVE  EachOnce(new) /\ (Head(w).type \in Single => Head(w) \notin ToSet(new))
  <2>1. ASSUME NEW m \in DOMAIN new, NEW n \in DOMAIN new, new[m] = new[n], new[m].type \in Single
        PROVE  m = n
    <3>1. m + 1 = n + 1
      BY <1>1, <1>4, <2>1 DEF EachOnce
    <3> QED
      BY <1>1, <3>1
  <2>2. ASSUME Head(w).type \in Single, Head(w) \in ToSet(new)
        PROVE  FALSE
    <3>1. PICK k \in DOMAIN new : new[k] = Head(w)
      BY <2>2 DEF ToSet
    <3>2. k + 1 = 1
      BY <1>1, <1>4, <2>2, <3>1 DEF EachOnce
    <3> QED
      BY <1>1, <3>2
  <2> QED
    BY <2>1, <2>2 DEF EachOnce
<1> QED
  BY <1>1, <1>3, <1>4 DEF new

(* Frames that come with nothing said of their number. *)
Noise(fs) == fs \in Seq(AnyFrame) /\ \A f \in ToSet(fs) : f.type \notin Single

LEMMA NoiseAppended ==
    ASSUME NEW w \in Seq(AnyFrame), NEW fs, Noise(fs)
    PROVE  /\ w \o fs \in Seq(AnyFrame)
           /\ EachOnce(w) => EachOnce(w \o fs)
           /\ Adds(w \o fs) = Adds(w)
           /\ \A f : f.type \in Single => (f \in ToSet(w \o fs) <=> f \in ToSet(w))
<1>1. fs \in Seq(AnyFrame) /\ \A f \in ToSet(fs) : f.type \notin Single
  BY DEF Noise
<1>2. EachOnce(fs)
  BY <1>1 DEF EachOnce, ToSet
<1>3. /\ w \o fs \in Seq(AnyFrame)
      /\ ToSet(w \o fs) = ToSet(w) \cup ToSet(fs)
      /\ EachOnce(w) => EachOnce(w \o fs)
  BY <1>1, <1>2, Appended
<1>4. \A f : f.type \in Single => (f \in ToSet(w \o fs) <=> f \in ToSet(w))
  BY <1>1, <1>3
<1>5. \A b : Frame("AddRegexp", b).type \in Single
  BY FramesTyped DEF Single
<1> QED
  BY <1>3, <1>4, <1>5 DEF Adds

(* One frame of a kind. *)
LEMMA OneFrame ==
    ASSUME NEW f \in AnyFrame
    PROVE  /\ <<f>> \in Seq(AnyFrame) /\ ToSet(<<f>>) = {f} /\ EachOnce(<<f>>)
           /\ f.type \notin Single => Noise(<<f>>)
<1>1. <<f>> \in Seq(AnyFrame) /\ DOMAIN <<f>> = {1} /\ <<f>>[1] = f
  OBVIOUS
<1>2. ToSet(<<f>>) = {f}
  BY <1>1 DEF ToSet
<1> QED
  BY <1>1, <1>2 DEF EachOnce, Noise

(* A finite set as a list. *)
LEMMA SetAsSequence ==
    ASSUME NEW T, IsFiniteSet(T)
    PROVE  /\ SetToSeq(T) \in Seq(T)
           /\ ToSet(SetToSeq(T)) = T
           /\ \A m, n \in DOMAIN SetToSeq(T) : SetToSeq(T)[m] = SetToSeq(T)[n] => m = n
<1> DEFINE n == Cardinality(T)
           list == SetToSeq(T)
<1>1. n \in Nat /\ ExistsBijection(1..n, T)
  BY FS_CardinalityType
<1>2. \E f \in [1..n -> T] : IsInjective(f)
  BY <1>1 DEF ExistsBijection, Bijection, Injection
<1>3. list \in [1..n -> T] /\ IsInjective(list)
  BY <1>2, Zenon DEF SetToSeq
<1> HIDE DEF list
<1>4. IsFiniteSet(1..n) /\ Cardinality(1..n) = n
  BY <1>1, FS_Interval
<1>5. list \in Injection(1..n, T)
  BY <1>3 DEF Injection
<1>6. list \in Surjection(1..n, T)
  BY <1>4, <1>5, FS_Injection
<1>7. ToSet(list) = T
  BY <1>3, <1>6 DEF Surjection, ToSet
<1>8. list \in Seq(T)
  BY <1>1, <1>3
<1> QED
  BY <1>3, <1>7, <1>8 DEF list, IsInjective

(* The frames of the bindings of an agent. *)
LEMMA FiniteFrames ==
    ASSUME NEW T, IsFiniteSet(T)
    PROVE  IsFiniteSet({Frame("AddRegexp", b) : b \in T})
<1> DEFINE frames == {Frame("AddRegexp", b) : b \in T}
           f == [b \in T |-> Frame("AddRegexp", b)]
<1>1. \A b, c \in T : Frame("AddRegexp", b) = Frame("AddRegexp", c) => b = c
  BY DEF Frame
<1>2. f \in Injection(T, frames)
  BY <1>1 DEF Injection, IsInjective
<1>3. f \in Surjection(T, frames)
  BY DEF Surjection
<1> QED
  BY <1>2, <1>3, FS_Bijection DEF ExistsBijection, Bijection

(* SendService() sends each binding once, then one end of the list. *)
LEMMA ServiceSends ==
    ASSUME NEW a \in Agent, bound[a] \in SUBSET Binding, IsFiniteSet(bound[a])
    PROVE  /\ Service(a) \in Seq(AnyFrame)
           /\ EachOnce(Service(a))
           /\ Adds(Service(a)) = bound[a]
           /\ Frame("Msg", Greeting) \notin ToSet(Service(a))
<1> DEFINE frames == {Frame("AddRegexp", b) : b \in bound[a]}
           list == SetToSeq(frames)
           first == <<Frame("StartRegexp", Port[a])>>
           last == <<Frame("EndRegexp", 0)>>
<1>1. /\ list \in Seq(frames) /\ ToSet(list) = frames
      /\ \A m, n \in DOMAIN list : list[m] = list[n] => m = n
  <2>1. IsFiniteSet(frames)
    BY FiniteFrames
  <2> HIDE DEF frames
  <2> QED
    BY <2>1, SetAsSequence
<1>2. frames \subseteq AnyFrame
  BY FramesTyped
<1>3. list \in Seq(AnyFrame) /\ EachOnce(list)
  <2> HIDE DEF frames, list
  <2> QED
    BY <1>1, <1>2 DEF EachOnce
<1>4. /\ Frame("StartRegexp", Port[a]) \in AnyFrame
      /\ Frame("EndRegexp", 0) \in AnyFrame
  <2>1. Port[a] \in 1..255
    BY BusAssumption
  <2> QED
    BY <2>1, FramesTyped
<1>5. /\ first \in Seq(AnyFrame) /\ ToSet(first) = {Frame("StartRegexp", Port[a])}
      /\ last \in Seq(AnyFrame) /\ ToSet(last) = {Frame("EndRegexp", 0)}
      /\ EachOnce(first) /\ EachOnce(last)
  BY <1>4, OneFrame
<1>6. /\ \A f \in frames : f.type = "AddRegexp"
      /\ \A f \in ToSet(first) : f.type = "StartRegexp"
      /\ \A f \in ToSet(last) : f.type = "EndRegexp"
  BY <1>5, FramesTyped
<1>7. /\ first \o list \in Seq(AnyFrame) /\ EachOnce(first \o list)
      /\ ToSet(first \o list) = ToSet(first) \cup frames
  <2>1. \A f \in ToSet(list) : f \notin ToSet(first)
    BY <1>1, <1>6
  <2> HIDE DEF frames, list, first
  <2> QED
    BY <1>1, <1>3, <1>5, <2>1, Appended
<1>8. /\ (first \o list) \o last \in Seq(AnyFrame) /\ EachOnce((first \o list) \o last)
      /\ ToSet((first \o list) \o last) = (ToSet(first) \cup frames) \cup ToSet(last)
  <2>1. \A f \in ToSet(last) : f \notin ToSet(first \o list)
    BY <1>6, <1>7
  <2> DEFINE more == first \o list
  <2> HIDE DEF frames, list, first, last, more
  <2>2. more \in Seq(AnyFrame) /\ EachOnce(more) /\ ToSet(more) = ToSet(first) \cup frames
    BY <1>7 DEF more
  <2>3. \A f \in ToSet(last) : f \notin ToSet(more)
    BY <2>1 DEF more
  <2>4. /\ more \o last \in Seq(AnyFrame) /\ EachOnce(more \o last)
        /\ ToSet(more \o last) = ToSet(more) \cup ToSet(last)
    BY <2>2, <2>3, <1>5, Appended
  <2> QED
    BY <2>2, <2>4 DEF more
<1>9. Service(a) = (first \o list) \o last
  BY DEF Service
<1> HIDE DEF list, first, last
<1>10. /\ Service(a) \in Seq(AnyFrame) /\ EachOnce(Service(a))
       /\ \A f \in ToSet(Service(a)) : f \in frames \/ f.type \in {"StartRegexp", "EndRegexp"}
       /\ frames \subseteq ToSet(Service(a))
  BY <1>6, <1>8, <1>9
<1>11. ASSUME NEW b \in Binding
       PROVE  Frame("AddRegexp", b) \in frames <=> b \in bound[a]
  BY FramesTyped
<1>12. /\ \A b : Frame("AddRegexp", b).type = "AddRegexp"
       /\ Frame("Msg", Greeting).type = "Msg"
  BY FramesTyped
<1>13. Frame("Msg", Greeting) \notin ToSet(Service(a))
  BY <1>6, <1>10, <1>12
<1>14. Adds(Service(a)) = bound[a]
  <2>1. \A b \in Binding : Frame("AddRegexp", b) \in ToSet(Service(a)) <=> b \in bound[a]
    BY <1>10, <1>11, <1>12
  <2> QED
    BY <2>1 DEF Adds
<1> QED
  BY <1>10, <1>13, <1>14

-----------------------------------------------------------------------------
(* What is sent *)

(* Frames on an end reach the far one, if it is there. *)
LEMMA SentOn ==
    ASSUME NEW w \in [End -> Seq(AnyFrame)], NEW e \in End, NEW fs \in Seq(AnyFrame)
    PROVE  /\ Sent(w, On(e, fs)) \in [End -> Seq(AnyFrame)]
           /\ Sent(w, On(e, fs))[Far(e)] = IF state[Far(e)] \in Live THEN w[Far(e)] \o fs
                                           ELSE w[Far(e)]
           /\ \A d \in End : d # Far(e) => Sent(w, On(e, fs))[d] = w[d]
<1> DEFINE new == Sent(w, On(e, fs))
<1>1. /\ Far(e) \in End /\ Far(Far(e)) = e
      /\ \A d \in End : d # Far(e) => Far(d) # e
  <2>1. \A d \in End : Far(Far(d)) = d
    BY FarEnds
  <2> QED
    BY <2>1, FarEnds
<1>2. DOMAIN On(e, fs) = {e} /\ On(e, fs)[e] = fs
  BY DEF On
<1>3. new = [d \in End |-> IF Far(d) \in {e} /\ state[d] \in Live
                           THEN w[d] \o On(e, fs)[Far(d)] ELSE w[d]]
  BY <1>2 DEF Sent, Live
<1>4. new[Far(e)] = IF state[Far(e)] \in Live THEN w[Far(e)] \o fs ELSE w[Far(e)]
  BY <1>1, <1>2, <1>3
<1>5. \A d \in End : d # Far(e) => new[d] = w[d]
  BY <1>1, <1>3
<1>6. \A d \in End : new[d] \in Seq(AnyFrame)
  <2>1. w[Far(e)] \in Seq(AnyFrame) /\ w[Far(e)] \o fs \in Seq(AnyFrame)
    BY <1>1
  <2>2. new[Far(e)] \in Seq(AnyFrame)
    BY <1>4, <2>1
  <2> HIDE DEF new
  <2> QED
    BY <1>5, <2>2
<1>7. new = [d \in End |-> new[d]]
  BY <1>3
<1> HIDE DEF new
<1>8. new \in [End -> Seq(AnyFrame)]
  BY ONLY <1>6, <1>7
<1> QED
  BY <1>4, <1>5, <1>8 DEF new

-----------------------------------------------------------------------------
(* Steps of a stream *)

(* A link that came up once is as good as one that goes down. *)
LEMMA FlowOfEnds ==
    ASSUME NEW s, NEW far, NEW w, NEW h, NEW r, NEW rf, NEW g, NEW bs,
           Flow(s, far, w, h, r, rf, g, bs)
    PROVE  /\ s \in Live => Flow("closed", far, w, h, r, rf, g, bs)
           /\ far \in Live => Flow(s, "closed", w, h, r, rf, g, bs)
           /\ \A new, more : Flow(s, "gone", w, h, r, new, g, more)
<1>1. Adds(<<>>) = {} /\ \A f : f \notin ToSet(<<>>)
  BY DEF Adds, ToSet
<1> QED
  BY <1>1 DEF Flow, Live

(* Nothing is on its way to an end that is not there. *)
LEMMA FlowOfNone ==
    ASSUME NEW far, NEW rf, NEW bs
    PROVE  \A s \in {"none", "gone"} : Flow(s, far, <<>>, {}, 0, rf, 0, bs)
<1>1. Adds(<<>>) = {} /\ EachOnce(<<>>) /\ \A f : f \notin ToSet(<<>>)
  BY DEF Adds, ToSet, EachOnce
<1> QED
  BY <1>1 DEF Flow

(* Frames of no number are sent. *)
LEMMA FlowOfNoise ==
    ASSUME NEW s, NEW far, NEW w \in Seq(AnyFrame), NEW h, NEW r, NEW rf, NEW g, NEW bs,
           Flow(s, far, w, h, r, rf, g, bs),
           s \notin {"none", "gone"}, far \notin {"none", "waiting"},
           NEW fs, Noise(fs)
    PROVE  Flow(s, far, w \o fs, h, r, rf, g, bs)
<1>1. /\ EachOnce(w) => EachOnce(w \o fs)
      /\ Adds(w \o fs) = Adds(w)
      /\ \A f : f.type \in Single => (f \in ToSet(w \o fs) <=> f \in ToSet(w))
  BY NoiseAppended
<1>2. Frame("EndRegexp", 0).type \in Single /\ Frame("Msg", Greeting).type \in Single
  BY FramesTyped DEF Single
<1>3. /\ Frame("EndRegexp", 0) \in ToSet(w \o fs) <=> Frame("EndRegexp", 0) \in ToSet(w)
      /\ Frame("Msg", Greeting) \in ToSet(w \o fs) <=> Frame("Msg", Greeting) \in ToSet(w)
  BY <1>1, <1>2
<1> DEFINE new == w \o fs
<1>4. /\ EachOnce(w) => EachOnce(new)
      /\ Adds(new) = Adds(w)
      /\ Frame("EndRegexp", 0) \in ToSet(new) <=> Frame("EndRegexp", 0) \in ToSet(w)
      /\ Frame("Msg", Greeting) \in ToSet(new) <=> Frame("Msg", Greeting) \in ToSet(w)
  BY <1>1, <1>3
<1> HIDE DEF new
<1>5. Flow(s, far, new, h, r, rf, g, bs)
  BY <1>4 DEF Flow
<1> QED
  BY <1>5 DEF new

(* A frame is read: what was told of it by what was still on its way.      *)
LEMMA FlowRead ==
    ASSUME NEW far, NEW w \in Seq(AnyFrame), NEW h, NEW r, NEW rf, NEW g, NEW bs,
           Flow("open", far, w, h, r, rf, g, bs), w # <<>>
    PROVE  /\ Head(w).type \notin Single => Flow("open", far, Tail(w), h, r, rf, g, bs)
           /\ Head(w).type = "AddRegexp" =>
                 Flow("open", far, Tail(w), h \cup {Head(w).arg}, r, rf, g, bs)
           /\ Head(w).type = "EndRegexp" => r # 2 /\ Flow("open", far, Tail(w), h, 2, rf, g, bs)
           /\ Head(w).type = "Msg" => g # 1 /\ Flow("open", far, Tail(w), h, r, rf, 1, bs)
<1> DEFINE new == Tail(w)
           f == Head(w)
<1>1. /\ new \in Seq(AnyFrame) /\ f \in AnyFrame /\ EachOnce(new)
      /\ ToSet(w) = ToSet(new) \cup {f}
      /\ f.type \in Single => f \notin ToSet(new)
  BY FirstRead DEF Flow
<1> HIDE DEF new, f
<1>2. /\ \A t, x : Frame(t, x).type = t /\ Frame(t, x).arg = x
      /\ f = Frame(f.type, f.arg)
      /\ f.type = "AddRegexp" => f.arg \in Binding
      /\ f.type = "Msg" => f = Frame("Msg", Greeting)
      /\ f.type = "EndRegexp" => f = Frame("EndRegexp", 0)
  BY <1>1, FramesTyped
<1>3. far \notin {"none", "waiting"}
  BY DEF Flow
<1>4. CASE f.type # "AddRegexp"
  <2>1. Adds(new) = Adds(w)
    BY <1>1, <1>2, <1>4 DEF Adds
  <2>2. f.type \notin Single => Flow("open", far, new, h, r, rf, g, bs)
    BY <1>1, <1>3, <2>1 DEF Flow
  <2>3. f.type = "EndRegexp" => r # 2 /\ Flow("open", far, new, h, 2, rf, g, bs)
    <3>1. SUFFICES ASSUME f.type = "EndRegexp"
                   PROVE  r # 2 /\ Flow("open", far, new, h, 2, rf, g, bs)
      OBVIOUS
    <3>2. Frame("EndRegexp", 0) \in ToSet(w) /\ Frame("EndRegexp", 0) \notin ToSet(new)
      BY <1>1, <1>2, <3>1 DEF Single
    <3> QED
      BY <1>1, <1>3, <2>1, <3>2 DEF Flow
  <2>4. f.type = "Msg" => g # 1 /\ Flow("open", far, new, h, r, rf, 1, bs)
    <3>1. SUFFICES ASSUME f.type = "Msg"
                   PROVE  g # 1 /\ Flow("open", far, new, h, r, rf, 1, bs)
      OBVIOUS
    <3>2. Frame("Msg", Greeting) \in ToSet(w) /\ Frame("Msg", Greeting) \notin ToSet(new)
      BY <1>1, <1>2, <3>1 DEF Single
    <3> QED
      BY <1>1, <1>3, <2>1, <3>2 DEF Flow
  <2> QED
    BY <1>4, <2>2, <2>3, <2>4 DEF new, f
<1>5. CASE f.type = "AddRegexp"
  <2>1. /\ f.arg \in Binding /\ f = Frame("AddRegexp", f.arg)
        /\ f \notin ToSet(new)
    BY <1>1, <1>2, <1>5 DEF Single
  <2>2. \A b \in Binding : Frame("AddRegexp", b) = f <=> b = f.arg
    BY <1>2, <2>1
  <2>3. Adds(w) = Adds(new) \cup {f.arg} /\ f.arg \notin Adds(new)
    BY <1>1, <2>1, <2>2 DEF Adds
  <2>4. Flow("open", far, new, h \cup {f.arg}, r, rf, g, bs)
    BY <1>1, <1>3, <2>3 DEF Flow
  <2> QED
    BY <1>5, <2>4 DEF new, f, Single
<1> QED
  BY <1>4, <1>5

(* The streams of all ends, when one of them is closed ... *)
LEMMA EndCloses ==
    ASSUME NEW st \in [End -> {"none", "waiting", "open", "closed", "gone"}], NEW w,
           \A d \in End : Flows(st, w, d),
           NEW t \in End, st[t] \in Live
    PROVE  \A d \in End : Flows([st EXCEPT ![t] = "closed"], w, d)
<1> SUFFICES ASSUME NEW d \in End
             PROVE  Flows([st EXCEPT ![t] = "closed"], w, d)
  OBVIOUS
<1> DEFINE new == [st EXCEPT ![t] = "closed"]
<1>1. Far(d) \in End /\ Far(d) # d
  BY FarEnds
<1>2. /\ new[d] = IF d = t THEN "closed" ELSE st[d]
      /\ new[Far(d)] = IF Far(d) = t THEN "closed" ELSE st[Far(d)]
  BY <1>1
<1> HIDE DEF new
<1>3. Flow(st[d], st[Far(d)], w[d], held[d], readyToSend[d], readyToSend[Far(d)],
           greeted[d], bound[d[2]])
  BY DEF Flows
<1>4. Flow(new[d], new[Far(d)], w[d], held[d], readyToSend[d], readyToSend[Far(d)],
           greeted[d], bound[d[2]])
  <2>1. CASE d = t
    <3>1. new[d] = "closed" /\ new[Far(d)] = st[Far(d)]
      BY <1>1, <1>2, <2>1
    <3> QED
      BY <1>3, <2>1, <3>1, FlowOfEnds
  <2>2. CASE Far(d) = t
    <3>1. new[d] = st[d] /\ new[Far(d)] = "closed"
      BY <1>1, <1>2, <2>2
    <3> QED
      BY <1>3, <2>2, <3>1, FlowOfEnds
  <2>3. CASE d # t /\ Far(d) # t
    BY <1>2, <1>3, <2>3
  <2> QED
    BY <2>1, <2>2, <2>3
<1> QED
  BY <1>4 DEF Flows, new

(* ... when it sends frames of no number ... *)
LEMMA NoiseIsSent ==
    ASSUME NEW w \in [End -> Seq(AnyFrame)],
           \A d \in End : Flows(state, w, d),
           NEW e \in End, state[e] \notin {"none", "waiting"},
           NEW fs, Noise(fs)
    PROVE  /\ Sent(w, On(e, fs)) \in [End -> Seq(AnyFrame)]
           /\ \A d \in End : Flows(state, Sent(w, On(e, fs)), d)
<1> DEFINE new == Sent(w, On(e, fs))
<1>1. /\ new \in [End -> Seq(AnyFrame)]
      /\ new[Far(e)] = IF state[Far(e)] \in Live THEN w[Far(e)] \o fs ELSE w[Far(e)]
      /\ \A d \in End : d # Far(e) => new[d] = w[d]
  BY SentOn DEF Noise
<1> HIDE DEF new
<1>2. ASSUME NEW d \in End
      PROVE  Flows(state, new, d)
  <2>1. Flow(state[d], state[Far(d)], w[d], held[d], readyToSend[d], readyToSend[Far(d)],
             greeted[d], bound[d[2]])
    BY DEF Flows
  <2>2. Flow(state[d], state[Far(d)], new[d], held[d], readyToSend[d], readyToSend[Far(d)],
             greeted[d], bound[d[2]])
    <3>1. CASE d = Far(e) /\ state[d] \in Live
      <4>1. Far(d) = e /\ new[d] = w[d] \o fs /\ w[d] \in Seq(AnyFrame)
        BY <1>1, <3>1, FarEnds
      <4>2. state[d] \notin {"none", "gone"} /\ state[Far(d)] \notin {"none", "waiting"}
        BY <3>1, <4>1 DEF Live
      <4> QED
        BY <2>1, <4>1, <4>2, FlowOfNoise
    <3>2. CASE ~(d = Far(e) /\ state[d] \in Live)
      <4>1. new[d] = w[d]
        BY <1>1, <3>2
      <4> QED
        BY <2>1, <4>1
    <3> QED
      BY <3>1, <3>2
  <2> QED
    BY <2>2 DEF Flows
<1> QED
  BY <1>1, <1>2 DEF new

(* ... and when it reads one. *)
LEMMA NoiseIsRead ==
    ASSUME Typed, \A d \in End : Flows(state, wire, d),
           NEW e \in End, state[e] = "open", wire[e] # <<>>, Head(wire[e]).type \notin Single
    PROVE  /\ Taken(e) \in [End -> Seq(AnyFrame)]
           /\ \A d \in End : Flows(state, Taken(e), d)
<1>1. wire \in [End -> Seq(AnyFrame)] /\ wire[e] \in Seq(AnyFrame) /\ Tail(wire[e]) \in Seq(AnyFrame)
  BY FirstRead DEF Typed
<1>2. /\ Taken(e) \in [End -> Seq(AnyFrame)]
      /\ \A d \in End : Taken(e)[d] = IF d = e THEN Tail(wire[d]) ELSE wire[d]
  BY <1>1 DEF Taken
<1>3. ASSUME NEW d \in End
      PROVE  Flows(state, Taken(e), d)
  <2>1. Flow(state[d], state[Far(d)], wire[d], held[d], readyToSend[d], readyToSend[Far(d)],
             greeted[d], bound[d[2]])
    BY DEF Flows
  <2>2. Flow(state[d], state[Far(d)], Taken(e)[d], held[d], readyToSend[d], readyToSend[Far(d)],
             greeted[d], bound[d[2]])
    <3>1. CASE d = e
      <4>1. Taken(e)[e] = Tail(wire[e])
        BY <1>2
      <4>2. Flow("open", state[Far(e)], wire[e], held[e], readyToSend[e], readyToSend[Far(e)],
                 greeted[e], bound[e[2]])
        BY <2>1, <3>1
      <4>3. Flow("open", state[Far(e)], Tail(wire[e]), held[e], readyToSend[e],
                 readyToSend[Far(e)], greeted[e], bound[e[2]])
        BY <1>1, <4>2, FlowRead
      <4> QED
        BY <3>1, <4>1, <4>3
    <3>2. CASE d # e
      BY <1>2, <2>1, <3>2
    <3> QED
      BY <3>1, <3>2
  <2> QED
    BY <2>2 DEF Flows
<1> QED
  BY <1>2, <1>3

-----------------------------------------------------------------------------
(* Steps that send nothing that counts *)

(* The streams only depend on what is named here. *)
LEMMA StreamsStay ==
    ASSUME NEW st, NEW w, \A d \in End : Flows(st, w, d),
           state' = st, wire' = w, UNCHANGED <<held, readyToSend, greeted, bound>>
    PROVE  \A d \in End : Stream(d)'
BY DEF Stream, Flows

(* An agent starts. *)
LEMMA StartKeeps ==
    ASSUME IInv, NEW a \in Agent, SocketServer(a) \/ IvyStart(a)
    PROVE  IInv'
<1>1. /\ UNCHANGED <<bound, state, wire, held, readyToSend, greeted>>
      /\ phase[a] # "gone" /\ phase[a] # "up"
      /\ phase' \in [Agent -> {"off", "listening", "joined", "up", "gone"}]
      /\ \A b \in Agent : b # a => phase'[b] = phase[b]
      /\ phase'[a] \in {"listening", "joined", "up"}
      /\ phase'[a] = "up" => phase[a] = "joined"
      /\ heard' \in [Agent -> SUBSET Agent]
      /\ \A b \in Agent : heard'[b] \subseteq heard[b] \cup {a}
      /\ heard' = heard \/ phase'[a] = "up"
  <2>1. phase \in [Agent -> {"off", "listening", "joined", "up", "gone"}]
        /\ heard \in [Agent -> SUBSET Agent]
    BY DEF IInv, Typed
  <2>2. CASE SocketServer(a)
    BY <2>1, <2>2 DEF SocketServer, client
  <2>3. CASE SocketBroadcastCreate(a)
    BY <2>1, <2>3 DEF SocketBroadcastCreate, client
  <2>4. CASE SocketSendBroadcast(a)
    BY <2>1, <2>4 DEF SocketSendBroadcast, client
  <2> QED
    BY <2>2, <2>3, <2>4 DEF IvyStart
<1>2. Typed'
  BY <1>1 DEF IInv, Typed
<1>3. \A d \in End : Stream(d)'
  BY <1>1, StreamsStay DEF IInv, Stream
<1>4. ASSUME NEW e \in End
      PROVE  Joined(e)'
  <2>1. e[1] \in Agent /\ e[2] \in Agent /\ Far(e) \in End
    BY FarEnds
  <2>2. /\ Joined(e)
        /\ state'[e] = state[e] /\ state'[Far(e)] = state[Far(e)]
    BY <1>1 DEF IInv
  <2>3. phase'[e[2]] # phase[e[2]] => e[2] = a
    BY <1>1, <2>1
  <2>4. state[e] \in {"open", "closed"} => phase'[e[1]] = "up"
    BY <1>1, <2>1, <2>2 DEF Joined
  <2>5. state[e] = "waiting" => e[1] \in Running'
    BY <1>1, <2>1, <2>2 DEF Joined, Running
  <2>6. CASE e[3] # "out"
    BY <2>2, <2>4, <2>5, <2>6 DEF Joined
  <2>7. CASE e[3] = "out"
    <3>1. e[2] \in heard'[e[1]] => state[e] = "none" /\ phase'[e[2]] \in {"up", "gone"}
      BY <1>1, <2>1, <2>2, <2>7 DEF Joined
    <3>2. phase'[e[2]] \in {"off", "listening", "joined"} => state[e] = "none"
      <4>1. phase[a] \in {"off", "listening", "joined"}
        BY <1>1 DEF IInv, Typed
      <4> QED
        BY <1>1, <2>1, <2>2, <2>3, <2>7, <4>1 DEF Joined
    <3> QED
      BY <2>2, <2>4, <2>5, <3>1, <3>2 DEF Joined
  <2> QED
    BY <2>6, <2>7
<1> QED
  BY <1>2, <1>3, <1>4 DEF IInv

(* The states of the ends, when those that stay keep their agents. *)
LEMMA JoinedStays ==
    ASSUME IInv, UNCHANGED <<phase, heard>>,
           NEW e \in End,
           state'[e] = state[e] \/ (state[e] \in {"open", "closed"} /\ state'[e] \in {"closed", "gone"})
              \/ (state[e] = "waiting" /\ phase[e[1]] = "up" /\ state'[e] \in {"open", "closed"}),
           state'[Far(e)] = "none" <=> state[Far(e)] = "none"
    PROVE  Joined(e)'
<1>1. Joined(e)
  BY DEF IInv
<1>2. UNCHANGED Running
  BY DEF Running
<1> QED
  BY <1>1, <1>2 DEF Joined

(* What a line needs that is read. *)
LEMMA Reading ==
    ASSUME IInv, NEW e \in End, NEW type, Receive(e, type)
    PROVE  /\ phase[e[1]] = "up" /\ state[e] = "open"
           /\ wire[e] \in Seq(AnyFrame) /\ wire[e] # <<>> /\ Head(wire[e]).type = type
           /\ wire \in [End -> Seq(AnyFrame)]
           /\ state \in [End -> {"none", "waiting", "open", "closed", "gone"}]
           /\ \A d \in End : Flows(state, wire, d)
BY DEF IInv, Typed, Receive, Stream

(* The list of the peer begins, and a duplicate is closed. *)
LEMMA ReceiveStartKeeps ==
    ASSUME IInv, NEW e \in End, ReceiveStart(e)
    PROVE  IInv'
<1>1. /\ state[e] = "open" /\ wire[e] # <<>> /\ Head(wire[e]).type = "StartRegexp"
      /\ state \in [End -> {"none", "waiting", "open", "closed", "gone"}]
      /\ \A d \in End : Flows(state, wire, d)
  BY Reading DEF ReceiveStart
<1>2. Typed /\ Head(wire[e]).type \notin Single
  BY <1>1 DEF IInv, Single
<1>3. /\ Taken(e) \in [End -> Seq(AnyFrame)]
      /\ \A d \in End : Flows(state, Taken(e), d)
  BY <1>1, <1>2, NoiseIsRead
<1>4. UNCHANGED <<phase, heard, bound, readyToSend, held, greeted>>
  BY DEF ReceiveStart
<1>5. /\ wire' \in [End -> Seq(AnyFrame)]
      /\ state' \in [End -> {"none", "waiting", "open", "closed", "gone"}]
      /\ \A d \in End : Stream(d)'
      /\ \A d \in End : state'[d] = state[d] \/ (state[d] \in {"open", "closed"} /\ state'[d] = "closed")
  <2>1. CASE CheckConnected(e) = {}
    <3>1. wire' = Taken(e) /\ state' = state
      BY <2>1 DEF ReceiveStart
    <3> QED
      BY <1>1, <1>3, <1>4, <3>1, StreamsStay
  <2>2. CASE CheckConnected(e) # {}
    <3>1. PICK other \in CheckConnected(e) :
              /\ wire' = Sent(Taken(e), On(Target(other, e), <<Frame("Error", 0)>>))
              /\ state' = [state EXCEPT ![Target(other, e)] = "closed"]
      BY <2>2 DEF ReceiveStart
    <3> DEFINE t == Target(other, e)
               w == Sent(Taken(e), On(t, <<Frame("Error", 0)>>))
    <3>2. t \in End /\ state[t] \in {"open", "closed"}
      BY <1>1 DEF Target, CheckConnected, EndsOf
    <3>3. Noise(<<Frame("Error", 0)>>)
      <4>1. Frame("Error", 0) \in AnyFrame /\ Frame("Error", 0).type \notin Single
        BY FramesTyped DEF Single
      <4> QED
        BY <4>1, OneFrame
    <3> HIDE DEF t
    <3>4. state[t] \notin {"none", "waiting"} /\ state[t] \in Live
      BY <3>2 DEF Live
    <3>5. w \in [End -> Seq(AnyFrame)] /\ \A d \in End : Flows(state, w, d)
      BY <1>3, <3>2, <3>3, <3>4, NoiseIsSent
    <3>6. wire' = w /\ state' = [state EXCEPT ![t] = "closed"]
      BY <3>1 DEF t
    <3> HIDE DEF w
    <3>7. \A d \in End : Flows([state EXCEPT ![t] = "closed"], w, d)
      BY <1>1, <3>2, <3>4, <3>5, EndCloses
    <3>8. \A d \in End : Stream(d)'
      BY <1>4, <3>6, <3>7, StreamsStay
    <3> QED
      BY <1>1, <3>2, <3>5, <3>6, <3>8
  <2> QED
    BY <2>1, <2>2
<1>6. Typed'
  BY <1>2, <1>4, <1>5 DEF Typed
<1>7. ASSUME NEW d \in End
      PROVE  Joined(d)'
  <2>1. Far(d) \in End
    BY FarEnds
  <2> QED
    BY <1>4, <1>5, <2>1, JoinedStays
<1> QED
  BY <1>5, <1>6, <1>7 DEF IInv

(* A binding of the peer. *)
LEMMA ReceiveAddKeeps ==
    ASSUME IInv, NEW e \in End, ReceiveAdd(e)
    PROVE  IInv'
<1>1. /\ state[e] = "open" /\ wire[e] # <<>> /\ Head(wire[e]).type = "AddRegexp"
      /\ wire \in [End -> Seq(AnyFrame)] /\ wire[e] \in Seq(AnyFrame)
      /\ \A d \in End : Flows(state, wire, d)
  BY Reading DEF ReceiveAdd
<1>2. Head(wire[e]).arg \in Binding /\ Tail(wire[e]) \in Seq(AnyFrame)
  BY <1>1, FirstRead, FramesTyped
<1>3. /\ UNCHANGED <<phase, heard, bound, state, readyToSend, greeted>>
      /\ held' = [held EXCEPT ![e] = @ \cup {Head(wire[e]).arg}]
      /\ wire' = [wire EXCEPT ![e] = Tail(@)]
  BY DEF ReceiveAdd, Taken
<1>4. Typed'
  <2>1. wire' \in [End -> Seq(AnyFrame)]
    BY <1>1, <1>2, <1>3
  <2>2. held' \in [End -> SUBSET Binding]
    BY <1>2, <1>3 DEF IInv, Typed
  <2> QED
    BY <1>3, <2>1, <2>2 DEF IInv, Typed
<1>5. ASSUME NEW d \in End
      PROVE  Stream(d)'
  <2>1. Flow(state[d], state[Far(d)], wire[d], held[d], readyToSend[d], readyToSend[Far(d)],
             greeted[d], bound[d[2]])
    BY <1>1 DEF Flows
  <2>2. held \in [End -> SUBSET Binding]
    BY DEF IInv, Typed
  <2>3. CASE d = e
    <3>1. Flow("open", state[Far(e)], wire[e], held[e], readyToSend[e], readyToSend[Far(e)],
               greeted[e], bound[e[2]])
      BY <1>1, <2>1, <2>3
    <3>2. Flow("open", state[Far(e)], Tail(wire[e]), held[e] \cup {Head(wire[e]).arg},
               readyToSend[e], readyToSend[Far(e)], greeted[e], bound[e[2]])
      BY <1>1, <3>1, FlowRead
    <3>3. held'[e] = held[e] \cup {Head(wire[e]).arg} /\ wire'[e] = Tail(wire[e])
      BY <1>1, <1>3, <2>2
    <3> QED
      BY <1>1, <1>3, <2>3, <3>2, <3>3 DEF Stream, Flows
  <2>4. CASE d # e
    <3>1. held'[d] = held[d] /\ wire'[d] = wire[d]
      BY <1>1, <1>3, <2>2, <2>4
    <3> QED
      BY <1>3, <2>1, <3>1 DEF Stream, Flows
  <2> QED
    BY <2>3, <2>4
<1>6. \A d \in End : Joined(d)'
  BY <1>3, JoinedStays
<1> QED
  BY <1>4, <1>5, <1>6 DEF IInv

(* A message or an error. *)
LEMMA ReceiveMsgKeeps ==
    ASSUME IInv, NEW e \in End, ReceiveMsg(e)
    PROVE  IInv'
<1>1. PICK type \in {"Msg", "Error"} :
          /\ Receive(e, type)
          /\ greeted' = [greeted EXCEPT ![e] = IF type = "Msg" THEN @ + 1 ELSE @]
  BY DEF ReceiveMsg
<1>2. /\ state[e] = "open" /\ wire[e] # <<>> /\ Head(wire[e]).type = type
      /\ wire \in [End -> Seq(AnyFrame)] /\ wire[e] \in Seq(AnyFrame)
      /\ \A d \in End : Flows(state, wire, d)
  BY <1>1, Reading
<1>3. /\ UNCHANGED <<phase, heard, bound, state, readyToSend, held>>
      /\ wire' = Taken(e)
  BY DEF ReceiveMsg, client
<1>4. Typed /\ greeted \in [End -> 0..1]
  BY DEF IInv, Typed
<1>5. CASE type = "Error"
  <2>1. greeted' = greeted /\ Head(wire[e]).type \notin Single
    BY <1>1, <1>2, <1>4, <1>5 DEF Single
  <2>2. Taken(e) \in [End -> Seq(AnyFrame)] /\ \A d \in End : Flows(state, Taken(e), d)
    BY <1>2, <1>4, <2>1, NoiseIsRead
  <2>3. \A d \in End : Stream(d)'
    BY <1>3, <2>1, <2>2, StreamsStay
  <2>4. Typed'
    BY <1>3, <1>4, <2>1, <2>2 DEF Typed
  <2> QED
    BY <1>3, <2>3, <2>4, JoinedStays DEF IInv
<1>6. CASE type = "Msg"
  <2>1. wire' = [wire EXCEPT ![e] = Tail(@)] /\ greeted' = [greeted EXCEPT ![e] = @ + 1]
    BY <1>1, <1>3, <1>6 DEF Taken
  <2>2. Flow("open", state[Far(e)], wire[e], held[e], readyToSend[e], readyToSend[Far(e)],
             greeted[e], bound[e[2]])
    BY <1>2 DEF Flows
  <2>3. /\ greeted[e] # 1
        /\ Flow("open", state[Far(e)], Tail(wire[e]), held[e], readyToSend[e],
                readyToSend[Far(e)], 1, bound[e[2]])
    BY <1>2, <1>6, <2>2, FlowRead
  <2>4. greeted[e] = 0 /\ greeted'[e] = 1 /\ wire'[e] = Tail(wire[e])
    BY <1>2, <1>4, <2>1, <2>3
  <2>5. \A d \in End : d # e => greeted'[d] = greeted[d] /\ wire'[d] = wire[d]
    BY <1>2, <1>4, <2>1
  <2>6. ASSUME NEW d \in End
        PROVE  Stream(d)'
    <3>1. CASE d = e
      BY <1>2, <1>3, <2>3, <2>4, <3>1 DEF Stream, Flows
    <3>2. CASE d # e
      BY <1>2, <1>3, <2>5, <3>2 DEF Stream, Flows
    <3> QED
      BY <3>1, <3>2
  <2>7. Typed'
    <3>1. Tail(wire[e]) \in Seq(AnyFrame)
      BY <1>2, FirstRead
    <3>2. wire' \in [End -> Seq(AnyFrame)]
      BY <1>2, <2>1, <3>1
    <3>3. greeted' \in [End -> 0..1]
      BY <1>4, <2>1, <2>4
    <3> QED
      BY <1>3, <1>4, <3>2, <3>3 DEF Typed
  <2> QED
    BY <1>3, <2>6, <2>7, JoinedStays DEF IInv
<1> QED
  BY <1>5, <1>6

(* The peer says good bye, or its stream ends. *)
LEMMA ReceiveByeKeeps ==
    ASSUME IInv, NEW e \in End, ReceiveBye(e)
    PROVE  IInv'
<1>1. PICK type \in {"Bye", "EOF"} : Receive(e, type)
  BY DEF ReceiveBye
<1>2. /\ state[e] = "open" /\ wire[e] # <<>> /\ Head(wire[e]).type = type
      /\ state \in [End -> {"none", "waiting", "open", "closed", "gone"}]
      /\ \A d \in End : Flows(state, wire, d)
  BY <1>1, Reading
<1>3. /\ UNCHANGED <<phase, heard, bound, held, readyToSend, greeted>>
      /\ state' = [state EXCEPT ![e] = "closed"]
      /\ wire' = Taken(e)
  BY DEF ReceiveBye, client
<1>4. Typed /\ Head(wire[e]).type \notin Single /\ state[e] \in Live
  BY <1>2 DEF IInv, Single, Live
<1>5. Taken(e) \in [End -> Seq(AnyFrame)] /\ \A d \in End : Flows(state, Taken(e), d)
  BY <1>2, <1>4, NoiseIsRead
<1>6. \A d \in End : Flows([state EXCEPT ![e] = "closed"], Taken(e), d)
  BY <1>2, <1>4, <1>5, EndCloses
<1>7. \A d \in End : Stream(d)'
  BY <1>3, <1>6, StreamsStay
<1>8. /\ state' \in [End -> {"none", "waiting", "open", "closed", "gone"}]
      /\ \A d \in End : state'[d] = state[d] \/ (state[d] = "open" /\ state'[d] = "closed")
  BY <1>2, <1>3
<1>9. Typed'
  BY <1>3, <1>4, <1>5, <1>8 DEF Typed
<1>10. ASSUME NEW d \in End
       PROVE  Joined(d)'
  <2>1. Far(d) \in End
    BY FarEnds
  <2> QED
    BY <1>3, <1>8, <2>1, JoinedStays
<1> QED
  BY <1>7, <1>9, <1>10 DEF IInv

(* An agent is told to die: its ready messages and bindings are not        *)
(* concerned.                                                              *)
LEMMA IvySendDieMsgKeeps ==
    ASSUME IInv, NEW e \in End, IvySendDieMsg(e)
    PROVE  IInv'
<1>1. /\ state[e] = "open" /\ wire' = Sent(wire, On(e, <<Frame("Die", 0)>>))
      /\ UNCHANGED <<phase, heard, bound, state, held, readyToSend, greeted>>
  BY DEF IvySendDieMsg, client
<1>2. wire \in [End -> Seq(AnyFrame)] /\ Typed /\ \A d \in End : Flows(state, wire, d)
  BY DEF IInv, Typed, Stream
<1>3. Noise(<<Frame("Die", 0)>>)
  <2>1. Frame("Die", 0) \in AnyFrame /\ Frame("Die", 0).type \notin Single
    BY FramesTyped DEF Single
  <2> QED
    BY <2>1, OneFrame
<1>4. /\ wire' \in [End -> Seq(AnyFrame)]
      /\ \A d \in End : Flows(state, wire', d)
  BY <1>1, <1>2, <1>3, NoiseIsSent
<1>5. \A d \in End : Stream(d)'
  BY <1>1, <1>4, StreamsStay
<1>6. Typed'
  BY <1>1, <1>2, <1>4 DEF Typed
<1> QED
  BY <1>1, <1>5, <1>6, JoinedStays DEF IInv

-----------------------------------------------------------------------------
(* Steps that send what comes once *)

(* The peer has sent its bindings: the ready message may come now. *)
LEMMA FlowOfReady ==
    ASSUME NEW s, NEW w \in Seq(AnyFrame), NEW h, NEW r, NEW rf, NEW g, NEW bs,
           Flow(s, "open", w, h, r, rf, g, bs), rf # 2
    PROVE  /\ Flow(s, "open", w, h, r, 2, g, bs)
           /\ s \in Live => Flow(s, "open", w \o <<Frame("Msg", Greeting)>>, h, r, 2, g, bs)
<1> DEFINE f == Frame("Msg", Greeting)
           new == w \o <<f>>
<1>1. /\ <<f>> \in Seq(AnyFrame) /\ ToSet(<<f>>) = {f} /\ EachOnce(<<f>>)
  BY FramesTyped, OneFrame
<1>2. f \notin ToSet(w) /\ g = 0 /\ EachOnce(w)
  BY DEF Flow
<1>3. EachOnce(new) /\ ToSet(new) = ToSet(w) \cup {f}
  BY <1>1, <1>2, Appended
<1>4. /\ \A b : Frame("AddRegexp", b) # f
      /\ Frame("EndRegexp", 0) # f
  <2>1. /\ \A b : Frame("AddRegexp", b).type = "AddRegexp"
        /\ Frame("EndRegexp", 0).type = "EndRegexp" /\ f.type = "Msg"
    BY FramesTyped
  <2> QED
    BY <2>1
<1> HIDE DEF new, f
<1>5. /\ Adds(new) = Adds(w)
      /\ Frame("EndRegexp", 0) \in ToSet(new) <=> Frame("EndRegexp", 0) \in ToSet(w)
  BY <1>3, <1>4 DEF Adds
<1>6. s \in Live => Flow(s, "open", new, h, r, 2, g, bs)
  BY <1>2, <1>3, <1>5 DEF Flow, Live
<1>7. Flow(s, "open", w, h, r, 2, g, bs)
  BY DEF Flow
<1> QED
  BY <1>6, <1>7 DEF new, f

LEMMA ReceiveEndKeeps ==
    ASSUME IInv, NEW e \in End, ReceiveEnd(e)
    PROVE  IInv'
<1>1. /\ state[e] = "open" /\ wire[e] # <<>> /\ Head(wire[e]).type = "EndRegexp"
      /\ wire \in [End -> Seq(AnyFrame)] /\ wire[e] \in Seq(AnyFrame)
      /\ \A d \in End : Flows(state, wire, d)
  BY Reading DEF ReceiveEnd
<1>2. /\ UNCHANGED <<phase, heard, bound, state, held, greeted>>
      /\ readyToSend' = [readyToSend EXCEPT ![e] = @ + 1]
      /\ wire' = Sent(Taken(e), On(e, IF IsReady(readyToSend'[e]) THEN ReadyMessage(e) ELSE <<>>))
  BY DEF ReceiveEnd
<1>3. Typed /\ readyToSend \in [End -> 0..2]
  BY DEF IInv, Typed
<1>4. Flow("open", state[Far(e)], wire[e], held[e], readyToSend[e], readyToSend[Far(e)],
           greeted[e], bound[e[2]])
  BY <1>1 DEF Flows
<1>5. /\ readyToSend[e] # 2
      /\ Flow("open", state[Far(e)], Tail(wire[e]), held[e], 2, readyToSend[Far(e)],
              greeted[e], bound[e[2]])
  BY <1>1, <1>4, FlowRead
<1>6. /\ readyToSend[e] = 1 /\ readyToSend'[e] = 2
      /\ readyToSend' \in [End -> 0..2]
      /\ \A d \in End : d # e => readyToSend'[d] = readyToSend[d]
  <2>1. readyToSend[e] # 0
    BY <1>4 DEF Flow
  <2> QED
    BY <1>2, <1>3, <1>5, <2>1
<1> DEFINE fs == IF Greeting \in held[e] THEN <<Frame("Msg", Greeting)>> ELSE <<>>
<1>7. wire' = Sent(Taken(e), On(e, fs))
  BY <1>2, <1>6 DEF IsReady, ReadyMessage
<1>8. fs \in Seq(AnyFrame)
  <2>1. Frame("Msg", Greeting) \in AnyFrame
    BY FramesTyped
  <2> QED
    BY <2>1
<1>9. /\ Taken(e) \in [End -> Seq(AnyFrame)]
      /\ \A d \in End : Taken(e)[d] = IF d = e THEN Tail(wire[d]) ELSE wire[d]
  <2>1. Tail(wire[e]) \in Seq(AnyFrame)
    BY <1>1, FirstRead
  <2> QED
    BY <1>1, <2>1 DEF Taken
<1>10. Far(e) \in End /\ Far(e) # e /\ Far(Far(e)) = e
  BY FarEnds
<1>11. /\ wire' \in [End -> Seq(AnyFrame)]
       /\ wire'[e] = Tail(wire[e])
       /\ wire'[Far(e)] = IF state[Far(e)] \in Live THEN wire[Far(e)] \o fs ELSE wire[Far(e)]
       /\ \A d \in End : d # Far(e) /\ d # e => wire'[d] = wire[d]
  <2> HIDE DEF fs
  <2>1. /\ Sent(Taken(e), On(e, fs)) \in [End -> Seq(AnyFrame)]
        /\ Sent(Taken(e), On(e, fs))[Far(e)] =
              IF state[Far(e)] \in Live THEN Taken(e)[Far(e)] \o fs ELSE Taken(e)[Far(e)]
        /\ \A d \in End : d # Far(e) => Sent(Taken(e), On(e, fs))[d] = Taken(e)[d]
    BY <1>8, <1>9, SentOn
  <2> QED
    BY <1>7, <1>9, <1>10, <2>1
<1>12. Typed'
  BY <1>2, <1>3, <1>6, <1>11 DEF Typed
<1>13. ASSUME NEW d \in End
       PROVE  Stream(d)'
  <2>1. Flow(state[d], state[Far(d)], wire[d], held[d], readyToSend[d], readyToSend[Far(d)],
             greeted[d], bound[d[2]])
    BY <1>1 DEF Flows
  <2>2. CASE d = e
    BY <1>1, <1>2, <1>5, <1>6, <1>10, <1>11, <2>2 DEF Stream, Flows
  <2>3. CASE d = Far(e)
    <3>1. wire[d] \in Seq(AnyFrame) /\ wire[d] \o <<>> = wire[d]
      BY <1>1
    <3>2. /\ Flow(state[d], "open", wire[d], held[d], readyToSend[d], readyToSend[e],
                  greeted[d], bound[d[2]])
          /\ readyToSend[e] # 2
      BY <1>1, <1>5, <1>10, <2>1, <2>3
    <3>3. /\ Flow(state[d], "open", wire[d], held[d], readyToSend[d], 2, greeted[d], bound[d[2]])
          /\ state[d] \in Live =>
                Flow(state[d], "open", wire[d] \o <<Frame("Msg", Greeting)>>, held[d],
                     readyToSend[d], 2, greeted[d], bound[d[2]])
      BY <3>1, <3>2, FlowOfReady
    <3>4. Flow(state[d], "open", wire'[d], held[d], readyToSend[d], 2, greeted[d], bound[d[2]])
      BY <1>11, <2>3, <3>1, <3>3
    <3> QED
      BY <1>1, <1>2, <1>6, <1>10, <2>3, <3>4 DEF Stream, Flows
  <2>4. CASE d # e /\ d # Far(e)
    <3>1. Far(d) \in End /\ Far(d) # e
      <4>1. Far(Far(d)) = d
        BY FarEnds
      <4> QED
        BY <2>4, <4>1, FarEnds
    <3> QED
      BY <1>2, <1>6, <1>11, <2>1, <2>4, <3>1 DEF Stream, Flows
  <2> QED
    BY <2>2, <2>3, <2>4
<1>14. \A d \in End : Joined(d)'
  BY <1>2, JoinedStays
<1> QED
  BY <1>12, <1>13, <1>14 DEF IInv

(* A binding is made, and told to a client that can read it. *)
LEMMA FlowOfBinding ==
    ASSUME NEW s, NEW far, NEW w \in Seq(AnyFrame), NEW h, NEW r, NEW rf, NEW g, NEW bs,
           NEW b \in Binding, b \notin bs,
           Flow(s, far, w, h, r, rf, g, bs)
    PROVE  /\ s \in Live /\ far \in {"open", "closed"} =>
                 Flow(s, far, w \o <<Frame("AddRegexp", b)>>, h, r, rf, g, bs \cup {b})
           /\ s \notin {"waiting", "open"} \/ far # "open" =>
                 Flow(s, far, w, h, r, rf, g, bs \cup {b})
<1> DEFINE f == Frame("AddRegexp", b)
           new == w \o <<f>>
<1>1. <<f>> \in Seq(AnyFrame) /\ ToSet(<<f>>) = {f} /\ EachOnce(<<f>>)
  BY FramesTyped, OneFrame
<1>2. /\ \A c : Frame("AddRegexp", c) = f => c = b
      /\ Frame("EndRegexp", 0) # f /\ Frame("Msg", Greeting) # f
  <2>1. /\ \A c : Frame("AddRegexp", c).arg = c /\ Frame("AddRegexp", c).type = "AddRegexp"
        /\ Frame("EndRegexp", 0).type = "EndRegexp" /\ Frame("Msg", Greeting).type = "Msg"
    BY FramesTyped
  <2> QED
    BY <2>1
<1>3. ASSUME s \in Live, far \in {"open", "closed"}
      PROVE  Flow(s, far, new, h, r, rf, g, bs \cup {b})
  <2>1. b \notin Adds(w) /\ EachOnce(w)
    BY <1>3 DEF Flow
  <2>2. f \notin ToSet(w)
    BY <2>1 DEF Adds
  <2>3. EachOnce(new) /\ ToSet(new) = ToSet(w) \cup {f}
    BY <1>1, <2>1, <2>2, Appended
  <2> HIDE DEF new
  <2>4. Adds(new) = Adds(w) \cup {b}
    BY <1>2, <2>3 DEF Adds
  <2> HIDE DEF f
  <2>5. /\ Frame("EndRegexp", 0) \in ToSet(new) <=> Frame("EndRegexp", 0) \in ToSet(w)
        /\ Frame("Msg", Greeting) \in ToSet(new) <=> Frame("Msg", Greeting) \in ToSet(w)
    BY <1>2, <2>3
  <2> QED
    BY <1>3, <2>3, <2>4, <2>5 DEF Flow, Live
<1>4. ASSUME s \notin {"waiting", "open"} \/ far # "open"
      PROVE  Flow(s, far, w, h, r, rf, g, bs \cup {b})
  BY <1>4 DEF Flow
<1> QED
  BY <1>3, <1>4

LEMMA IvyBindMsgKeeps ==
    ASSUME IInv, NEW a \in Agent, NEW b \in Binding, IvyBindMsg(a, b)
    PROVE  IInv'
<1>1. /\ b \notin bound[a] /\ phase[a] \in {"off", "up"}
      /\ bound' = [bound EXCEPT ![a] = @ \cup {b}]
      /\ wire' = Sent(wire, [e \in Clients(a) |-> <<Frame("AddRegexp", b)>>])
      /\ UNCHANGED <<phase, heard, state, held, readyToSend, greeted>>
  BY DEF IvyBindMsg, client
<1>2. /\ Typed /\ wire \in [End -> Seq(AnyFrame)] /\ bound \in [Agent -> SUBSET Binding]
      /\ \A c \in Agent : IsFiniteSet(bound[c])
      /\ readyToSend \in [End -> 0..2]
  BY DEF IInv, Typed
<1>3. /\ bound' \in [Agent -> SUBSET Binding] /\ bound'[a] = bound[a] \cup {b}
      /\ \A c \in Agent : c # a => bound'[c] = bound[c]
  BY <1>1, <1>2
<1>4. \A c \in Agent : IsFiniteSet(bound'[c])
  <2>1. IsFiniteSet(bound[a] \cup {b})
    BY <1>2, FS_AddElement
  <2> QED
    BY <1>2, <1>3, <2>1
<1>5. /\ \A d \in End : wire'[d] = IF Far(d) \in Clients(a) /\ state[d] \in Live
                                 THEN wire[d] \o <<Frame("AddRegexp", b)>> ELSE wire[d]
      /\ wire' = [d \in End |-> wire'[d]]
  BY <1>1 DEF Sent, Live
<1>6. <<Frame("AddRegexp", b)>> \in Seq(AnyFrame)
  BY FramesTyped, OneFrame
<1>7. wire' \in [End -> Seq(AnyFrame)]
  <2>1. ASSUME NEW d \in End
        PROVE  wire'[d] \in Seq(AnyFrame)
    <3>1. wire[d] \in Seq(AnyFrame) /\ wire[d] \o <<Frame("AddRegexp", b)>> \in Seq(AnyFrame)
      BY <1>2, <1>6
    <3> QED
      BY <1>5, <3>1
  <2> QED
    BY ONLY <1>5, <2>1
<1>8. Typed'
  BY <1>1, <1>2, <1>3, <1>4, <1>7 DEF Typed
<1>9. ASSUME NEW d \in End
      PROVE  Stream(d)'
  <2>1. Flow(state[d], state[Far(d)], wire[d], held[d], readyToSend[d], readyToSend[Far(d)],
             greeted[d], bound[d[2]])
    BY DEF IInv, Stream, Flows
  <2>2. d[2] \in Agent /\ Far(d) \in End /\ Far(d)[1] = d[2] /\ wire[d] \in Seq(AnyFrame)
    BY <1>2, FarEnds
  <2>3. CASE d[2] # a
    <3>1. wire'[d] = wire[d] /\ bound'[d[2]] = bound[d[2]]
      BY <1>3, <1>5, <2>2, <2>3 DEF Clients, EndsOf
    <3> QED
      BY <1>1, <2>1, <3>1 DEF Stream, Flows
  <2>4. CASE d[2] = a
    <3>1. bound'[d[2]] = bound[d[2]] \cup {b} /\ b \notin bound[d[2]]
      BY <1>1, <1>3, <2>4
    <3>2. /\ state[d] \in Live /\ state[Far(d)] \in {"open", "closed"} =>
                Flow(state[d], state[Far(d)], wire[d] \o <<Frame("AddRegexp", b)>>, held[d],
                     readyToSend[d], readyToSend[Far(d)], greeted[d], bound'[d[2]])
          /\ state[d] \notin {"waiting", "open"} \/ state[Far(d)] # "open" =>
                Flow(state[d], state[Far(d)], wire[d], held[d],
                     readyToSend[d], readyToSend[Far(d)], greeted[d], bound'[d[2]])
      <4> DEFINE bs == bound[d[2]]
      <4>1. Flow(state[d], state[Far(d)], wire[d], held[d], readyToSend[d], readyToSend[Far(d)],
                 greeted[d], bs)
        BY <2>1
      <4>2. b \notin bs /\ bound'[d[2]] = bs \cup {b}
        BY <3>1
      <4> HIDE DEF bs
      <4>3. /\ state[d] \in Live /\ state[Far(d)] \in {"open", "closed"} =>
                  Flow(state[d], state[Far(d)], wire[d] \o <<Frame("AddRegexp", b)>>, held[d],
                       readyToSend[d], readyToSend[Far(d)], greeted[d], bs \cup {b})
            /\ state[d] \notin {"waiting", "open"} \/ state[Far(d)] # "open" =>
                  Flow(state[d], state[Far(d)], wire[d], held[d],
                       readyToSend[d], readyToSend[Far(d)], greeted[d], bs \cup {b})
        BY <2>2, <4>1, <4>2, FlowOfBinding
      <4> QED
        BY <4>2, <4>3
    <3>3. state[Far(d)] = "open" => Far(d) \in Clients(a)
      <4>1. Flow(state[Far(d)], state[Far(Far(d))], wire[Far(d)], held[Far(d)],
                 readyToSend[Far(d)], readyToSend[Far(Far(d))], greeted[Far(d)],
                 bound[Far(d)[2]])
        BY <2>2 DEF IInv, Stream, Flows
      <4>2. state[Far(d)] = "open" => readyToSend[Far(d)] # 0
        BY <4>1 DEF Flow
      <4>3. readyToSend[Far(d)] \in 0..2
        BY <1>2, <2>2
      <4>4. state[Far(d)] = "open" => readyToSend[Far(d)] > 0
        BY <4>2, <4>3
      <4> QED
        BY <2>2, <2>4, <4>4 DEF Clients, EndsOf
    <3>4. Far(d) \in Clients(a) => state[Far(d)] \in {"open", "closed"}
      BY DEF Clients
    <3>5. Flow(state[d], state[Far(d)], wire'[d], held[d], readyToSend[d], readyToSend[Far(d)],
               greeted[d], bound'[d[2]])
      BY <1>5, <3>2, <3>3, <3>4 DEF Live
    <3> QED
      BY <1>1, <3>5 DEF Stream, Flows
  <2> QED
    BY <2>3, <2>4
<1>10. \A d \in End : Joined(d)'
  BY <1>1, JoinedStays
<1> QED
  BY <1>8, <1>9, <1>10 DEF IInv

-----------------------------------------------------------------------------
(* Ends come and go *)

(* What an end of the list sends at its start, the far one reads. *)
LEMMA FlowOfService ==
    ASSUME NEW a \in Agent, bound[a] \in SUBSET Binding, IsFiniteSet(bound[a]), NEW r, r # 2
    PROVE  /\ Flow("waiting", "open", Service(a), {}, 0, 1, 0, bound[a])
           /\ Flow("closed", "open", Service(a), {}, r, 1, 0, bound[a])
           /\ r # 0 => Flow("open", "open", Service(a), {}, r, 1, 0, bound[a])
<1>1. /\ EachOnce(Service(a)) /\ Adds(Service(a)) = bound[a]
      /\ Frame("Msg", Greeting) \notin ToSet(Service(a))
  BY ServiceSends
<1> QED
  BY <1>1 DEF Flow

(* An agent that is heard of is connected to. *)
LEMMA BroadcastReceiveKeeps ==
    ASSUME IInv, NEW a \in Agent, BroadcastReceive(a)
    PROVE  IInv'
<1>1. phase[a] = "up" /\ UNCHANGED <<phase, bound, held, greeted>>
  BY DEF BroadcastReceive
<1>2. /\ Typed /\ heard \in [Agent -> SUBSET Agent] /\ wire \in [End -> Seq(AnyFrame)]
      /\ state \in [End -> {"none", "waiting", "open", "closed", "gone"}]
      /\ readyToSend \in [End -> 0..2]
      /\ bound \in [Agent -> SUBSET Binding] /\ \A c \in Agent : IsFiniteSet(bound[c])
      /\ phase \in [Agent -> {"off", "listening", "joined", "up", "gone"}]
  BY DEF IInv, Typed
<1>3. PICK x \in heard[a] :
          /\ heard' = [heard EXCEPT ![a] = @ \ {x}]
          /\ IF Answers(a, x) /\ x \in Running
             THEN SendService([wire EXCEPT ![Far(<<a, x, "out">>)] = Service(a)], <<a, x, "out">>)
             ELSE UNCHANGED <<state, wire, readyToSend>>
  BY DEF BroadcastReceive
<1>4. x \in Agent /\ heard' \in [Agent -> SUBSET Agent]
  BY <1>2, <1>3
<1>5. /\ \A c \in Agent : heard'[c] \subseteq heard[c]
      /\ x \notin heard'[a]
  BY <1>2, <1>3
<1>6. UNCHANGED Running
  BY <1>1 DEF Running
<1>7. CASE ~(Answers(a, x) /\ x \in Running)
  <2>1. UNCHANGED <<state, wire, readyToSend>>
    BY <1>3, <1>7
  <2>2. \A d \in End : Stream(d)'
    BY <1>1, <2>1, StreamsStay DEF IInv, Stream
  <2>3. Typed'
    BY <1>1, <1>2, <1>4, <2>1 DEF Typed
  <2>4. ASSUME NEW d \in End
        PROVE  Joined(d)'
    <3>1. d[1] \in Agent /\ Joined(d)
      BY FarEnds DEF IInv
    <3> QED
      BY <1>1, <1>5, <1>6, <2>1, <3>1 DEF Joined
  <2> QED
    BY <2>2, <2>3, <2>4 DEF IInv
<1>8. CASE Answers(a, x) /\ x \in Running
  <2> DEFINE e == <<a, x, "out">>
  <2>1. a # x
    BY <1>8 DEF Answers
  <2>2. e \in End /\ e[1] = a /\ e[2] = x /\ e[3] = "out" /\ Far(e) = <<x, a, "in">>
    BY <1>4, <2>1, OutEnds
  <2> DEFINE i == Far(e)
  <2>3. SendService([wire EXCEPT ![i] = Service(a)], e)
    BY <1>3, <1>8
  <2> HIDE DEF e
  <2>4. /\ i \in End /\ i # e /\ Far(i) = e /\ i[1] = x /\ i[2] = a /\ i[3] = "in"
    BY <2>2, FarEnds
  <2>5. /\ state' = [state EXCEPT ![e] = "open", ![i] = "waiting"]
        /\ wire' = [wire EXCEPT ![i] = Service(a)]
        /\ readyToSend' = [readyToSend EXCEPT ![e] = 1]
    BY <2>2, <2>3 DEF SendService
  <2> HIDE DEF i
  <2>6. phase[x] = "up" /\ state[e] = "none" /\ state[i] = "none"
    <3>1. Joined(e)
      BY <2>2 DEF IInv
    <3>2. e[2] \in heard[e[1]]
      BY <1>3, <2>2
    <3> QED
      BY <1>8, <2>2, <3>1, <3>2 DEF Joined, Running, i
  <2>7. Service(a) \in Seq(AnyFrame)
    BY <1>2, ServiceSends
  <2>8. /\ state'[e] = "open" /\ state'[i] = "waiting"
        /\ \A d \in End : d # e /\ d # i => state'[d] = state[d]
        /\ state' \in [End -> {"none", "waiting", "open", "closed", "gone"}]
    BY <1>2, <2>2, <2>4, <2>5
  <2>9. /\ wire'[i] = Service(a) /\ wire' \in [End -> Seq(AnyFrame)]
        /\ \A d \in End : d # i => wire'[d] = wire[d]
    BY <1>2, <2>4, <2>5, <2>7
  <2>10. /\ readyToSend'[e] = 1 /\ readyToSend' \in [End -> 0..2]
         /\ \A d \in End : d # e => readyToSend'[d] = readyToSend[d]
    BY <1>2, <2>2, <2>5
  <2>11. Typed'
    BY <1>1, <1>2, <1>4, <2>8, <2>9, <2>10 DEF Typed
  <2>12. \A d \in End : d # e /\ d # i => Far(d) # e /\ Far(d) # i /\ Far(d) \in End
    <3>1. \A d \in End : Far(Far(d)) = d /\ Far(d) \in End
      BY FarEnds
    <3> QED
      BY <2>4, <3>1 DEF i
  <2>13. /\ Flow("none", "none", wire[e], held[e], readyToSend[e], readyToSend[i], greeted[e], bound[x])
         /\ Flow("none", "none", wire[i], held[i], readyToSend[i], readyToSend[e], greeted[i], bound[a])
    BY <2>2, <2>4, <2>6 DEF IInv, Stream, Flows, i
  <2>14. /\ wire[e] = <<>> /\ held[e] = {} /\ greeted[e] = 0
         /\ readyToSend[i] = 0 /\ held[i] = {} /\ greeted[i] = 0
    BY <2>13 DEF Flow
  <2>15. ASSUME NEW d \in End
         PROVE  Stream(d)'
    <3>1. CASE d = e
      <4>1. Flow("open", "waiting", <<>>, {}, 1, 0, 0, bound[x])
        BY DEF Flow, EachOnce, ToSet, Adds
      <4>2. /\ wire'[e] = <<>> /\ held'[e] = {} /\ greeted'[e] = 0 /\ bound' = bound
            /\ readyToSend'[e] = 1 /\ readyToSend'[i] = 0
        BY <1>1, <2>2, <2>4, <2>9, <2>10, <2>14
      <4> QED
        BY <2>2, <2>8, <3>1, <4>1, <4>2 DEF Stream, Flows, i
    <3>2. CASE d = i
      <4>1. Flow("waiting", "open", Service(a), {}, 0, 1, 0, bound[a])
        <5>1. 0 # 2
          OBVIOUS
        <5> QED
          BY <1>2, <5>1, FlowOfService
      <4>2. /\ held'[i] = {} /\ greeted'[i] = 0 /\ bound' = bound
            /\ readyToSend'[e] = 1 /\ readyToSend'[i] = 0
        BY <1>1, <2>2, <2>4, <2>10, <2>14
      <4> QED
        BY <2>4, <2>8, <2>9, <3>2, <4>1, <4>2 DEF Stream, Flows
    <3>3. CASE d # e /\ d # i
      <4>1. Flows(state, wire, d)
        BY DEF IInv, Stream
      <4> QED
        BY <1>1, <2>8, <2>9, <2>10, <2>12, <3>3, <4>1 DEF Stream, Flows
    <3> QED
      BY <3>1, <3>2, <3>3
  <2>16. ASSUME NEW d \in End
         PROVE  Joined(d)'
    <3>1. d[1] \in Agent /\ Joined(d)
      BY FarEnds DEF IInv
    <3>2. CASE d = e
      <4>1. e[2] \notin heard'[e[1]]
        BY <1>5, <2>2
      <4>2. state'[e] = "open" /\ state'[Far(e)] = "waiting"
        BY <2>8 DEF i
      <4> QED
        BY <1>1, <2>2, <2>6, <3>2, <4>1, <4>2 DEF Joined
    <3>3. CASE d = i
      BY <1>6, <1>8, <2>4, <2>8, <3>3 DEF Joined
    <3>4. CASE d # e /\ d # i
      BY <1>1, <1>5, <1>6, <2>8, <2>12, <3>1, <3>4 DEF Joined
    <3> QED
      BY <3>2, <3>3, <3>4
  <2> QED
    BY <2>11, <2>15, <2>16 DEF IInv
<1> QED
  BY <1>7, <1>8

(* A connection is accepted: a list goes each way now. *)
LEMMA HandleServerKeeps ==
    ASSUME IInv, NEW e \in End, HandleServer(e)
    PROVE  IInv'
<1> DEFINE o == Far(e)
<1>1. /\ phase[e[1]] = "up" /\ state[e] = "waiting" /\ ClientCreate(e)
      /\ UNCHANGED <<phase, heard, bound, held, greeted>>
  BY DEF HandleServer
<1>2. /\ Typed /\ wire \in [End -> Seq(AnyFrame)]
      /\ state \in [End -> {"none", "waiting", "open", "closed", "gone"}]
      /\ readyToSend \in [End -> 0..2]
      /\ bound \in [Agent -> SUBSET Binding] /\ \A c \in Agent : IsFiniteSet(bound[c])
  BY DEF IInv, Typed
<1>3. /\ e[1] \in Agent /\ e[2] \in Agent
      /\ o \in End /\ o # e /\ Far(o) = e /\ o[1] = e[2] /\ o[2] = e[1] /\ o[3] # e[3]
      /\ o[3] \in {"out", "in"} /\ e[3] \in {"out", "in"}
  BY FarEnds
<1> HIDE DEF o
<1>4. e[3] = "in" /\ o[3] = "out" /\ state[o] \notin {"none", "waiting"}
  <2>1. Joined(e) /\ Joined(o)
    BY <1>3 DEF IInv
  <2>2. e[3] # "out"
    BY <1>1, <2>1 DEF Joined
  <2> QED
    BY <1>1, <1>3, <2>1, <2>2 DEF Joined
<1>5. /\ Flow("waiting", state[o], wire[e], held[e], readyToSend[e], readyToSend[o],
              greeted[e], bound[o[1]])
      /\ Flow(state[o], "waiting", wire[o], held[o], readyToSend[o], readyToSend[e],
              greeted[o], bound[e[1]])
  BY <1>1, <1>3 DEF IInv, Stream, Flows, o
<1>6. CASE CheckConnected(e) # {}
  <2>1. UNCHANGED <<wire, readyToSend>> /\ state' = [state EXCEPT ![e] = "closed"]
    BY <1>1, <1>6 DEF ClientCreate
  <2>2. state[e] \in Live /\ \A d \in End : Flows(state, wire, d)
    BY <1>1 DEF IInv, Stream, Live
  <2>3. \A d \in End : Flows([state EXCEPT ![e] = "closed"], wire, d)
    BY <1>2, <2>2, EndCloses
  <2>4. \A d \in End : Stream(d)'
    BY <1>1, <2>1, <2>3, StreamsStay
  <2>5. /\ state' \in [End -> {"none", "waiting", "open", "closed", "gone"}]
        /\ state'[e] = "closed" /\ \A d \in End : d # e => state'[d] = state[d]
    BY <1>2, <2>1
  <2>6. Typed'
    BY <1>1, <1>2, <2>1, <2>5 DEF Typed
  <2>7. ASSUME NEW d \in End
        PROVE  Joined(d)'
    <3>1. Far(d) \in End
      BY FarEnds
    <3> QED
      BY <1>1, <2>5, <3>1, JoinedStays
  <2> QED
    BY <2>4, <2>6, <2>7 DEF IInv
<1>7. CASE CheckConnected(e) = {}
  <2>1. /\ state' = [state EXCEPT ![e] = "open", ![o] = @]
        /\ wire' = Sent(wire, On(e, Service(e[1])))
        /\ readyToSend' = [readyToSend EXCEPT ![e] = 1]
    BY <1>1, <1>4, <1>7 DEF ClientCreate, SendService, o
  <2>2. /\ state'[e] = "open" /\ \A d \in End : d # e => state'[d] = state[d]
        /\ state' \in [End -> {"none", "waiting", "open", "closed", "gone"}]
    BY <1>2, <1>3, <2>1
  <2>3. /\ readyToSend'[e] = 1 /\ \A d \in End : d # e => readyToSend'[d] = readyToSend[d]
        /\ readyToSend' \in [End -> 0..2]
    BY <1>2, <2>1
  <2>4. Service(e[1]) \in Seq(AnyFrame)
    BY <1>2, <1>3, ServiceSends
  <2>5. /\ wire' \in [End -> Seq(AnyFrame)]
        /\ wire'[o] = IF state[o] \in Live THEN wire[o] \o Service(e[1]) ELSE wire[o]
        /\ \A d \in End : d # o => wire'[d] = wire[d]
    <3> DEFINE fs == Service(e[1])
    <3>1. fs \in Seq(AnyFrame) /\ wire' = Sent(wire, On(e, fs))
      BY <2>1, <2>4
    <3> HIDE DEF fs
    <3>2. /\ wire' \in [End -> Seq(AnyFrame)]
          /\ wire'[o] = IF state[o] \in Live THEN wire[o] \o fs ELSE wire[o]
          /\ \A d \in End : d # o => wire'[d] = wire[d]
      <4>1. /\ Sent(wire, On(e, fs)) \in [End -> Seq(AnyFrame)]
            /\ Sent(wire, On(e, fs))[Far(e)] =
                   IF state[Far(e)] \in Live THEN wire[Far(e)] \o fs ELSE wire[Far(e)]
            /\ \A d \in End : d # Far(e) => Sent(wire, On(e, fs))[d] = wire[d]
        <5>1. wire \in [End -> Seq(AnyFrame)] /\ fs \in Seq(AnyFrame)
          BY <1>2, <3>1
        <5> QED
          BY <5>1, SentOn
      <4> QED
        BY <3>1, <4>1, Zenon DEF o
    <3> QED
      BY <3>2 DEF fs
  <2>6. Typed'
    BY <1>1, <1>2, <2>2, <2>3, <2>5 DEF Typed
  <2>7. wire[o] = <<>> /\ held[o] = {} /\ readyToSend[o] # 2 /\ greeted[o] = 0
    BY <1>5 DEF Flow
  <2>8. state[o] \in Live => wire'[o] = Service(e[1])
    <3>1. <<>> \o Service(e[1]) = Service(e[1])
      BY <2>4
    <3> QED
      BY <2>5, <2>7, <3>1
  <2>9. ASSUME NEW d \in End
        PROVE  Stream(d)'
    <3>1. CASE d = e
      <4>1. Flow("open", state[o], wire[e], held[e], 1, readyToSend[o], greeted[e], bound[o[1]])
        BY <1>4, <1>5 DEF Flow
      <4> QED
        BY <1>1, <1>3, <2>2, <2>3, <2>5, <3>1, <4>1 DEF Stream, Flows, o
    <3>2. CASE d = o
      <4>1. Flow(state[o], "open", wire'[o], {}, readyToSend[o], 1, 0, bound[e[1]])
        <5>1. CASE state[o] \in Live
          <6>1. /\ Flow("closed", "open", Service(e[1]), {}, readyToSend[o], 1, 0, bound[e[1]])
                /\ readyToSend[o] # 0 =>
                      Flow("open", "open", Service(e[1]), {}, readyToSend[o], 1, 0, bound[e[1]])
            BY <1>2, <1>3, <2>7, FlowOfService
          <6>2. state[o] = "open" => readyToSend[o] # 0
            BY <1>5 DEF Flow
          <6>3. state[o] \in {"open", "closed"}
            BY <1>4, <5>1 DEF Live
          <6> QED
            BY <2>8, <5>1, <6>1, <6>2, <6>3
        <5>2. CASE state[o] \notin Live
          <6>1. state[o] = "gone" /\ readyToSend[o] = 0
            BY <1>2, <1>3, <1>4, <1>5, <5>2 DEF Live, Flow
          <6>2. wire'[o] = <<>>
            BY <2>5, <2>7, <5>2
          <6> QED
            BY <6>1, <6>2, FlowOfNone
        <5> QED
          BY <5>1, <5>2
      <4> QED
        BY <1>1, <1>3, <2>2, <2>3, <2>7, <3>2, <4>1 DEF Stream, Flows
    <3>3. CASE d # e /\ d # o
      <4>1. Flows(state, wire, d)
        BY DEF IInv, Stream
      <4>2. Far(d) \in End /\ Far(d) # e
        <5>1. Far(Far(d)) = d
          BY FarEnds
        <5> QED
          BY <3>3, <5>1, FarEnds DEF o
      <4> QED
        BY <1>1, <2>2, <2>3, <2>5, <3>3, <4>1, <4>2 DEF Stream, Flows
    <3> QED
      BY <3>1, <3>2, <3>3
  <2>10. ASSUME NEW d \in End
         PROVE  Joined(d)'
    <3>1. Far(d) \in End
      BY FarEnds
    <3> QED
      BY <1>1, <2>2, <3>1, JoinedStays
  <2> QED
    BY <2>6, <2>9, <2>10 DEF IInv
<1> QED
  BY <1>6, <1>7

(* A client that is freed leaves nothing. *)
LEMMA FreedTyped ==
    ASSUME Typed, NEW ends, Freed(ends)
    PROVE  /\ held' \in [End -> SUBSET Binding]
           /\ readyToSend' \in [End -> 0..2]
           /\ greeted' \in [End -> 0..1]
           /\ \A d \in ends : d \in End => held'[d] = {} /\ readyToSend'[d] = 0 /\ greeted'[d] = 0
           /\ \A d \in End : d \notin ends =>
                 held'[d] = held[d] /\ readyToSend'[d] = readyToSend[d] /\ greeted'[d] = greeted[d]
BY DEF Typed, Freed, Forgotten

LEMMA ClientDeleteKeeps ==
    ASSUME IInv, NEW e \in End, ClientDelete(e)
    PROVE  IInv'
<1> DEFINE o == Far(e)
<1>1. /\ state[e] = "closed" /\ state' = [state EXCEPT ![e] = "gone"]
      /\ wire' = [Sent(wire, On(e, <<Frame("EOF", 0)>>)) EXCEPT ![e] = <<>>]
      /\ Freed({e})
      /\ UNCHANGED <<phase, heard, bound>>
  BY DEF ClientDelete, DeleteSocket
<1>2. /\ Typed /\ wire \in [End -> Seq(AnyFrame)]
      /\ state \in [End -> {"none", "waiting", "open", "closed", "gone"}]
      /\ \A d \in End : Flows(state, wire, d)
  BY DEF IInv, Typed, Stream
<1>3. o \in End /\ o # e /\ Far(o) = e
  BY FarEnds
<1>4. Noise(<<Frame("EOF", 0)>>)
  <2>1. Frame("EOF", 0) \in AnyFrame /\ Frame("EOF", 0).type \notin Single
    BY FramesTyped DEF Single
  <2> QED
    BY <2>1, OneFrame
<1> DEFINE w == Sent(wire, On(e, <<Frame("EOF", 0)>>))
<1>5. w \in [End -> Seq(AnyFrame)] /\ \A d \in End : Flows(state, w, d)
  BY <1>1, <1>2, <1>4, NoiseIsSent
<1>6. wire' = [w EXCEPT ![e] = <<>>]
  BY <1>1
<1> HIDE DEF w, o
<1>7. /\ wire' \in [End -> Seq(AnyFrame)] /\ wire'[e] = <<>>
      /\ \A d \in End : d # e => wire'[d] = w[d]
  <2>1. <<>> \in Seq(AnyFrame)
    OBVIOUS
  <2> QED
    BY <1>5, <1>6, <2>1
<1>8. /\ held' \in [End -> SUBSET Binding] /\ readyToSend' \in [End -> 0..2]
      /\ greeted' \in [End -> 0..1]
      /\ held'[e] = {} /\ readyToSend'[e] = 0 /\ greeted'[e] = 0
      /\ \A d \in End : d # e =>
            held'[d] = held[d] /\ readyToSend'[d] = readyToSend[d] /\ greeted'[d] = greeted[d]
  BY <1>1, <1>2, FreedTyped
<1>9. /\ state' \in [End -> {"none", "waiting", "open", "closed", "gone"}]
      /\ state'[e] = "gone" /\ \A d \in End : d # e => state'[d] = state[d]
  BY <1>1, <1>2
<1>10. Typed'
  BY <1>1, <1>2, <1>7, <1>8, <1>9 DEF Typed
<1>11. ASSUME NEW d \in End
       PROVE  Stream(d)'
  <2>1. CASE d = e
    <3>1. Flow("gone", state'[Far(e)], <<>>, {}, 0, readyToSend'[Far(e)], 0, bound'[e[2]])
      BY FlowOfNone
    <3> QED
      BY <1>7, <1>8, <1>9, <2>1, <3>1 DEF Stream, Flows
  <2>2. CASE d = o
    <3>1. Flow(state[o], state[e], w[o], held[o], readyToSend[o], readyToSend[e],
               greeted[o], bound[o[2]])
      BY <1>3, <1>5 DEF Flows
    <3>2. Flow(state[o], "gone", w[o], held[o], readyToSend[o], 0, greeted[o], bound[o[2]])
      BY <3>1, FlowOfEnds
    <3> QED
      BY <1>1, <1>3, <1>7, <1>8, <1>9, <2>2, <3>2 DEF Stream, Flows
  <2>3. CASE d # e /\ d # o
    <3>1. Flows(state, w, d)
      BY <1>5
    <3>2. Far(d) \in End /\ Far(d) # e
      <4>1. Far(Far(d)) = d
        BY FarEnds
      <4> QED
        BY <2>3, <4>1, FarEnds DEF o
    <3> QED
      BY <1>1, <1>7, <1>8, <1>9, <2>3, <3>1, <3>2 DEF Stream, Flows
  <2> QED
    BY <2>1, <2>2, <2>3
<1>12. ASSUME NEW d \in End
       PROVE  Joined(d)'
  <2>1. Far(d) \in End
    BY FarEnds
  <2> QED
    BY <1>1, <1>9, <2>1, JoinedStays
<1> QED
  BY <1>10, <1>11, <1>12 DEF IInv

(* An agent ends: of its links, the kernel closes the ends that it has. *)
LEMMA ExitKeeps ==
    ASSUME IInv, NEW a \in Agent, NEW last, Noise(last), Exit(a, last)
    PROVE  IInv'
<1> DEFINE live == {e \in EndsOf(a) : state[e] \in Live}
           eof == <<Frame("EOF", 0)>>
           fs == [e \in live |-> (IF state[e] = "waiting" THEN <<>> ELSE last) \o eof]
           w == Sent(wire, fs)
<1>1. /\ phase' = [phase EXCEPT ![a] = "gone"]
      /\ heard' = [heard EXCEPT ![a] = {}]
      /\ bound' = [bound EXCEPT ![a] = {}]
      /\ state' = [e \in End |-> IF e \in live THEN "gone" ELSE state[e]]
      /\ wire' = [e \in End |-> IF e \in EndsOf(a) THEN <<>> ELSE w[e]]
      /\ Freed(EndsOf(a))
  BY DEF Exit, Live
<1>2. /\ Typed /\ wire \in [End -> Seq(AnyFrame)]
      /\ phase \in [Agent -> {"off", "listening", "joined", "up", "gone"}]
      /\ heard \in [Agent -> SUBSET Agent]
      /\ bound \in [Agent -> SUBSET Binding] /\ \A c \in Agent : IsFiniteSet(bound[c])
      /\ state \in [End -> {"none", "waiting", "open", "closed", "gone"}]
  BY DEF IInv, Typed
<1>3. \A e \in live : Noise(fs[e])
  <2>1. Noise(eof) /\ eof \in Seq(AnyFrame)
    <3>1. Frame("EOF", 0) \in AnyFrame /\ Frame("EOF", 0).type \notin Single
      BY FramesTyped DEF Single
    <3> QED
      BY <3>1, OneFrame
  <2> HIDE DEF eof
  <2>2. last \in Seq(AnyFrame) /\ \A f \in ToSet(last) : f.type \notin Single
    BY DEF Noise
  <2>3. Noise(last \o eof)
    <3>1. last \o eof \in Seq(AnyFrame)
      BY <2>1, <2>2
    <3>2. ASSUME NEW f \in ToSet(last \o eof), f.type \in Single
          PROVE  FALSE
      <4>1. f \in ToSet(last)
        BY <2>1, <2>2, <3>2, NoiseAppended
      <4> QED
        BY <2>2, <3>2, <4>1
    <3> QED
      BY <3>1, <3>2 DEF Noise
  <2>4. <<>> \o eof = eof
    BY <2>1
  <2> QED
    BY <2>1, <2>3, <2>4
<1>4. DOMAIN fs = live
  OBVIOUS
<1>5. live = {e \in End : e[1] = a /\ state[e] \in Live}
  BY DEF EndsOf
<1> HIDE DEF fs
<1>6. /\ \A d \in End : w[d] = IF Far(d) \in live /\ state[d] \in Live
                              THEN wire[d] \o fs[Far(d)] ELSE wire[d]
  BY <1>4 DEF Sent, Live
<1> HIDE DEF live, w
<1>7. ASSUME NEW d \in End
      PROVE  /\ d[1] = a => wire'[d] = <<>>
             /\ d[1] # a => wire'[d] = IF Far(d) \in live /\ state[d] \in Live
                                     THEN wire[d] \o fs[Far(d)] ELSE wire[d]
             /\ state'[d] = IF d \in live THEN "gone" ELSE state[d]
             /\ wire'[d] \in Seq(AnyFrame)
  <2>1. wire[d] \in Seq(AnyFrame)
    BY <1>2
  <2>2. Far(d) \in live => wire[d] \o fs[Far(d)] \in Seq(AnyFrame)
    BY <1>3, <2>1, NoiseAppended
  <2>3. <<>> \in Seq(AnyFrame)
    OBVIOUS
  <2>4. wire'[d] = IF d[1] = a THEN <<>> ELSE w[d]
    BY <1>1 DEF EndsOf
  <2>5. state'[d] = IF d \in live THEN "gone" ELSE state[d]
    BY <1>1
  <2> QED
    BY <1>6, <2>1, <2>2, <2>3, <2>4, <2>5
<1>8. /\ held' \in [End -> SUBSET Binding] /\ readyToSend' \in [End -> 0..2]
      /\ greeted' \in [End -> 0..1]
      /\ \A d \in End : d[1] = a => held'[d] = {} /\ readyToSend'[d] = 0 /\ greeted'[d] = 0
      /\ \A d \in End : d[1] # a =>
            held'[d] = held[d] /\ readyToSend'[d] = readyToSend[d] /\ greeted'[d] = greeted[d]
  BY <1>1, <1>2, FreedTyped DEF EndsOf
<1>9. Typed'
  <2>1. wire' = [d \in End |-> wire'[d]] /\ state' = [d \in End |-> state'[d]]
    BY <1>1
  <2>2. wire' \in [End -> Seq(AnyFrame)]
    BY ONLY <1>7, <2>1
  <2>3. state' \in [End -> {"none", "waiting", "open", "closed", "gone"}]
    BY <1>1, <1>2
  <2>4. bound' \in [Agent -> SUBSET Binding] /\ \A c \in Agent : IsFiniteSet(bound'[c])
    BY <1>1, <1>2, FS_EmptySet
  <2>5. /\ phase' \in [Agent -> {"off", "listening", "joined", "up", "gone"}]
        /\ heard' \in [Agent -> SUBSET Agent]
    BY <1>1, <1>2
  <2> QED
    BY <1>8, <2>2, <2>3, <2>4, <2>5 DEF Typed
<1>10. ASSUME NEW d \in End
       PROVE  Stream(d)'
  <2>1. /\ Far(d) \in End /\ Far(d)[1] = d[2] /\ d[1] # d[2] /\ d[1] \in Agent /\ d[2] \in Agent
    BY FarEnds
  <2>2. Flow(state[d], state[Far(d)], wire[d], held[d], readyToSend[d], readyToSend[Far(d)],
             greeted[d], bound[d[2]])
    BY DEF IInv, Stream, Flows
  <2>3. CASE d[1] = a
    <3>1. state'[d] \in {"none", "gone"}
      BY <1>2, <1>5, <1>7, <2>3 DEF Live
    <3>2. wire'[d] = <<>> /\ held'[d] = {} /\ readyToSend'[d] = 0 /\ greeted'[d] = 0
      BY <1>7, <1>8, <2>3
    <3> QED
      BY <3>1, <3>2, FlowOfNone DEF Stream, Flows
  <2>4. CASE d[1] # a /\ d[2] = a
    <3>1. /\ state'[d] = state[d]
          /\ held'[d] = held[d] /\ readyToSend'[d] = readyToSend[d] /\ greeted'[d] = greeted[d]
      BY <1>5, <1>7, <1>8, <2>4
    <3>2. CASE Far(d) \in live
      <4>1. state'[Far(d)] = "gone"
        BY <1>7, <2>1, <3>2
      <4>2. \A bs, rf : Flow(state[d], "gone", wire[d], held[d], readyToSend[d], rf, greeted[d], bs)
        BY <2>2, FlowOfEnds
      <4>3. ASSUME state[d] \in Live
            PROVE  Flow(state[d], "gone", wire[d] \o fs[Far(d)], held[d], readyToSend[d],
                        readyToSend'[Far(d)], greeted[d], bound'[d[2]])
        <5>1. wire[d] \in Seq(AnyFrame) /\ Noise(fs[Far(d)]) /\ state[d] \notin {"none", "gone"}
          BY <1>2, <1>3, <3>2, <4>3 DEF Live
        <5>2. Flow(state[d], "gone", wire[d], held[d], readyToSend[d],
                   readyToSend'[Far(d)], greeted[d], bound'[d[2]])
          BY <4>2
        <5>3. "gone" \notin {"none", "waiting"}
          OBVIOUS
        <5> QED
          BY <5>1, <5>2, <5>3, FlowOfNoise
      <4>4. Flow(state[d], "gone", wire'[d], held[d], readyToSend[d],
                 readyToSend'[Far(d)], greeted[d], bound'[d[2]])
        BY <1>7, <2>4, <3>2, <4>2, <4>3
      <4> QED
        BY <3>1, <4>1, <4>4 DEF Stream, Flows
    <3>3. CASE Far(d) \notin live
      <4>1. state'[Far(d)] = state[Far(d)] /\ state[Far(d)] \in {"none", "gone"}
        BY <1>2, <1>5, <1>7, <2>1, <2>4, <3>3 DEF Live
      <4>2. wire'[d] = wire[d]
        BY <1>7, <2>4, <3>3
      <4>3. Flow(state[d], state[Far(d)], wire[d], held[d], readyToSend[d],
                 readyToSend'[Far(d)], greeted[d], bound'[d[2]])
        BY <2>2, <4>1 DEF Flow
      <4> QED
        BY <3>1, <4>1, <4>2, <4>3 DEF Stream, Flows
    <3> QED
      BY <3>2, <3>3
  <2>5. CASE d[1] # a /\ d[2] # a
    <3>1. Far(d) \notin live /\ d \notin live
      BY <1>5, <2>1, <2>5
    <3>2. /\ state'[d] = state[d] /\ state'[Far(d)] = state[Far(d)] /\ wire'[d] = wire[d]
          /\ bound'[d[2]] = bound[d[2]]
      BY <1>1, <1>2, <1>7, <2>1, <2>5, <3>1
    <3>3. /\ held'[d] = held[d] /\ readyToSend'[d] = readyToSend[d] /\ greeted'[d] = greeted[d]
          /\ readyToSend'[Far(d)] = readyToSend[Far(d)]
      BY <1>8, <2>1, <2>5
    <3> QED
      BY <2>2, <3>2, <3>3 DEF Stream, Flows
  <2> QED
    BY <2>3, <2>4, <2>5
<1>11. ASSUME NEW d \in End
       PROVE  Joined(d)'
  <2>1. /\ Far(d) \in End /\ d[1] # d[2] /\ d[1] \in Agent /\ d[2] \in Agent /\ Joined(d)
    BY FarEnds DEF IInv
  <2>2. /\ state'[d] = "none" <=> state[d] = "none"
        /\ state'[Far(d)] = "none" <=> state[Far(d)] = "none"
        /\ state'[d] # "gone" => state'[d] = state[d] /\ (d[1] = a => state[d] = "none")
        /\ state'[d] = "waiting" => state[d] = "waiting"
    BY <1>2, <1>5, <1>7, <2>1 DEF Live
  <2>3. /\ \A c \in Agent : phase'[c] = IF c = a THEN "gone" ELSE phase[c]
        /\ \A c \in Agent : heard'[c] \subseteq heard[c]
    BY <1>1, <1>2
  <2>4. state'[d] \in {"open", "closed"} => phase'[d[1]] = "up"
    BY <2>1, <2>2, <2>3 DEF Joined
  <2>5. state'[d] = "waiting" => d[1] \in Running'
    BY <2>1, <2>2, <2>3 DEF Joined, Running
  <2>6. ASSUME d[3] = "out"
        PROVE  /\ state'[d] # "waiting"
               /\ state'[d] = "none" <=> state'[Far(d)] = "none"
               /\ d[2] \in heard'[d[1]] => state'[d] = "none" /\ phase'[d[2]] \in {"up", "gone"}
               /\ phase'[d[2]] \in {"off", "listening", "joined"} => state'[d] = "none"
    BY <2>1, <2>2, <2>3, <2>6 DEF Joined
  <2> QED
    BY <2>4, <2>5, <2>6 DEF Joined
<1> QED
  BY <1>9, <1>10, <1>11 DEF IInv

-----------------------------------------------------------------------------
(* The steps together *)

LEMMA NextKeeps ==
    ASSUME IInv, [Next]_vars
    PROVE  IInv'
<1>1. CASE UNCHANGED vars
  <2>1. UNCHANGED <<phase, heard, bound, state, wire, held, readyToSend, greeted>>
    BY <1>1 DEF vars, client
  <2>2. UNCHANGED Running
    BY <2>1 DEF Running
  <2> QED
    BY <2>1, <2>2 DEF IInv, Typed, Joined, Stream, Flows
<1>2. ASSUME NEW a \in Agent, SocketServer(a) \/ Run(a) \/ Crash(a)
      PROVE  IInv'
  <2>1. CASE SocketServer(a) \/ IvyStart(a)
    BY <2>1, StartKeeps
  <2>2. CASE BroadcastReceive(a)
    BY <2>2, BroadcastReceiveKeeps
  <2>3. CASE Crash(a)
    <3>1. Noise(<<>>)
      BY DEF Noise, ToSet
    <3> QED
      BY <2>3, <3>1, ExitKeeps DEF Crash
  <2>4. ASSUME NEW e \in EndsOf(a), Handle(e)
        PROVE  IInv'
    <3>1. e \in End /\ e[1] \in Agent
      BY FarEnds DEF EndsOf
    <3>2. CASE HandleServer(e)
      BY <3>1, <3>2, HandleServerKeeps
    <3>3. CASE ClientDelete(e)
      BY <3>1, <3>3, ClientDeleteKeeps
    <3>4. CASE ReceiveStart(e)
      BY <3>1, <3>4, ReceiveStartKeeps
    <3>5. CASE ReceiveAdd(e)
      BY <3>1, <3>5, ReceiveAddKeeps
    <3>6. CASE ReceiveEnd(e)
      BY <3>1, <3>6, ReceiveEndKeeps
    <3>7. CASE ReceiveMsg(e)
      BY <3>1, <3>7, ReceiveMsgKeeps
    <3>8. CASE ReceiveBye(e)
      BY <3>1, <3>8, ReceiveByeKeeps
    <3>9. CASE ReceiveDie(e)
      <4>1. Noise(<<Frame("Bye", 0)>>)
        <5>1. Frame("Bye", 0) \in AnyFrame /\ Frame("Bye", 0).type \notin Single
          BY FramesTyped DEF Single
        <5> QED
          BY <5>1, OneFrame
      <4> QED
        BY <3>1, <3>9, <4>1, ExitKeeps DEF ReceiveDie, IvyCleanup
    <3> QED
      BY <2>4, <3>2, <3>3, <3>4, <3>5, <3>6, <3>7, <3>8, <3>9 DEF Handle
  <2> QED
    BY <1>2, <2>1, <2>2, <2>3, <2>4 DEF Run
<1>3. ASSUME NEW a \in Agent, NEW b \in Binding, IvyBindMsg(a, b)
      PROVE  IInv'
  BY <1>3, IvyBindMsgKeeps
<1>4. ASSUME NEW a \in Agent, NEW e \in EndsOf(a), IvySendDieMsg(e)
      PROVE  IInv'
  BY <1>4, IvySendDieMsgKeeps DEF EndsOf
<1> QED
  BY <1>1, <1>2, <1>3, <1>4 DEF Next

(* Whatever the agents do, and whenever they start, die or crash: a link   *)
(* has two ends until one is freed, and the lists are read as they were    *)
(* sent.                                                                   *)
THEOREM Invariance == Spec => []IInv
<1>1. Init => IInv
  <2> SUFFICES ASSUME Init PROVE IInv
    OBVIOUS
  <2>1. Typed
    <3>1. <<>> \in Seq(AnyFrame)
      OBVIOUS
    <3> QED
      BY <3>1, FS_EmptySet DEF Init, Typed
  <2>2. ASSUME NEW e \in End
        PROVE  Joined(e) /\ Stream(e)
    <3>1. e[1] \in Agent /\ e[2] \in Agent /\ Far(e) \in End
      BY FarEnds
    <3>2. Joined(e)
      BY <3>1 DEF Init, Joined
    <3>3. Flow("none", "none", <<>>, {}, 0, 0, 0, {})
      BY FlowOfNone
    <3> QED
      BY <3>1, <3>2, <3>3 DEF Init, Stream, Flows
  <2> QED
    BY <2>1, <2>2 DEF IInv
<1>2. IInv /\ [Next]_vars => IInv'
  BY NextKeeps
<1> QED
  BY <1>1, <1>2, PTL DEF Spec

(* The types, and who has an end of a link (HandleServer, ClientDelete). *)
THEOREM Typing == Spec => []BusTypeOK
<1>1. IInv => BusTypeOK
  <2> SUFFICES ASSUME IInv PROVE BusTypeOK
    OBVIOUS
  <2>1. Typed
    BY DEF IInv
  <2>2. ASSUME NEW e \in End
        PROVE  /\ state[e] \in {"open", "closed"} => phase[e[1]] = "up" /\ state[Far(e)] # "none"
               /\ state[e] = "waiting" => e[3] = "in" /\ e[1] \in Running
               /\ held[e] # {} => state[e] \in {"open", "closed"}
    <3>1. /\ Far(e) \in End /\ Far(Far(e)) = e /\ Far(e)[3] # e[3]
          /\ e[3] \in {"out", "in"} /\ Far(e)[3] \in {"out", "in"}
      BY FarEnds
    <3>2. /\ Joined(e) /\ Joined(Far(e))
          /\ Flow(state[e], state[Far(e)], wire[e], held[e], readyToSend[e],
                  readyToSend[Far(e)], greeted[e], bound[e[2]])
      BY <3>1 DEF IInv, Stream, Flows
    <3>3. state[e] = "none" <=> state[Far(e)] = "none"
      BY <3>1, <3>2 DEF Joined
    <3>4. held[e] # {} => state[e] \in {"open", "closed"}
      BY <3>2 DEF Flow
    <3> QED
      BY <3>1, <3>2, <3>3, <3>4 DEF Joined
  <2> QED
    BY <2>1, <2>2 DEF BusTypeOK, Typed
<1> QED
  BY <1>1, Invariance, PTL

(* Two agents that talk agree on the bindings: an agent holds, or is about *)
(* to read, each binding of its peer, once, whenever it was made           *)
(* (SendService, IvyBindMsg).                                              *)
THEOREM BindingsHeld == Spec => []HoldsWhatIsBound
<1>1. IInv => HoldsWhatIsBound
  <2> SUFFICES ASSUME IInv, NEW e \in End, Up(e), Up(Far(e))
               PROVE  LET coming == [k \in DOMAIN AddsOf(e) |-> AddsOf(e)[k].arg]
                      IN  /\ held[e] \cup ToSet(coming) = bound[e[2]]
                          /\ held[e] \cap ToSet(coming) = {}
                          /\ IsInjective(coming)
    BY DEF HoldsWhatIsBound
  <2> DEFINE gone == {f \in ToSet(wire[e]) : f.type # "AddRegexp"}
             adds == Without(wire[e], gone)
             coming == [k \in DOMAIN adds |-> adds[k].arg]
  <2>1. wire[e] \in Seq(AnyFrame)
    BY DEF IInv, Typed
  <2>2. /\ EachOnce(wire[e])
        /\ held[e] \cup Adds(wire[e]) = bound[e[2]] /\ held[e] \cap Adds(wire[e]) = {}
    <3>1. Flow(state[e], state[Far(e)], wire[e], held[e], readyToSend[e],
               readyToSend[Far(e)], greeted[e], bound[e[2]])
      BY DEF IInv, Stream, Flows
    <3> QED
      BY <3>1 DEF Flow, Up
  <2> HIDE DEF gone
  <2>3. adds \in Seq(AnyFrame) /\ ToSet(adds) = ToSet(wire[e]) \ gone
    BY <2>1, WithoutProperties
  <2>4. PICK place \in [1..Len(adds) -> 1..Len(wire[e])] :
            /\ \A i \in 1..Len(adds) : adds[i] = wire[e][place[i]]
            /\ \A i, j \in 1..Len(adds) : place[i] = place[j] => i = j
    <3> DEFINE w == wire[e]
    <3>1. w \in Seq(AnyFrame)
      BY <2>1
    <3> HIDE DEF w
    <3>2. \E place \in [1..Len(Without(w, gone)) -> 1..Len(w)] :
             /\ \A i \in 1..Len(Without(w, gone)) : Without(w, gone)[i] = w[place[i]]
             /\ \A i, j \in 1..Len(Without(w, gone)) : place[i] = place[j] => i = j
      BY ONLY <3>1, WithoutPlaces
    <3> QED
      BY <3>2, Zenon DEF w
  <2>5. AddsOf(e) = adds
    BY DEF AddsOf, gone
  <2> HIDE DEF adds
  <2>6. DOMAIN adds = 1..Len(adds) /\ DOMAIN wire[e] = 1..Len(wire[e])
    BY <2>1, <2>3
  <2>7. \A k \in DOMAIN adds : adds[k] \in ToSet(adds)
    BY DEF ToSet
  <2>8. \A f \in ToSet(adds) : /\ f \in ToSet(wire[e]) /\ f.type = "AddRegexp"
                             /\ f = Frame("AddRegexp", f.arg) /\ f.arg \in Binding
    <3>1. \A f \in ToSet(wire[e]) : f \in AnyFrame
      BY <2>1, <2>6 DEF ToSet
    <3> QED
      BY <2>3, <3>1, FramesTyped DEF gone
  <2>9. \A b \in Binding : Frame("AddRegexp", b) \in ToSet(wire[e]) => Frame("AddRegexp", b) \in ToSet(adds)
    <3>1. \A b : Frame("AddRegexp", b).type = "AddRegexp"
      BY FramesTyped
    <3> QED
      BY <2>3, <3>1 DEF gone
  <2>10. ToSet(coming) = Adds(wire[e])
    <3>1. ASSUME NEW b \in Adds(wire[e])
          PROVE  b \in ToSet(coming)
      <4>1. b \in Binding /\ Frame("AddRegexp", b) \in ToSet(adds)
        BY <2>9 DEF Adds
      <4>2. PICK k \in DOMAIN adds : adds[k] = Frame("AddRegexp", b)
        BY <4>1 DEF ToSet
      <4>3. coming[k] = b
        <5>1. Frame("AddRegexp", b).arg = b
          BY FramesTyped
        <5> QED
          BY <4>2, <5>1
      <4> QED
        BY <4>2, <4>3 DEF ToSet
    <3>2. ASSUME NEW b \in ToSet(coming)
          PROVE  b \in Adds(wire[e])
      <4>1. PICK k \in DOMAIN adds : b = adds[k].arg
        BY DEF ToSet
      <4>2. b \in Binding /\ Frame("AddRegexp", b) \in ToSet(wire[e])
        BY <2>7, <2>8, <4>1
      <4> QED
        BY <4>2 DEF Adds
    <3> QED
      BY <3>1, <3>2
  <2>11. IsInjective(coming)
    <3> SUFFICES ASSUME NEW i \in DOMAIN adds, NEW j \in DOMAIN adds, adds[i].arg = adds[j].arg
                 PROVE  i = j
      BY DEF IsInjective
    <3>1. adds[i] = adds[j] /\ adds[i].type \in Single
      BY <2>7, <2>8 DEF Single
    <3>2. /\ place[i] \in DOMAIN wire[e] /\ place[j] \in DOMAIN wire[e]
          /\ wire[e][place[i]] = adds[i] /\ wire[e][place[j]] = adds[j]
      BY <2>4, <2>6
    <3>3. place[i] = place[j]
      BY <2>2, <3>1, <3>2 DEF EachOnce
    <3> QED
      BY <2>4, <2>6, <3>3
  <2> QED
    BY <2>2, <2>5, <2>10, <2>11
<1> QED
  BY <1>1, Invariance, PTL
=============================================================================

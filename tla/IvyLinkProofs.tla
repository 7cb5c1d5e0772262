--------------------------- MODULE IvyLinkProofs ---------------------------
(***************************************************************************)
(* Proofs about IvyLink, for any number and size of frames and any size of *)
(* the buffers.                                                            *)
(***************************************************************************)
EXTENDS IvyLink, IvyListProofs, TLAPS

(* The types that LinkTypeOK leaves out. *)
OtherTypes ==
    /\ congested \in BOOLEAN /\ full \in BOOLEAN
    /\ body \in Seq(Byte)
    /\ buffer_size \in Nat \ {0}
    /\ sent \in 0..MaxMsg
    /\ accepted \in Seq(Byte) /\ interpreted \in Seq(Byte)

(* The part still to be sent belongs to the last frame. *)
BodyIsOfLast ==
    /\ body # <<>> => sent # 0
    /\ \A i \in 1..Len(body) : body[i].msg = sent

Congestions == {"Congestion", "FifoFull"}

(* Between the two parts of a message the application has not been told    *)
(* what the first one met; its outcome is kept until then.                 *)
OutcomeKept ==
    body # <<>> =>
        /\ s1 = "ok" => ~congested /\ told \notin Congestions
        /\ s1 = "change" => congested
        /\ s1 \in {"still", "full"} => congested /\ told \in Congestions

(* What was accepted and what is still to be sent. *)
Stream == accepted \o body

(* As long as nothing was refused they are the frames that were sent. *)
FramesSent ==
    refused = {} =>
        /\ WholeFrames(Stream) /\ InOrder(Stream)
        /\ IF sent = 0 THEN Stream = <<>> ELSE Stream # <<>> /\ Last(Stream).msg = sent

(* Only whole lines are interpreted. *)
LinesEnd == interpreted # <<>> => Last(interpreted).part = "nl"

(* The stream byte for byte, until a stray one joins it. *)
StreamIsExact == ~slipped => accepted = interpreted \o buffer \o net \o content

(* The inductive invariant. *)
IInv ==
    /\ LinkTypeOK
    /\ OtherTypes
    /\ BodyIsOfLast
    /\ OutcomeKept
    /\ CongestionIsTold
    /\ StreamIsExact
    /\ FramesSent
    /\ LinesEnd

-----------------------------------------------------------------------------
(* Frames *)

(* What concatenation does, of lists whose lengths are known.              *)
LEMMA Joined ==
    ASSUME NEW S, NEW s \in Seq(S), NEW t \in Seq(S),
           NEW k, NEW l, Len(s) = k, Len(t) = l
    PROVE  /\ s \o t \in Seq(S) /\ Len(s \o t) = k + l
           /\ DOMAIN (s \o t) = 1..(k + l)
           /\ \A i \in 1..(k + l) : (s \o t)[i] = IF i <= k THEN s[i] ELSE t[i - k]
<1>1. /\ s \o t \in Seq(S) /\ Len(s \o t) = Len(s) + Len(t)
      /\ \A i \in 1..(Len(s) + Len(t)) :
            (s \o t)[i] = IF i <= Len(s) THEN s[i] ELSE t[i - Len(s)]
  BY ConcatProperties, Zenon
<1>2. DOMAIN (s \o t) = 1..Len(s \o t)
  BY <1>1, LenProperties, Zenon
<1> QED
  BY <1>1, <1>2, Zenon

Frame(m, args) == Id(m) \o Body(m, args)

(* A frame is its number, its arguments and an end of line.                *)
LEMMA FrameIs ==
    ASSUME NEW m \in 1..MaxMsg, NEW args \in 0..MaxArgs
    PROVE  /\ Id(m) \in Seq(Byte) /\ Len(Id(m)) = 1 /\ Id(m)[1].msg = m
           /\ Body(m, args) \in Seq(Byte) /\ Len(Body(m, args)) = args + 1
           /\ \A i \in 1..(args + 1) : Body(m, args)[i].msg = m
           /\ Frame(m, args) \in Seq(Byte) /\ Len(Frame(m, args)) = args + 2
           /\ \A i \in 1..(args + 2) :
                 /\ Frame(m, args)[i].msg = m
                 /\ Frame(m, args)[i].part =
                       IF i = 1 THEN "id" ELSE IF i = args + 2 THEN "nl" ELSE "arg"
<1> DEFINE b == Body(m, args)
           a == [i \in 1..args |-> [msg |-> m, part |-> "arg"]]
           nl == <<[msg |-> m, part |-> "nl"]>>
<1>1. args \in Nat /\ m \in Nat
  BY LinkAssumption
<1>2. \A p \in Parts : [msg |-> m, part |-> p] \in Byte
  BY ByteAssumption
<1>3. Id(m) \in Seq(Byte) /\ Len(Id(m)) = 1 /\ Id(m)[1] = [msg |-> m, part |-> "id"]
  BY <1>2 DEF Id, Parts
<1>4. nl \in Seq(Byte) /\ Len(nl) = 1 /\ nl[1] = [msg |-> m, part |-> "nl"]
  BY <1>2 DEF Parts
<1>5. /\ a \in Seq(Byte) /\ Len(a) = args
      /\ \A i \in 1..args : a[i] = [msg |-> m, part |-> "arg"]
  BY <1>1, <1>2 DEF Parts
<1>6. b = a \o nl
  BY DEF Body
<1> HIDE DEF a, nl, b
<1>7. /\ b \in Seq(Byte) /\ Len(b) = args + 1
      /\ \A i \in 1..(args + 1) : b[i] = IF i <= args THEN a[i] ELSE nl[i - args]
  <2>1. /\ a \o nl \in Seq(Byte) /\ Len(a \o nl) = args + 1
        /\ \A i \in 1..(args + 1) :
              (a \o nl)[i] = IF i <= args THEN a[i] ELSE nl[i - args]
    <3>1. a \in Seq(Byte) /\ nl \in Seq(Byte) /\ Len(a) = args /\ Len(nl) = 1
      BY <1>4, <1>5
    <3>2. /\ a \o nl \in Seq(Byte) /\ Len(a \o nl) = Len(a) + Len(nl)
          /\ \A i \in 1..(Len(a) + Len(nl)) :
                (a \o nl)[i] = IF i <= Len(a) THEN a[i] ELSE nl[i - Len(a)]
      BY <3>1, ConcatProperties
    <3> QED
      BY <3>1, <3>2
  <2> QED
    BY <1>6, <2>1
<1>8. \A i \in 1..(args + 1) :
         b[i] = [msg |-> m, part |-> IF i = args + 1 THEN "nl" ELSE "arg"]
  <2> TAKE i \in 1..(args + 1)
  <2>1. CASE i = args + 1
    BY <1>1, <1>4, <1>7, <2>1
  <2>2. CASE i # args + 1
    BY <1>1, <1>5, <1>7, <2>2
  <2> QED
    BY <2>1, <2>2
<1>9. /\ Frame(m, args) \in Seq(Byte) /\ Len(Frame(m, args)) = args + 2
      /\ \A i \in 1..(args + 2) :
            Frame(m, args)[i] = IF i <= 1 THEN Id(m)[i] ELSE b[i - 1]
  <2>1. 1 + (args + 1) = args + 2
    BY <1>1
  <2> QED
    <3>1. /\ Id(m) \o b \in Seq(Byte) /\ Len(Id(m) \o b) = 1 + (args + 1)
          /\ \A i \in 1..(1 + (args + 1)) :
                (Id(m) \o b)[i] = IF i <= 1 THEN Id(m)[i] ELSE b[i - 1]
      <4>1. Id(m) \in Seq(Byte) /\ b \in Seq(Byte) /\ Len(Id(m)) = 1 /\ Len(b) = args + 1
        BY <1>3, <1>7
      <4>2. /\ Id(m) \o b \in Seq(Byte) /\ Len(Id(m) \o b) = Len(Id(m)) + Len(b)
            /\ \A i \in 1..(Len(Id(m)) + Len(b)) :
                  (Id(m) \o b)[i] = IF i <= Len(Id(m)) THEN Id(m)[i] ELSE b[i - Len(Id(m))]
        BY <4>1, ConcatProperties
      <4> QED
        BY <4>1, <4>2
    <3>2. Frame(m, args) = Id(m) \o b
      BY DEF Frame, b
    <3> QED
      BY <2>1, <3>1, <3>2
<1>10. \A i \in 1..(args + 2) :
          Frame(m, args)[i] = [msg |-> m, part |->
              IF i = 1 THEN "id" ELSE IF i = args + 2 THEN "nl" ELSE "arg"]
  <2> TAKE i \in 1..(args + 2)
  <2>1. CASE i = 1
    BY <1>3, <1>9, <2>1
  <2>2. CASE i # 1
    <3>1. i - 1 \in 1..(args + 1) /\ ~(i <= 1) /\ (i - 1 = args + 1 <=> i = args + 2)
      BY <1>1, <2>2
    <3> QED
      BY <1>8, <1>9, <2>2, <3>1
  <2> QED
    BY <2>1, <2>2
<1> QED
  BY <1>3, <1>7, <1>8, <1>9, <1>10 DEF b

(* A whole frame, behind whole frames of which it is the next.             *)
LEMMA FrameExtends ==
    ASSUME NEW s \in Seq(Byte), WholeFrames(s), InOrder(s),
           NEW m \in 0..(MaxMsg - 1),
           IF m = 0 THEN s = <<>> ELSE s # <<>> /\ Last(s).msg = m,
           NEW args \in 0..MaxArgs
    PROVE  LET t == s \o Frame(m + 1, args)
           IN  /\ WholeFrames(t) /\ InOrder(t)
               /\ t # <<>> /\ Last(t).msg = m + 1
<1> DEFINE f == Frame(m + 1, args)
           t == s \o f
           l == Len(s)
<1>1. /\ m \in Nat /\ m + 1 \in 1..MaxMsg /\ args \in Nat /\ l \in Nat
      /\ \A i \in 1..l : s[i] \in Byte
  BY LinkAssumption
<1>2. /\ f \in Seq(Byte) /\ Len(f) = args + 2
      /\ \A i \in 1..(args + 2) :
            /\ f[i].msg = m + 1
            /\ f[i].part = IF i = 1 THEN "id" ELSE IF i = args + 2 THEN "nl" ELSE "arg"
  BY <1>1, FrameIs
<1> HIDE DEF f
<1>3. /\ t \in Seq(Byte) /\ Len(t) = l + (args + 2)
      /\ \A i \in 1..(l + (args + 2)) : t[i] = IF i <= l THEN s[i] ELSE f[i - l]
      /\ DOMAIN t = 1..(l + (args + 2))
  BY <1>2, Joined
<1> HIDE DEF t
<1>4. \A i \in 1..l : t[i] = s[i]
  BY <1>1, <1>3
<1>5. \A i \in 1..(args + 2) :
         /\ t[l + i].msg = m + 1
         /\ t[l + i].part = IF i = 1 THEN "id" ELSE IF i = args + 2 THEN "nl" ELSE "arg"
  <2> TAKE i \in 1..(args + 2)
  <2>1. l + i \in 1..(l + (args + 2)) /\ ~(l + i <= l) /\ (l + i) - l = i
    BY <1>1
  <2>2. t[l + i] = f[i]
    BY <1>3, <2>1
  <2> QED
    BY <1>2, <2>2
<1>6. Last(t) = t[l + (args + 2)] /\ t # <<>>
  BY <1>1, <1>3 DEF Last
<1>7. Last(t).msg = m + 1 /\ Last(t).part = "nl"
  <2>1. args + 2 \in 1..(args + 2) /\ args + 2 # 1
    BY <1>1
  <2> QED
    BY <1>5, <1>6, <2>1
<1>8. l # 0 => m # 0 /\ s[l].msg = m /\ s[l].part = "nl" /\ s[l] = t[l]
  <2> SUFFICES ASSUME l # 0 PROVE m # 0 /\ s[l].msg = m /\ s[l].part = "nl" /\ s[l] = t[l]
    OBVIOUS
  <2>1. s # <<>> /\ Last(s) = s[l] /\ l \in 1..l
    BY <1>1 DEF Last
  <2> QED
    BY <1>4, <2>1 DEF WholeFrames
<1>9. \A i \in 1..(l + (args + 2)) :
         \/ i \in 1..l
         \/ i = l + 1
         \/ \E j \in 2..(args + 2) : i = l + j /\ i - 1 = l + (j - 1) /\ j - 1 \in 1..(args + 1)
  <2> TAKE i \in 1..(l + (args + 2))
  <2>1. CASE i > l + 1
    <3>1. i - l \in 2..(args + 2) /\ i = l + (i - l) /\ i - 1 = l + ((i - l) - 1)
      BY <1>1, <2>1
    <3>2. (i - l) - 1 \in 1..(args + 1)
      BY <1>1, <2>1
    <3> QED
      BY <3>1, <3>2
  <2>2. CASE ~(i > l + 1)
    BY <1>1, <2>2
  <2> QED
    BY <2>1, <2>2
<1>10. ASSUME NEW i \in 1..(l + (args + 2))
       PROVE  IF FrameBegins(t, i)
              THEN t[i].part = "id"
              ELSE t[i].part # "id" /\ t[i].msg = t[i - 1].msg
  <2>1. CASE i \in 1..l
    <3>1. i \in DOMAIN s /\ t[i] = s[i] /\ (i # 1 => t[i - 1] = s[i - 1])
      BY <1>1, <1>4, <2>1
    <3> QED
      BY <3>1 DEF WholeFrames, FrameBegins
  <2>2. CASE i = l + 1
    <3>1. t[i].part = "id" /\ i - 1 = l
      BY <1>1, <1>5, <2>2
    <3> QED
      BY <1>1, <1>8, <2>2, <3>1 DEF FrameBegins
  <2>3. ASSUME NEW j \in 2..(args + 2), i = l + j, i - 1 = l + (j - 1), j - 1 \in 1..(args + 1)
        PROVE  /\ ~FrameBegins(t, i)
               /\ t[i].part # "id" /\ t[i].msg = t[i - 1].msg
    <3>1. j \in 1..(args + 2) /\ j # 1 /\ j - 1 \in 1..(args + 2) /\ j - 1 # args + 2 /\ i # 1
      BY <1>1, <2>3
    <3> QED
      BY <1>5, <2>3, <3>1 DEF FrameBegins
  <2> QED
    BY <1>9, <2>1, <2>2, <2>3
<1>11. ASSUME NEW i \in 2..(l + (args + 2))
       PROVE  t[i].msg = t[i - 1].msg + (IF FrameBegins(t, i) THEN 1 ELSE 0)
  <2>0. i \in 1..(l + (args + 2)) /\ i # 1
    BY <1>1
  <2>1. CASE i \in 1..l
    <3>1. i \in 2..Len(s) /\ t[i] = s[i] /\ t[i - 1] = s[i - 1]
      BY <1>1, <1>4, <2>0, <2>1
    <3> QED
      BY <3>1 DEF InOrder, FrameBegins
  <2>2. CASE i = l + 1
    <3>1. t[i].msg = m + 1 /\ i - 1 = l /\ l # 0
      BY <1>1, <1>5, <2>0, <2>2
    <3> QED
      BY <1>8, <3>1 DEF FrameBegins
  <2>3. ASSUME NEW j \in 2..(args + 2), i = l + j, i - 1 = l + (j - 1), j - 1 \in 1..(args + 1)
        PROVE  t[i].msg = t[i - 1].msg + (IF FrameBegins(t, i) THEN 1 ELSE 0)
    <3>1. j \in 1..(args + 2) /\ j # 1 /\ j - 1 \in 1..(args + 2) /\ j - 1 # args + 2
      BY <1>1, <2>3
    <3>2. ~FrameBegins(t, i) /\ t[i].msg = m + 1 /\ t[i - 1].msg = m + 1
      BY <1>5, <2>0, <2>3, <3>1 DEF FrameBegins
    <3> QED
      BY <1>1, <3>2
  <2> QED
    BY <1>9, <2>0, <2>1, <2>2, <2>3
<1>12. WholeFrames(t) /\ InOrder(t)
  BY <1>3, <1>7, <1>10, <1>11 DEF WholeFrames, InOrder
<1> QED
  BY <1>6, <1>7, <1>12 DEF t, f

(* Whole lines at the head of whole frames are whole frames.               *)
LEMMA FramesBegin ==
    ASSUME NEW s \in Seq(Byte), NEW u \in Seq(Byte),
           WholeFrames(s \o u), InOrder(s \o u),
           s # <<>> => Last(s).part = "nl"
    PROVE  WholeFrames(s) /\ InOrder(s)
<1> DEFINE t == s \o u
<1>1. /\ Len(s) \in Nat /\ Len(u) \in Nat
      /\ \A i \in 1..Len(s) : t[i] = s[i] /\ i \in DOMAIN t
      /\ Len(t) = Len(s) + Len(u)
      /\ DOMAIN s = 1..Len(s)
  BY ConcatProperties
<1> HIDE DEF t
<1>2. \A i \in 1..Len(s) : i # 1 => i - 1 \in 1..Len(s)
  BY <1>1
<1>3. \A i \in 1..Len(s) : FrameBegins(t, i) <=> FrameBegins(s, i)
  BY <1>1, <1>2 DEF FrameBegins
<1>4. WholeFrames(s)
  <2> SUFFICES ASSUME NEW i \in 1..Len(s)
               PROVE  IF FrameBegins(s, i)
                      THEN s[i].part = "id"
                      ELSE s[i].part # "id" /\ s[i].msg = s[i - 1].msg
    BY <1>1 DEF WholeFrames
  <2>1. IF FrameBegins(t, i)
        THEN t[i].part = "id"
        ELSE t[i].part # "id" /\ t[i].msg = t[i - 1].msg
    BY <1>1 DEF WholeFrames, t
  <2>2. ~FrameBegins(s, i) => i # 1
    BY DEF FrameBegins
  <2> QED
    BY <1>1, <1>2, <1>3, <2>1, <2>2
<1>5. InOrder(s)
  <2> SUFFICES ASSUME NEW i \in 2..Len(s)
               PROVE  s[i].msg = s[i - 1].msg + (IF FrameBegins(s, i) THEN 1 ELSE 0)
    BY DEF InOrder
  <2>1. i \in 1..Len(s) /\ i - 1 \in 1..Len(s) /\ i \in 2..Len(t)
    BY <1>1
  <2>2. t[i].msg = t[i - 1].msg + (IF FrameBegins(t, i) THEN 1 ELSE 0)
    BY <2>1 DEF InOrder, t
  <2> QED
    BY <1>1, <1>3, <2>1, <2>2
<1> QED
  BY <1>4, <1>5

-----------------------------------------------------------------------------
(* Sending *)

(* The bytes on the link are lists of bytes.                               *)
LEMMA Bytes ==
    ASSUME IInv
    PROVE  /\ interpreted \in Seq(Byte) /\ buffer \in Seq(Byte)
           /\ net \in Seq(Byte) /\ content \in Seq(Byte)
           /\ accepted \in Seq(Byte) /\ body \in Seq(Byte)
           /\ interpreted \o buffer \in Seq(Byte)
           /\ interpreted \o buffer \o net \in Seq(Byte)
           /\ ~slipped => accepted = interpreted \o buffer \o net \o content
           /\ MaxSize \in Nat \ {0} /\ NetSize \in Nat \ {0}
           /\ Len(net) \in Nat /\ Len(content) \in Nat
BY MaxSizeAssumption, LinkAssumption, ConcatProperties
   DEF IInv, LinkTypeOK, OtherTypes, StreamIsExact

(* Concatenation is associative.                                           *)
LEMMA Regroup == \A p, q, r \in Seq(Byte) : (p \o q) \o r = p \o (q \o r)
BY ConcatAssociative

(* What BufferizedSocketSendRaw() leaves.                                  *)
SenderOK ==
    /\ content \in Seq(Byte) /\ Len(content) < MaxSize
    /\ ~congested => content = <<>> /\ ~full
    /\ net \in Seq(Byte) /\ Len(net) <= NetSize
    /\ congested \in BOOLEAN /\ full \in BOOLEAN
    /\ accepted \in Seq(Byte)
    /\ StreamIsExact

(* Every byte of the data was taken, or the frame is marked.               *)
Taken(data, m) ==
    \/ refused' = refused /\ accepted' = accepted \o data
    \/ refused' = refused \cup {m}

(* A buffer that takes a whole message, or refuses it, keeps the stream.   *)
LEMMA AppendKeeps ==
    ASSUME IInv, UNCHANGED receiver, slipped' = slipped,
           NEW data \in Seq(Byte), NEW m, data # <<>>,
           \A i \in 1..Len(data) : data[i].msg = m,
           NEW state, Append2Fifo(data, state)
    PROVE  /\ SenderOK' /\ Taken(data, m)
           /\ congested /\ congested' /\ state \in {"still", "full"}
<1> USE Bytes
<1> DEFINE p == interpreted \o buffer \o net
<1>1. /\ congested /\ congested' = congested /\ net' = net
      /\ FifoWrite(<<>>, data)
      /\ state \in {"still", "full"}
      /\ (interpreted \o buffer \o net)' = p
  BY DEF Append2Fifo, receiver
<1>2. accepted \o <<>> = accepted
  BY ConcatEmptySeq
<1>3. Len(net) <= NetSize /\ congested \in BOOLEAN /\ Len(content) < MaxSize
  BY DEF IInv, LinkTypeOK, OtherTypes
<1>4. CASE Accept(data) /\ accepted' = accepted \o <<>> \o data /\ UNCHANGED refused
  <2>1. /\ content' = content \o data /\ full' = FALSE
        /\ Len(content) + Len(data) < MaxSize
        /\ accepted' = accepted \o data
    BY <1>2, <1>4 DEF Accept
  <2>2. /\ content \o data \in Seq(Byte) /\ Len(content \o data) = Len(content) + Len(data)
        /\ accepted \o data \in Seq(Byte)
    BY ConcatProperties
  <2>3. (p \o content) \o data = p \o (content \o data)
    <3>1. p \in Seq(Byte) /\ content \in Seq(Byte)
      BY Zenon
    <3> QED
      BY ONLY <3>1, data \in Seq(Byte), Regroup
  <2>4. StreamIsExact'
    BY <1>1, <2>1, <2>3 DEF StreamIsExact
  <2> QED
    BY <1>1, <1>3, <1>4, <2>1, <2>2, <2>4 DEF SenderOK, Taken
<1>5. CASE Refuse(data) /\ accepted' = accepted \o <<>>
           /\ refused' = refused \cup {Head(data).msg}
  <2>1. content' = content /\ full' = TRUE /\ accepted' = accepted
    BY <1>2, <1>5 DEF Refuse
  <2>2. Head(data).msg = m
    OBVIOUS
  <2>3. StreamIsExact'
    BY <1>1, <2>1 DEF StreamIsExact
  <2> QED
    BY <1>1, <1>3, <1>5, <2>1, <2>2, <2>3 DEF SenderOK, Taken
<1> QED
  BY <1>1, <1>4, <1>5 DEF FifoWrite

(* send() takes all of a message,                                          *)
LEMMA SendWholeKeeps ==
    ASSUME IInv, UNCHANGED receiver, slipped' = slipped,
           NEW data \in Seq(Byte), NEW m,
           NEW state, SendWhole(data, state)
    PROVE  SenderOK' /\ Taken(data, m) /\ ~congested /\ ~congested' /\ state = "ok"
<1> USE Bytes
<1> DEFINE p == interpreted \o buffer
<1>1. /\ ~congested /\ congested' = congested /\ full' = full /\ content' = content
      /\ Len(data) <= NetSize - Len(net)
      /\ net' = net \o data /\ accepted' = accepted \o data
      /\ refused' = refused /\ state = "ok"
      /\ (interpreted \o buffer)' = p
  BY DEF SendWhole, Room, queueVars, receiver
<1>2. content = <<>> /\ ~full /\ full \in BOOLEAN /\ congested \in BOOLEAN /\ Len(content) < MaxSize
  BY <1>1 DEF IInv, LinkTypeOK, OtherTypes
<1>3. /\ net \o data \in Seq(Byte) /\ Len(net \o data) = Len(net) + Len(data)
      /\ accepted \o data \in Seq(Byte)
      /\ p \o (net \o data) \in Seq(Byte)
  BY ConcatProperties
<1>4. ~slipped => accepted = p \o net
  BY <1>2, ConcatEmptySeq
<1>5. (p \o net) \o data = p \o (net \o data)
  <2>1. p \in Seq(Byte) /\ net \in Seq(Byte) /\ data \in Seq(Byte)
    OBVIOUS
  <2> HIDE DEF p
  <2> QED
    BY ONLY <2>1, Regroup, ZenonT(60)
<1>6. (p \o (net \o data)) \o <<>> = p \o (net \o data)
  BY <1>3, ConcatEmptySeq
<1>7. StreamIsExact'
  BY <1>1, <1>2, <1>4, <1>5, <1>6 DEF StreamIsExact
<1>8. Len(net') <= NetSize
  BY <1>1, <1>3
<1> QED
  BY <1>1, <1>2, <1>3, <1>7, <1>8 DEF SenderOK, Taken

(* or the first part of it, and the buffer the rest,                       *)
LEMMA SendPartKeeps ==
    ASSUME IInv, UNCHANGED receiver, slipped' = slipped,
           NEW data \in Seq(Byte), NEW m, data # <<>>,
           \A i \in 1..Len(data) : data[i].msg = m,
           NEW state, SendPart(data, state)
    PROVE  SenderOK' /\ Taken(data, m) /\ ~congested /\ congested' /\ state = "change"
<1> USE Bytes
<1>1. /\ ~congested /\ congested' = TRUE /\ state = "change"
      /\ (interpreted \o buffer)' = interpreted \o buffer
  BY DEF SendPart, receiver
<1>2. content = <<>> /\ Len(content) < MaxSize
  BY <1>1 DEF IInv, LinkTypeOK, OtherTypes
<1>3. PICK n \in 0..(Len(data) - 1) :
          /\ n <= Room
          /\ net' = net \o SubSeq(data, 1, n)
          /\ FifoWrite(SubSeq(data, 1, n), SubSeq(data, n + 1, Len(data)))
  BY DEF SendPart
<1>4. /\ n \in 0..Len(data) /\ n + 1 \in 1..Len(data) /\ 1 \in 1..(Len(data) - n)
      /\ n <= NetSize - Len(net)
  BY <1>3 DEF Room
<1>5. PICK taken \in Seq(Byte), rest \in Seq(Byte) :
          /\ net' = net \o taken /\ FifoWrite(taken, rest)
          /\ Len(taken) = n /\ Len(rest) = Len(data) - n
          /\ \A i \in 1..(Len(data) - n) : rest[i] = data[n + i]
          /\ taken \o rest = data
  <2> DEFINE t == SubSeq(data, 1, n)
             r == SubSeq(data, n + 1, Len(data))
  <2>1. /\ t \in Seq(Byte) /\ Len(t) = n
        /\ r \in Seq(Byte) /\ Len(r) = Len(data) - n
        /\ \A i \in 1..(Len(data) - n) : r[i] = data[n + i]
        /\ t \o r = data
    BY <1>4, Pieces, Zenon
  <2>2. net' = net \o t /\ FifoWrite(t, r)
    BY <1>3
  <2> HIDE DEF t, r
  <2> QED
    BY <2>1, <2>2
<1>6. rest[1] = data[n + 1] /\ rest # <<>>
  BY <1>4, <1>5
<1> DEFINE p == interpreted \o buffer
<1>7. /\ net \o taken \in Seq(Byte) /\ Len(net \o taken) = Len(net) + n
      /\ accepted \o taken \in Seq(Byte)
      /\ (accepted \o taken) \o rest \in Seq(Byte)
  <2>1. accepted \o taken \in Seq(Byte) /\ Len(net \o taken) = Len(net) + Len(taken)
        /\ net \o taken \in Seq(Byte)
    BY <1>5, ConcatProperties
  <2> QED
    BY <1>5, <2>1, ConcatProperties
<1>8. ~slipped => accepted = p \o net
  BY <1>2, ConcatEmptySeq
<1>9. ~slipped => accepted \o taken = p \o (net \o taken)
  <2>1. p \in Seq(Byte) /\ net \in Seq(Byte) /\ taken \in Seq(Byte)
    BY <1>5
  <2> HIDE DEF p
  <2>2. (p \o net) \o taken = p \o (net \o taken)
    BY ONLY <2>1, Regroup, ZenonT(60)
  <2> QED
    BY ONLY <1>8, <2>2
<1>10. Len(net') <= NetSize
  BY <1>4, <1>5, <1>7
<1>11. CASE Accept(rest) /\ accepted' = accepted \o taken \o rest /\ UNCHANGED refused
  <2>1. content' = rest /\ full' = FALSE /\ Len(rest) < MaxSize
    BY <1>2, <1>5, <1>11, ConcatEmptySeq DEF Accept
  <2>2. accepted' = accepted \o data
    <3>1. (accepted \o taken) \o rest = accepted \o (taken \o rest)
      <4>1. taken \in Seq(Byte) /\ rest \in Seq(Byte) /\ accepted \in Seq(Byte)
        BY <1>5
      <4> QED
        BY ONLY <4>1, Regroup, ZenonT(60)
    <3> QED
      BY <1>5, <1>11, <3>1
  <2>3. StreamIsExact'
    BY <1>1, <1>5, <1>9, <1>11, <2>1 DEF StreamIsExact
  <2> QED
    BY <1>1, <1>5, <1>7, <1>10, <1>11, <2>1, <2>2, <2>3 DEF SenderOK, Taken
<1>12. CASE Refuse(rest) /\ accepted' = accepted \o taken
            /\ refused' = refused \cup {Head(rest).msg}
  <2>1. content' = <<>> /\ full' = TRUE
    BY <1>2, <1>12 DEF Refuse
  <2>2. Head(rest) = rest[1]
    BY <1>6
  <2>3. Head(rest).msg = m
    BY <1>4, <1>6, <2>2
  <2>4. (accepted \o taken) \o <<>> = accepted \o taken
    BY <1>7, ConcatEmptySeq
  <2>5. StreamIsExact'
    BY <1>1, <1>5, <1>9, <1>12, <2>1, <2>4 DEF StreamIsExact
  <2> QED
    BY <1>1, <1>2, <1>5, <1>7, <1>10, <1>12, <2>1, <2>3, <2>5 DEF SenderOK, Taken
<1> QED
  BY <1>5, <1>11, <1>12 DEF FifoWrite

(* or nothing: the stream is kept in each case.                            *)
LEMMA SendKeeps ==
    ASSUME IInv, UNCHANGED receiver, slipped' = slipped,
           NEW data \in Seq(Byte), NEW m, data # <<>>,
           \A i \in 1..Len(data) : data[i].msg = m,
           NEW state \in States, BufferizedSocketSendRaw(data, state)
    PROVE  /\ SenderOK' /\ Taken(data, m)
           /\ state = "ok" => ~congested /\ ~congested'
           /\ state = "change" => ~congested /\ congested'
           /\ state \in {"still", "full"} => congested /\ congested'
BY AppendKeeps, SendWholeKeeps, SendPartKeeps DEF BufferizedSocketSendRaw

-----------------------------------------------------------------------------
(* The actions *)

LEMMA InitInv == LinkInit => IInv
<1> SUFFICES ASSUME LinkInit PROVE IInv
  OBVIOUS
<1> USE DEF LinkInit, Init
<1>1. MaxSize \in Nat \ {0} /\ NetSize \in Nat \ {0} /\ BufferSize \in Nat \ {0} /\ MaxMsg \in Nat
  BY MaxSizeAssumption, LinkAssumption
<1>2. \A S : <<>> \in Seq(S) /\ Len(<<>>) = 0
  OBVIOUS
<1>3. LinkTypeOK
  BY <1>1, <1>2 DEF LinkTypeOK, States
<1>4. OtherTypes
  <2>1. congested \in BOOLEAN /\ full \in BOOLEAN
    BY Zenon
  <2> QED
    BY <1>1, <1>2, <2>1 DEF OtherTypes
<1>5. StreamIsExact
  BY DEF StreamIsExact
<1>6. FramesSent
  BY DEF FramesSent, Stream, WholeFrames, InOrder
<1> QED
  BY <1>2, <1>3, <1>4, <1>5, <1>6
     DEF IInv, BodyIsOfLast, OutcomeKept, CongestionIsTold, LinesEnd

(* What a step of the sender keeps of the receiver.                        *)
LEMMA ReceiverKept ==
    ASSUME IInv, UNCHANGED receiver
    PROVE  /\ interpreted' \in Seq(Byte)
           /\ buffer' \in Seq(Byte) /\ Len(buffer') <= buffer_size'
           /\ buffer_size' \in Nat \ {0}
           /\ LinesEnd'
BY DEF IInv, LinkTypeOK, OtherTypes, receiver, LinesEnd

(* A frame of which a part was refused is marked, and was begun.           *)
LEMMA RefusedWasSent ==
    ASSUME IInv, NEW data, NEW m \in 1..sent', sent' \in {sent, sent + 1}, Taken(data, m)
    PROVE  /\ refused' \subseteq 1..sent'
           /\ refused' = {} => refused = {} /\ accepted' = accepted \o data
<1>1. sent \in Nat /\ refused \subseteq 1..sent
  BY LinkAssumption DEF IInv, LinkTypeOK, OtherTypes
<1>2. refused' \subseteq refused \cup {m} /\ sent' \in Nat
  BY <1>1 DEF Taken
<1>3. refused' \subseteq 1..sent'
  BY <1>1, <1>2
<1>4. refused' = {} => refused = {} /\ accepted' = accepted \o data
  BY Zenon DEF Taken
<1> QED
  BY <1>3, <1>4

(* What the application is told keeps its type.                            *)
LEMMA ToldType ==
    ASSUME IInv, NEW state, Tell(state)
    PROVE  told' \in {"none", "Congestion", "FifoFull", "Decongestion"}
BY DEF IInv, LinkTypeOK, Tell

(* A frame without a body.                                                 *)
LEMMA MsgSendToKeeps == IInv /\ MsgSendTo => IInv'
<1> SUFFICES ASSUME IInv, MsgSendTo PROVE IInv'
  OBVIOUS
<1> USE Bytes
<1>1. /\ body = <<>> /\ body' = <<>> /\ s1' = s1 /\ UNCHANGED receiver
      /\ slipped' = slipped
      /\ sent < MaxMsg /\ sent' = sent + 1
  BY DEF MsgSendTo
<1>2. PICK args \in 0..MaxArgs, state \in States :
          /\ BufferizedSocketSendRaw(Frame(sent + 1, args), state)
          /\ Tell(state)
  BY DEF MsgSendTo, Frame
<1> DEFINE m == sent + 1
           f == Frame(m, args)
<1>3. sent \in 0..(MaxMsg - 1) /\ m \in 1..MaxMsg /\ MaxMsg \in Nat
  BY <1>1, LinkAssumption DEF IInv, OtherTypes
<1>4. /\ f \in Seq(Byte) /\ f # <<>>
      /\ \A i \in 1..Len(f) : f[i].msg = m
  <2>1. args + 2 # 0
    BY LinkAssumption
  <2>2. /\ f \in Seq(Byte) /\ Len(f) = args + 2
        /\ \A i \in 1..(args + 2) : f[i].msg = m
    BY ONLY <1>3, args \in 0..MaxArgs, FrameIs
  <2> HIDE DEF f, m
  <2> QED
    BY <2>1, <2>2
<1> HIDE DEF f
<1>5. /\ SenderOK' /\ Taken(f, m)
      /\ state = "ok" => ~congested /\ ~congested'
      /\ state = "change" => ~congested /\ congested'
      /\ state \in {"still", "full"} => congested /\ congested'
  BY <1>1, <1>2, <1>4, SendKeeps DEF f
<1>6. m \in 1..sent'
  BY <1>1, <1>3
<1>7. /\ refused' \subseteq 1..sent'
      /\ refused' = {} => refused = {} /\ accepted' = accepted \o f
  BY <1>1, <1>5, <1>6, RefusedWasSent
<1>8. LinkTypeOK'
  BY <1>1, <1>2, <1>5, <1>7, ReceiverKept, ToldType DEF LinkTypeOK, SenderOK, IInv
<1>9. OtherTypes'
  BY <1>1, <1>3, <1>5, ReceiverKept DEF OtherTypes, SenderOK
<1>10. CongestionIsTold'
  <2>1. congested <=> told \in Congestions
    BY <1>1 DEF IInv, CongestionIsTold, Congestions
  <2> QED
    BY <1>2, <1>5, <2>1 DEF CongestionIsTold, Tell, States, Congestions
<1>11. FramesSent'
  <2> SUFFICES ASSUME refused' = {}
               PROVE  /\ WholeFrames(Stream') /\ InOrder(Stream')
                      /\ Stream' # <<>> /\ Last(Stream').msg = m
    <3>1. sent' # 0 /\ sent' = m
      BY <1>1, <1>3
    <3> QED
      BY <3>1, Zenon DEF FramesSent
  <2>1. Stream = accepted /\ Stream' = accepted \o f
    <3>1. accepted' = accepted \o f /\ accepted' \in Seq(Byte)
      BY <1>5, <1>7 DEF SenderOK
    <3> QED
      BY <1>1, <3>1, ConcatEmptySeq DEF Stream
  <2>2. /\ WholeFrames(Stream) /\ InOrder(Stream)
        /\ IF sent = 0 THEN Stream = <<>> ELSE Stream # <<>> /\ Last(Stream).msg = sent
    BY <1>7 DEF IInv, FramesSent
  <2> QED
    BY <1>3, <2>1, <2>2, FrameExtends DEF f
<1> QED
  BY <1>1, <1>5, <1>8, <1>9, <1>10, <1>11, ReceiverKept
     DEF IInv, BodyIsOfLast, OutcomeKept, SenderOK

(* The first part of a message.                                            *)
LEMMA SendIdKeeps == IInv /\ SendId => IInv'
<1> SUFFICES ASSUME IInv, SendId PROVE IInv'
  OBVIOUS
<1> USE Bytes
<1> DEFINE m == sent + 1
           id == Id(m)
<1>1. /\ body = <<>> /\ told' = told /\ UNCHANGED receiver /\ slipped' = slipped
      /\ sent < MaxMsg /\ sent' = sent + 1
  BY DEF SendId
<1>2. PICK args \in 0..MaxArgs : body' = Body(m, args)
  BY DEF SendId
<1>3. PICK state \in States : BufferizedSocketSendRaw(id, state) /\ s1' = state
  BY DEF SendId
<1>4. sent \in 0..(MaxMsg - 1) /\ m \in 1..MaxMsg /\ MaxMsg \in Nat /\ args \in Nat
  BY <1>1, LinkAssumption DEF IInv, OtherTypes
<1>5. /\ id \in Seq(Byte) /\ Len(id) = 1 /\ id[1].msg = m
      /\ body' \in Seq(Byte) /\ Len(body') = args + 1
      /\ \A i \in 1..(args + 1) : body'[i].msg = m
  <2>1. /\ Id(m) \in Seq(Byte) /\ Len(Id(m)) = 1 /\ Id(m)[1].msg = m
        /\ Body(m, args) \in Seq(Byte) /\ Len(Body(m, args)) = args + 1
        /\ \A i \in 1..(args + 1) : Body(m, args)[i].msg = m
    <3>1. m \in 1..MaxMsg /\ args \in 0..MaxArgs
      BY <1>4
    <3> HIDE DEF m
    <3> QED
      BY ONLY <3>1, FrameIs
  <2> QED
    BY <1>2, <2>1, Zenon
<1>6. id # <<>> /\ \A i \in 1..Len(id) : id[i].msg = m
  BY <1>5
<1> HIDE DEF id
<1>7. /\ SenderOK' /\ Taken(id, m)
      /\ state = "ok" => ~congested /\ ~congested'
      /\ state = "change" => ~congested /\ congested'
      /\ state \in {"still", "full"} => congested /\ congested'
  BY <1>1, <1>3, <1>5, <1>6, SendKeeps
<1>8. m \in 1..sent' /\ sent' = m
  BY <1>1, <1>4
<1>9. /\ refused' \subseteq 1..sent'
      /\ refused' = {} => refused = {} /\ accepted' = accepted \o id
  BY <1>1, <1>7, <1>8, RefusedWasSent
<1>10. LinkTypeOK'
  BY <1>1, <1>3, <1>7, <1>9, ReceiverKept DEF LinkTypeOK, SenderOK, IInv
<1>11. OtherTypes'
  BY <1>1, <1>4, <1>5, <1>7, ReceiverKept DEF OtherTypes, SenderOK
<1>12. BodyIsOfLast' /\ body' # <<>>
  <2>1. sent' # 0 /\ args + 1 # 0
    BY <1>4, <1>8
  <2> QED
    BY <1>5, <1>8, <2>1 DEF BodyIsOfLast
<1>13. OutcomeKept'
  <2>1. congested <=> told \in Congestions
    BY <1>1 DEF IInv, CongestionIsTold, Congestions
  <2> QED
    BY <1>1, <1>3, <1>7, <2>1, Zenon DEF OutcomeKept
<1>14. FramesSent'
  <2> SUFFICES ASSUME refused' = {}
               PROVE  /\ WholeFrames(Stream') /\ InOrder(Stream')
                      /\ Stream' # <<>> /\ Last(Stream').msg = m
    <3>1. sent' # 0
      BY <1>8
    <3> QED
      BY <1>8, <3>1, Zenon DEF FramesSent
  <2>1. Stream = accepted
    BY <1>1, ConcatEmptySeq DEF Stream
  <2>2. Stream' = accepted \o Frame(m, args)
    <3>1. (accepted \o id) \o body' = accepted \o (id \o body')
      <4>1. accepted \in Seq(Byte) /\ id \in Seq(Byte) /\ body' \in Seq(Byte)
        BY <1>5
      <4> QED
        BY ONLY <4>1, Regroup, ZenonT(60)
    <3>2. Frame(m, args) = id \o body'
      BY <1>2 DEF Frame, id
    <3>3. Stream' = accepted' \o body'
      BY DEF Stream
    <3> QED
      BY <1>9, <3>1, <3>2, <3>3
  <2>3. /\ WholeFrames(Stream) /\ InOrder(Stream)
        /\ IF sent = 0 THEN Stream = <<>> ELSE Stream # <<>> /\ Last(Stream).msg = sent
    BY <1>9 DEF IInv, FramesSent
  <2> QED
    BY <1>4, <2>1, <2>2, <2>3, FrameExtends
<1> QED
  BY <1>1, <1>7, <1>10, <1>11, <1>12, <1>13, <1>14, ReceiverKept
     DEF IInv, CongestionIsTold, SenderOK

(* The second part, by a call of its own.                                  *)
LEMMA SendBodyKeeps == IInv /\ SendBody => IInv'
<1> SUFFICES ASSUME IInv, SendBody PROVE IInv'
  OBVIOUS
<1> USE Bytes
<1>1. /\ body # <<>> /\ body' = <<>> /\ s1' = "ok"
      /\ UNCHANGED receiver /\ slipped' = slipped /\ sent' = sent
  BY DEF SendBody
<1>2. PICK s2 \in States : BufferizedSocketSendRaw(body, s2) /\ Tell(Outcome(s2))
  BY DEF SendBody
<1>3. \A i \in 1..Len(body) : body[i].msg = sent
  BY DEF IInv, BodyIsOfLast
<1>4. sent \in 0..MaxMsg /\ sent \in 1..MaxMsg
  BY <1>1, LinkAssumption DEF IInv, OtherTypes, BodyIsOfLast
<1>5. /\ SenderOK' /\ Taken(body, sent)
      /\ s2 = "ok" => ~congested /\ ~congested'
      /\ s2 = "change" => ~congested /\ congested'
      /\ s2 \in {"still", "full"} => congested /\ congested'
  BY <1>1, <1>2, <1>3, SendKeeps
<1>6. sent \in 1..sent'
  BY <1>1, <1>4, LinkAssumption
<1>7. /\ refused' \subseteq 1..sent'
      /\ refused' = {} => refused = {} /\ accepted' = accepted \o body
  BY <1>1, <1>5, <1>6, RefusedWasSent
<1>8. LinkTypeOK'
  BY <1>1, <1>2, <1>5, <1>7, ReceiverKept, ToldType DEF LinkTypeOK, SenderOK, IInv, States
<1>9. OtherTypes'
  BY <1>1, <1>4, <1>5, ReceiverKept DEF OtherTypes, SenderOK
<1>10. CongestionIsTold'
  <2>1. s1 \in States
    BY DEF IInv, LinkTypeOK
  <2>2. /\ s1 = "ok" => ~congested /\ told \notin Congestions
        /\ s1 = "change" => congested
        /\ s1 \in {"still", "full"} => congested /\ told \in Congestions
    BY <1>1 DEF IInv, OutcomeKept
  <2>3. congested' <=> told' \in Congestions
    <3>1. CASE s1 = "ok"
      BY <1>2, <1>5, <2>2, <3>1 DEF Tell, Outcome, States, Congestions
    <3>2. CASE s1 = "change"
      BY <1>2, <1>5, <2>2, <3>2 DEF Tell, Outcome, States, Congestions
    <3>3. CASE s1 \in {"still", "full"}
      BY <1>2, <1>5, <2>2, <3>3 DEF Tell, Outcome, States, Congestions
    <3> QED
      BY <2>1, <3>1, <3>2, <3>3 DEF States
  <2> QED
    BY <2>3 DEF CongestionIsTold, Congestions
<1>11. FramesSent'
  <2> SUFFICES ASSUME refused' = {}
               PROVE  Stream' = Stream /\ refused = {}
    BY <1>1 DEF IInv, FramesSent
  <2>1. accepted' = accepted \o body /\ refused = {} /\ accepted' \in Seq(Byte)
    BY <1>5, <1>7 DEF SenderOK
  <2>2. accepted' \o <<>> = accepted'
    BY <2>1, ConcatEmptySeq
  <2> QED
    BY <1>1, <2>1, <2>2 DEF Stream
<1> QED
  BY <1>1, <1>5, <1>8, <1>9, <1>10, <1>11, ReceiverKept
     DEF IInv, BodyIsOfLast, OutcomeKept, SenderOK

(* The channel is writable again: the buffer is emptied,                   *)
LEMMA DrainedKeeps == IInv /\ HandleCongestionWrite /\ Drained => IInv'
<1> SUFFICES ASSUME IInv, HandleCongestionWrite, Drained PROVE IInv'
  OBVIOUS
<1> USE Bytes
<1>1. /\ body = <<>> /\ body' = <<>> /\ s1' = s1 /\ UNCHANGED receiver
      /\ sent' = sent /\ accepted' = accepted /\ refused' = refused
      /\ slipped' = slipped
  BY DEF HandleCongestionWrite, Drained
<1>2. PICK n \in 0..Len(content) :
          /\ n <= Room
          /\ n = 0 => content = <<>>
          /\ net' = net \o SubSeq(content, 1, n)
          /\ IF n = Len(content)
             THEN /\ congested' = FALSE
                  /\ told' = "Decongestion"
                  /\ content' = <<>> /\ full' = FALSE
             ELSE /\ Deliver(n)
                  /\ UNCHANGED <<congested, told>>
  BY DEF Drained
<1>3. PICK taken \in Seq(Byte), rest \in Seq(Byte) :
          /\ taken = SubSeq(content, 1, n)
          /\ rest = SubSeq(content, n + 1, Len(content))
          /\ Len(taken) = n /\ Len(rest) = Len(content) - n
          /\ taken \o rest = content
  <2> DEFINE t == SubSeq(content, 1, n)
             r == SubSeq(content, n + 1, Len(content))
  <2>1. /\ t \in Seq(Byte) /\ Len(t) = n
        /\ r \in Seq(Byte) /\ Len(r) = Len(content) - n
        /\ t \o r = content
    <3>1. content \in Seq(Byte) /\ n \in 0..Len(content)
      BY <1>2
    <3> QED
      BY <3>1, Pieces, Zenon
  <2> QED
    BY <2>1, Zenon
<1>4. /\ Len(content) < MaxSize /\ Len(net) <= NetSize
      /\ ~congested => content = <<>> /\ ~full
      /\ congested \in BOOLEAN /\ full \in BOOLEAN
  BY DEF IInv, LinkTypeOK, OtherTypes
<1>5. net' = net \o taken /\ content' = rest
  <2>1. CASE n = Len(content)
    <3>1. rest = <<>>
      BY <1>3, <2>1
    <3> QED
      BY <1>2, <1>3, <2>1, <3>1
  <2>2. CASE n # Len(content)
    BY <1>2, <1>3, <2>2 DEF Deliver
  <2> QED
    BY <2>1, <2>2
<1>6. net' \in Seq(Byte) /\ Len(net') <= NetSize
  <2>1. net \o taken \in Seq(Byte) /\ Len(net \o taken) = Len(net) + Len(taken)
    BY ConcatProperties
  <2>2. n <= NetSize - Len(net) /\ n \in Nat /\ Len(net) \in Nat /\ NetSize \in Nat
    BY <1>2 DEF Room
  <2>3. Len(net') = Len(net) + n
    BY <1>3, <1>5, <2>1
  <2>4. Len(net') <= NetSize
    BY ONLY <2>2, <2>3
  <2> QED
    BY <1>5, <2>1, <2>4
<1>7. /\ congested' \in BOOLEAN /\ full' \in BOOLEAN
      /\ ~congested' => content' = <<>> /\ ~full'
      /\ told' \in {"Decongestion", told}
      /\ congested' <=> told' \in Congestions
  <2>1. CASE n = Len(content)
    BY <1>2, <2>1 DEF Congestions
  <2>2. CASE n # Len(content)
    <3>1. congested' = congested /\ told' = told
      BY <1>2, <2>2
    <3>2. full' \in BOOLEAN
      BY <1>2, <2>2, Zenon DEF Deliver
    <3>3. congested
      BY <1>2, <1>4, <2>2
    <3> QED
      BY <1>1, <1>4, <3>1, <3>2, <3>3 DEF IInv, CongestionIsTold, Congestions
  <2> QED
    BY <2>1, <2>2
<1>8. StreamIsExact'
  <2> DEFINE p == interpreted \o buffer
  <2>1. (p \o net) \o (taken \o rest) = (p \o (net \o taken)) \o rest
    <3>1. p \in Seq(Byte) /\ net \in Seq(Byte) /\ taken \in Seq(Byte) /\ rest \in Seq(Byte)
      OBVIOUS
    <3> HIDE DEF p
    <3>2. p \o net \in Seq(Byte)
      BY <3>1, ConcatProperties
    <3>3. ((p \o net) \o taken) \o rest = (p \o net) \o (taken \o rest)
      <4> DEFINE q == p \o net
      <4>1. q \in Seq(Byte)
        BY <3>2
      <4> HIDE DEF q
      <4>2. (q \o taken) \o rest = q \o (taken \o rest)
        BY ONLY <3>1, <4>1, Regroup
      <4> QED
        BY <4>2 DEF q
    <3>4. (p \o net) \o taken = p \o (net \o taken)
      BY ONLY <3>1, Regroup
    <3> QED
      BY ONLY <3>3, <3>4
  <2>2. (interpreted \o buffer)' = p
    BY <1>1 DEF receiver
  <2> QED
    BY <1>1, <1>3, <1>5, <2>1, <2>2 DEF StreamIsExact
<1>9. LinkTypeOK'
  <2>1. Len(content') < MaxSize
    <3>1. Len(rest) = Len(content) - n /\ n \in Nat /\ Len(content) < MaxSize
      BY <1>2, <1>3, <1>4
    <3> QED
      BY <1>5, <3>1
  <2>2. /\ s1' \in States /\ refused' \subseteq 1..sent'
        /\ told' \in {"none", "Congestion", "FifoFull", "Decongestion"}
    BY <1>1, <1>7 DEF IInv, LinkTypeOK
  <2> QED
    BY <1>1, <1>5, <1>6, <1>7, <2>1, <2>2, ReceiverKept, Zenon DEF LinkTypeOK
<1>10. OtherTypes'
  BY <1>1, <1>7, ReceiverKept DEF OtherTypes, IInv
<1>11. FramesSent'
  BY <1>1 DEF IInv, FramesSent, Stream
<1> QED
  BY <1>1, <1>7, <1>8, <1>9, <1>10, <1>11, ReceiverKept
     DEF IInv, BodyIsOfLast, OutcomeKept, CongestionIsTold, Congestions

(* or sent up to the end of the ring, after which send() is refused and a  *)
(* stray byte takes the place of those sent.                               *)
LEMMA DrainedTooFarKeeps == IInv /\ HandleCongestionWrite /\ DrainedTooFar => IInv'
<1> SUFFICES ASSUME IInv, HandleCongestionWrite, DrainedTooFar PROVE IInv'
  OBVIOUS
<1> USE Bytes
<1>1. /\ body = <<>> /\ body' = <<>> /\ s1' = s1 /\ UNCHANGED receiver
      /\ sent' = sent /\ accepted' = accepted /\ refused' = refused
      /\ congested' = congested /\ told' = told /\ full' = FALSE
      /\ slipped' = TRUE
      /\ Room > 0
  BY DEF HandleCongestionWrite, DrainedTooFar, Slip
<1>2. PICK n \in 1..(Len(content) - 1) : n = Room
  <2>1. Room \in Int /\ Len(content) \in Nat
    BY DEF Room
  <2>2. Room < Len(content)
    BY DEF DrainedTooFar, Slip
  <2> QED
    BY <1>1, <2>1, <2>2
<1>3. PICK taken \in Seq(Byte), rest \in Seq(Byte) :
          /\ taken = SubSeq(content, 1, n)
          /\ rest = SubSeq(content, n + 1, Len(content))
          /\ Len(taken) = n /\ Len(rest) = Len(content) - n
  <2> DEFINE t == SubSeq(content, 1, n)
             r == SubSeq(content, n + 1, Len(content))
  <2>1. /\ t \in Seq(Byte) /\ Len(t) = n
        /\ r \in Seq(Byte) /\ Len(r) = Len(content) - n
    <3>1. content \in Seq(Byte) /\ n \in 0..Len(content)
      BY <1>2
    <3> QED
      BY <3>1, Pieces, Zenon
  <2> QED
    BY <2>1, Zenon
<1>4. net' = net \o taken /\ content' = <<Stray>> \o rest
  BY <1>2, <1>3 DEF DrainedTooFar, Slip
<1>5. net' \in Seq(Byte) /\ Len(net') <= NetSize
  <2>1. net \o taken \in Seq(Byte) /\ Len(net \o taken) = Len(net) + n
    BY <1>3, ConcatProperties
  <2>2. n = NetSize - Len(net) /\ NetSize \in Nat
    BY <1>2 DEF Room
  <2> QED
    BY <1>4, <2>1, <2>2
<1>6. content' \in Seq(Byte) /\ Len(content') < MaxSize
  <2>1. <<Stray>> \in Seq(Byte) /\ Len(<<Stray>>) = 1
    BY StrayAssumption
  <2>2. content' \in Seq(Byte) /\ Len(content') = 1 + (Len(content) - n)
    BY <1>3, <1>4, <2>1, ConcatProperties
  <2>3. Len(content) < MaxSize
    BY DEF IInv, LinkTypeOK
  <2> QED
    BY <1>2, <2>2, <2>3
<1>7. congested
  <2>1. content # <<>>
    BY <1>2
  <2> QED
    BY <2>1 DEF IInv, LinkTypeOK
<1>8. LinkTypeOK'
  BY <1>1, <1>5, <1>6, <1>7, ReceiverKept DEF LinkTypeOK, IInv
<1>9. OtherTypes'
  BY <1>1, ReceiverKept DEF OtherTypes, IInv
<1>10. FramesSent'
  BY <1>1 DEF IInv, FramesSent, Stream
<1>11. StreamIsExact' /\ LinesEnd'
  BY <1>1, ReceiverKept DEF StreamIsExact
<1> QED
  BY <1>1, <1>7, <1>8, <1>9, <1>10, <1>11
     DEF IInv, BodyIsOfLast, OutcomeKept, CongestionIsTold, Congestions

LEMMA HandleCongestionWriteKeeps == IInv /\ HandleCongestionWrite => IInv'
BY DrainedKeeps, DrainedTooFarKeeps DEF HandleCongestionWrite

(* The whole lines end inside what was read, with an end of line.          *)
LEMMA EndOfLinesIs ==
    ASSUME NEW bytes \in Seq(Byte)
    PROVE  /\ EndOfLines(bytes) \in 0..Len(bytes)
           /\ EndOfLines(bytes) # 0 => bytes[EndOfLines(bytes)].part = "nl"
<1> DEFINE ends == {0} \cup {i \in DOMAIN bytes : bytes[i].part = "nl"}
<1>1. Len(bytes) \in Nat /\ DOMAIN bytes = 1..Len(bytes)
  OBVIOUS
<1>2. ends \subseteq 0..Len(bytes) /\ ends # {}
  BY <1>1
<1> HIDE DEF ends
<1>3. \E x \in ends : \A y \in ends : x >= y
  BY <1>1, <1>2, GreatestNatural
<1>4. EndOfLines(bytes) \in ends
  <2>1. Max(ends) \in ends
    BY <1>3 DEF Max
  <2> QED
    BY <2>1 DEF EndOfLines, ends
<1> QED
  BY <1>2, <1>4 DEF ends

(* The receiver takes what has come, and cuts it into frames.              *)
LEMMA HandleSocketKeeps == IInv /\ HandleSocket => IInv'
<1> SUFFICES ASSUME IInv, HandleSocket PROVE IInv'
  OBVIOUS
<1> USE Bytes
<1>1. /\ UNCHANGED <<queueVars, sender, sent, accepted, refused, slipped>>
      /\ buffer_size' = Grown
  BY DEF HandleSocket
<1>2. PICK n \in 1..Len(net) :
          /\ n <= ToRead
          /\ LET bytes == buffer \o SubSeq(net, 1, n)
                 end   == EndOfLines(bytes)
             IN  /\ interpreted' = interpreted \o SubSeq(bytes, 1, end)
                 /\ buffer' = SubSeq(bytes, end + 1, Len(bytes))
                 /\ net' = SubSeq(net, n + 1, Len(net))
  BY DEF HandleSocket
<1>3. PICK read \in Seq(Byte), rest \in Seq(Byte) :
          /\ read = SubSeq(net, 1, n) /\ rest = SubSeq(net, n + 1, Len(net))
          /\ Len(read) = n /\ Len(rest) = Len(net) - n
          /\ read \o rest = net
  <2> DEFINE t == SubSeq(net, 1, n)
             r == SubSeq(net, n + 1, Len(net))
  <2>1. /\ t \in Seq(Byte) /\ Len(t) = n
        /\ r \in Seq(Byte) /\ Len(r) = Len(net) - n
        /\ t \o r = net
    <3>1. net \in Seq(Byte) /\ n \in 0..Len(net)
      BY <1>2
    <3> QED
      BY <3>1, Pieces, Zenon
  <2> QED
    BY <2>1, Zenon
<1> DEFINE bytes == buffer \o read
           end == EndOfLines(bytes)
<1>4. /\ interpreted' = interpreted \o SubSeq(bytes, 1, end)
      /\ buffer' = SubSeq(bytes, end + 1, Len(bytes))
      /\ net' = rest
  BY <1>2, <1>3
<1>5. bytes \in Seq(Byte) /\ Len(bytes) = Len(buffer) + n
  BY <1>3, ConcatProperties
<1>6. end \in 0..Len(bytes) /\ (end # 0 => bytes[end].part = "nl")
  BY <1>5, EndOfLinesIs
<1>7. buffer_size \in Nat \ {0} /\ Len(buffer) <= buffer_size /\ Len(buffer) \in Nat
  BY DEF IInv, LinkTypeOK, OtherTypes
<1>8. Grown \in Nat \ {0} /\ Len(bytes) <= Grown
  BY <1>2, <1>5, <1>7 DEF ToRead, Grown
<1> HIDE DEF bytes, end
<1>9. PICK lines \in Seq(Byte), kept \in Seq(Byte) :
          /\ interpreted' = interpreted \o lines /\ buffer' = kept
          /\ Len(lines) = end /\ Len(kept) = Len(bytes) - end
          /\ end # 0 => lines[end].part = "nl"
          /\ lines \o kept = bytes
  <2> DEFINE t == SubSeq(bytes, 1, end)
             r == SubSeq(bytes, end + 1, Len(bytes))
  <2>1. /\ t \in Seq(Byte) /\ Len(t) = end
        /\ \A i \in 1..end : t[i] = bytes[i]
        /\ r \in Seq(Byte) /\ Len(r) = Len(bytes) - end
        /\ t \o r = bytes
    <3>1. bytes \in Seq(Byte) /\ end \in 0..Len(bytes)
      BY <1>5, <1>6
    <3> QED
      BY ONLY <3>1, Pieces, Zenon
  <2> HIDE DEF t, r
  <2>2. interpreted' = interpreted \o t /\ buffer' = r
    BY <1>4 DEF t, r
  <2>3. end # 0 => t[end].part = "nl"
    BY <1>5, <1>6, <2>1
  <2> QED
    BY <2>1, <2>2, <2>3
<1>10. interpreted' \in Seq(Byte) /\ Len(interpreted') = Len(interpreted) + end
       /\ \A i \in 1..(Len(interpreted) + end) :
             interpreted'[i] = IF i <= Len(interpreted) THEN interpreted[i]
                               ELSE lines[i - Len(interpreted)]
  <2>1. /\ interpreted \o lines \in Seq(Byte)
        /\ Len(interpreted \o lines) = Len(interpreted) + Len(lines)
        /\ \A i \in 1..(Len(interpreted) + Len(lines)) :
              (interpreted \o lines)[i] = IF i <= Len(interpreted) THEN interpreted[i]
                                          ELSE lines[i - Len(interpreted)]
    BY ConcatProperties
  <2> QED
    BY <1>9, <2>1
<1>11. LinesEnd'
  <2> DEFINE l == Len(interpreted)
  <2>1. l \in Nat /\ end \in Nat
    BY <1>5, <1>6
  <2>2. CASE end = 0
    <3>1. lines = <<>>
      BY <1>9, <2>2
    <3>2. interpreted' = interpreted
      BY <1>9, <3>1, ConcatEmptySeq
    <3> QED
      BY <3>2 DEF IInv, LinesEnd
  <2>3. CASE end # 0
    <3>1. /\ l + end \in 1..(l + end) /\ ~(l + end <= l) /\ (l + end) - l = end
      BY <2>1, <2>3
    <3>2. interpreted'[l + end] = lines[end]
      BY <1>10, <3>1
    <3> QED
      BY <1>9, <1>10, <2>3, <3>2 DEF LinesEnd, Last
  <2> QED
    BY <2>2, <2>3
<1>12. StreamIsExact'
  <2>1. ((interpreted \o lines) \o kept) \o rest = (interpreted \o buffer) \o net
    <3>1. (interpreted \o lines) \o kept = interpreted \o (lines \o kept)
      <4>1. interpreted \in Seq(Byte) /\ lines \in Seq(Byte) /\ kept \in Seq(Byte)
        OBVIOUS
      <4> QED
        BY ONLY <4>1, Regroup, ZenonT(60)
    <3>2. (interpreted \o buffer) \o read = interpreted \o (buffer \o read)
      BY ONLY interpreted \in Seq(Byte), buffer \in Seq(Byte), read \in Seq(Byte), Regroup,
         ZenonT(60)
    <3>3. ((interpreted \o buffer) \o read) \o rest = (interpreted \o buffer) \o (read \o rest)
      <4> DEFINE p == interpreted \o buffer
      <4>1. p \in Seq(Byte)
        OBVIOUS
      <4> HIDE DEF p
      <4>2. (p \o read) \o rest = p \o (read \o rest)
        BY ONLY <4>1, read \in Seq(Byte), rest \in Seq(Byte), Regroup, ZenonT(60)
      <4> QED
        BY <4>2 DEF p
    <3> QED
      BY ONLY <1>3, <1>9, <3>1, <3>2, <3>3 DEF bytes
  <2>2. accepted' = accepted /\ content' = content /\ slipped' = slipped
    BY <1>1 DEF queueVars
  <2> QED
    BY <1>4, <1>9, <2>1, <2>2 DEF StreamIsExact
<1>13. LinkTypeOK'
  <2>1. /\ net' \in Seq(Byte) /\ Len(net') <= NetSize
    <3>1. Len(rest) = Len(net) - n /\ n \in Nat /\ Len(net) <= NetSize
      BY <1>2, <1>3 DEF IInv, LinkTypeOK
    <3> QED
      BY <1>4, <3>1
  <2>2. buffer' \in Seq(Byte) /\ Len(buffer') <= buffer_size'
    <3>1. Len(kept) <= Len(bytes)
      BY <1>5, <1>6, <1>9
    <3>2. /\ Len(kept) \in Nat /\ Len(bytes) \in Nat
          /\ Grown \in Nat /\ Len(bytes) <= Grown
      BY <1>5, <1>8, <1>9
    <3>3. Len(kept) <= Grown
      BY ONLY <3>1, <3>2
    <3> QED
      BY <1>1, <1>9, <3>3, Zenon
  <2> QED
    BY <1>1, <2>1, <2>2 DEF IInv, LinkTypeOK, queueVars, sender
<1>14. OtherTypes'
  BY <1>1, <1>8, <1>10 DEF IInv, OtherTypes, queueVars, sender
<1>15. FramesSent'
  BY <1>1 DEF IInv, FramesSent, Stream, sender
<1> QED
  BY <1>1, <1>11, <1>12, <1>13, <1>14, <1>15
     DEF IInv, BodyIsOfLast, OutcomeKept, CongestionIsTold, sender

(* A step of somebody else.                                                *)
LEMMA StutterKeeps == IInv /\ UNCHANGED linkVars => IInv'
BY DEF linkVars, queueVars, sender, receiver, IInv, LinkTypeOK, OtherTypes, BodyIsOfLast,
       OutcomeKept, CongestionIsTold, StreamIsExact, FramesSent, Stream, LinesEnd

-----------------------------------------------------------------------------
(* The theorems *)

(* The inductive invariant holds.                                          *)
THEOREM Invariance == LinkSpec => []IInv
<1>1. IInv /\ [LinkNext]_linkVars => IInv'
  BY MsgSendToKeeps, SendIdKeeps, SendBodyKeeps, HandleCongestionWriteKeeps,
     HandleSocketKeeps, StutterKeeps DEF LinkNext, Quiet
<1> QED
  BY <1>1, InitInv, PTL DEF LinkSpec

(* The fifo is there only in a congestion, and the receiver never reads    *)
(* beyond its buffer (HandleSocket).                                       *)
THEOREM Typing == LinkSpec => []LinkTypeOK
<1>1. IInv => LinkTypeOK
  BY DEF IInv
<1> QED
  BY <1>1, Invariance, PTL

(* Until a send() is refused after another, which puts a stray byte into   *)
(* the stream, no byte that the kernel or the fifo accepted is lost,       *)
(* doubled or overtaken and none is added (BufferizedSocketSendRaw,        *)
(* HandleCongestionWrite).                                                 *)
THEOREM StreamKept == LinkSpec => []StreamIsExact
<1>1. IInv => StreamIsExact
  BY DEF IInv
<1> QED
  BY <1>1, Invariance, PTL

(* As long as the fifo refuses nothing and no stray byte comes into the    *)
(* stream the interpretation is given whole frames, in order.              *)
THEOREM FramesAlwaysArrive == LinkSpec => []FramesArrive
<1>1. IInv => FramesArrive
  <2> SUFFICES ASSUME IInv, refused = {}, ~slipped
               PROVE  WholeFrames(interpreted) /\ InOrder(interpreted)
    BY DEF FramesArrive
  <2> DEFINE u == ((buffer \o net) \o content) \o body
  <2>1. u \in Seq(Byte) /\ Stream = interpreted \o u
    <3>1. /\ interpreted \in Seq(Byte) /\ buffer \in Seq(Byte) /\ net \in Seq(Byte)
          /\ content \in Seq(Byte) /\ body \in Seq(Byte)
      BY Bytes
    <3>2. PICK bn : bn = buffer \o net /\ bn \in Seq(Byte)
      BY <3>1, ConcatProperties
    <3>3. PICK bnc : bnc = bn \o content /\ bnc \in Seq(Byte)
      BY <3>1, <3>2, ConcatProperties
    <3>4. bnc \o body \in Seq(Byte)
      BY <3>1, <3>3, ConcatProperties
    <3>5. (interpreted \o buffer) \o net = interpreted \o bn
      <4>1. (interpreted \o buffer) \o net = interpreted \o (buffer \o net)
        BY ONLY <3>1, Regroup, ZenonT(60)
      <4> QED
        BY ONLY <3>2, <4>1
    <3>6. (interpreted \o bn) \o content = interpreted \o bnc
      <4>1. (interpreted \o bn) \o content = interpreted \o (bn \o content)
        <5>1. interpreted \in Seq(Byte) /\ bn \in Seq(Byte) /\ content \in Seq(Byte)
          BY <3>1, <3>2
        <5> QED
          BY ONLY <5>1, Regroup, ZenonT(60)
      <4> QED
        BY ONLY <3>3, <4>1
    <3>7. (interpreted \o bnc) \o body = interpreted \o (bnc \o body)
      <4>1. interpreted \in Seq(Byte) /\ bnc \in Seq(Byte) /\ body \in Seq(Byte)
        BY <3>1, <3>3
      <4> QED
        BY ONLY <4>1, Regroup, ZenonT(60)
    <3>8. Stream = (((interpreted \o buffer) \o net) \o content) \o body
      BY DEF Stream, IInv, StreamIsExact
    <3> QED
      BY ONLY <3>2, <3>3, <3>4, <3>5, <3>6, <3>7, <3>8
  <2> HIDE DEF u
  <2>2. WholeFrames(interpreted \o u) /\ InOrder(interpreted \o u)
    BY <2>1 DEF IInv, FramesSent
  <2> QED
    BY <2>1, <2>2, Bytes, FramesBegin DEF IInv, LinesEnd
<1> QED
  BY <1>1, Invariance, PTL

(* Between two callbacks the application knows whether its peer is         *)
(* congested.                                                              *)
THEOREM CongestionAlwaysTold == LinkSpec => []CongestionIsTold
<1>1. IInv => CongestionIsTold
  BY DEF IInv
<1> QED
  BY <1>1, Invariance, PTL
=============================================================================

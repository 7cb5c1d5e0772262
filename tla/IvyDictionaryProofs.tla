------------------------ MODULE IvyDictionaryProofs ------------------------
(***************************************************************************)
(* Proofs about IvyDictionary, for any clients, expressions and messages,  *)
(* and any number of calls.                                                *)
(***************************************************************************)
EXTENDS IvyDictionary, IvyListProofs

-----------------------------------------------------------------------------
(* The inductive invariant *)

Bound == [regexp : Regexp, clientList : Seq(Entry)]

AddFrame == [type : {"AddRegexp"}, id : Id, regexp : Regexp]
OtherFrame == [type : {"DelRegexp", "EndRegexp", "Bye"}, id : Id, regexp : {NoRegexp}]
AnyFrame == AddFrame \cup OtherFrame

Typed ==
    /\ msg_recv \in [Client -> Seq(Binding)]
    /\ recv_id \in [Client -> 0..calls]
    /\ link \in [Client -> {"down", "up", "left", "closed"}]
    /\ frames \in [Client -> Seq(AnyFrame)]
    /\ msgs \in [Client -> Seq(Binding)]
    /\ id \in [Client -> Id]
    /\ srcRegList \in [Client -> Seq(Binding)]
    /\ calls \in 0..MaxCalls

(* The table d is one: an expression is a key once, and somebody wants it. *)
Table(d) ==
    /\ d \in Seq(Bound)
    /\ \A k \in DOMAIN d : d[k].clientList # <<>>
    /\ \A k, l \in DOMAIN d : d[k].regexp = d[l].regexp => k = l

(* Messages with the expression r go to the client c, under the number i. *)
Serves(d, c, i, r) ==
    \E k \in DOMAIN d :
        d[k].regexp = r /\ [client |-> c, id |-> i] \in ToSet(d[k].clientList)

(* No entry of the client c is double. *)
Once(d, c) ==
    \A k \in DOMAIN d : \A i, j \in DOMAIN d[k].clientList :
        d[k].clientList[i] = d[k].clientList[j] /\ d[k].clientList[i].client = c => i = j

(* No two of the bindings have the same number. *)
Distinct(list) == \A k, l \in DOMAIN list : list[k].id = list[l].id => k = l

(* The numbers of the bindings on their way are new, each of them. *)
Fresh(list, fs) ==
    \A n \in DOMAIN fs : fs[n].type = "AddRegexp" =>
        /\ \A b \in ToSet(list) : b.id # fs[n].id
        /\ \A m \in DOMAIN fs : fs[m].type = "AddRegexp" /\ fs[m].id = fs[n].id => m = n

(* The number i was given out by the subscriber, for no other expression. *)
Given(mine, top, i, r) ==
    /\ i < top
    /\ \A b \in ToSet(mine) : b.id = i => b.regexp = r

Known(mine, top, list) == \A b \in ToSet(list) : Given(mine, top, b.id, b.regexp)

Announced(mine, top, fs) ==
    \A n \in DOMAIN fs : fs[n].type = "AddRegexp" => Given(mine, top, fs[n].id, fs[n].regexp)

(* After the first n frames the binding i is not given up. *)
Stays(fs, i, n) == \A l \in (n + 1)..Len(fs) : fs[l] # Frame("DelRegexp", i, NoRegexp)

(* The binding b is in the list and stays there, or comes and stays: what  *)
(* Held() says, of any list and frames.                                    *)
Holds(list, fs, b) ==
    \/ b \in ToSet(list) /\ Stays(fs, b.id, 0)
    \/ /\ b.regexp \notin Filtered
       /\ \E n \in DOMAIN fs :
             fs[n] = Frame("AddRegexp", b.id, b.regexp) /\ Stays(fs, b.id, n)

(* What holds of every client. *)
Served1(c) ==
    /\ link[c] = "down" => srcRegList[c] = <<>>
    /\ \A i \in Id, r \in Regexp : Serves(dict, c, i, r) => link[c] # "down"
    /\ \A b \in ToSet(srcRegList[c]) : Serves(dict, c, b.id, b.regexp)

(* And of one that never changes an expression: the numbers of its         *)
(* bindings are given out once, so that one number leads to one element of *)
(* each list, to one entry of the table, and to one expression.            *)
Steady1(c) ==
    /\ Distinct(msg_recv[c]) /\ Distinct(srcRegList[c])
    /\ Once(dict, c)
    /\ \A i \in Id, r \in Regexp :
          Serves(dict, c, i, r) => [id |-> i, regexp |-> r] \in ToSet(srcRegList[c])
    /\ Known(msg_recv[c], recv_id[c], msg_recv[c])
    /\ Known(msg_recv[c], recv_id[c], msgs[c])
    /\ link[c] \in {"up", "left"} => Fresh(srcRegList[c], frames[c])
    /\ link[c] = "up" =>
          /\ Known(msg_recv[c], recv_id[c], srcRegList[c])
          /\ Announced(msg_recv[c], recv_id[c], frames[c])
          /\ \A b \in Binding : Holds(srcRegList[c], frames[c], b) <=>
                b \in ToSet(msg_recv[c]) /\ b.regexp \notin Filtered

IInv ==
    /\ Typed
    /\ Table(dict)
    /\ freed \subseteq Fickle
    /\ \A c \in Client : Served1(c)
    /\ \A c \in Steady : Steady1(c)

-----------------------------------------------------------------------------
(* The table *)

(* The clients of some expressions go: those entries do, and no other.     *)
LEMMA Dropped ==
    ASSUME NEW d, Table(d), NEW regexps, NEW gone
    PROVE  /\ Table(DropFrom(d, regexps, gone))
           /\ \A c, i, r : Serves(DropFrom(d, regexps, gone), c, i, r) <=>
                 Serves(d, c, i, r) /\ ~(r \in regexps /\ [client |-> c, id |-> i] \in gone)
           /\ \A c : Once(d, c) => Once(DropFrom(d, regexps, gone), c)
<1> DEFINE cut == [k \in DOMAIN d |->
                      IF d[k].regexp \in regexps
                      THEN [d[k] EXCEPT !.clientList = Without(@, gone)]
                      ELSE d[k]]
           empty == {e \in ToSet(cut) : e.clientList = <<>>}
           left == Without(cut, empty)
<1>1. /\ d \in Seq(Bound)
      /\ \A k \in DOMAIN d : d[k] \in Bound /\ d[k].clientList \in Seq(Entry)
      /\ DOMAIN d = 1..Len(d) /\ Len(d) \in Nat
  <2>1. d \in Seq(Bound)
    BY DEF Table
  <2>2. /\ \A k \in DOMAIN d : d[k] \in Bound
        /\ DOMAIN d = 1..Len(d) /\ Len(d) \in Nat
    BY <2>1
  <2> QED
    BY <2>1, <2>2, Zenon DEF Bound
<1> DEFINE Rest(k) == Without(d[k].clientList, gone)
<1>2. \A k \in DOMAIN d :
         Rest(k) \in Seq(Entry) /\ ToSet(Rest(k)) = ToSet(d[k].clientList) \ gone
  BY <1>1, WithoutProperties
<1>3. /\ cut \in Seq(Bound) /\ DOMAIN cut = DOMAIN d
      /\ \A k \in DOMAIN d :
            /\ cut[k].regexp = d[k].regexp
            /\ d[k].regexp \in regexps => cut[k].clientList = Without(d[k].clientList, gone)
            /\ d[k].regexp \notin regexps => cut[k] = d[k]
  <2>1. \A k \in DOMAIN d :
           /\ cut[k] \in Bound
           /\ cut[k].regexp = d[k].regexp
           /\ d[k].regexp \in regexps => cut[k].clientList = Without(d[k].clientList, gone)
           /\ d[k].regexp \notin regexps => cut[k] = d[k]
    <3> SUFFICES ASSUME NEW k \in DOMAIN d
                 PROVE  /\ cut[k] \in Bound
                        /\ cut[k].regexp = d[k].regexp
                        /\ d[k].regexp \in regexps => cut[k].clientList = Rest(k)
                        /\ d[k].regexp \notin regexps => cut[k] = d[k]
      OBVIOUS
    <3>1. d[k] \in Bound /\ Rest(k) \in Seq(Entry)
      BY <1>1, <1>2
    <3> HIDE DEF Rest
    <3>2. cut[k] = IF d[k].regexp \in regexps THEN [d[k] EXCEPT !.clientList = Rest(k)] ELSE d[k]
      BY DEF Rest
    <3> HIDE DEF cut
    <3> QED
      BY <3>1, <3>2 DEF Bound
  <2>2. cut = [k \in 1..Len(d) |-> cut[k]]
    BY <1>1
  <2> HIDE DEF cut
  <2>3. cut \in Seq(Bound) /\ DOMAIN cut = DOMAIN d
    BY <1>1, <2>1, <2>2
  <2> QED
    BY <2>1, <2>3, Zenon
<1> HIDE DEF cut, empty
<1>4. \A k \in DOMAIN d : \A e : e \in ToSet(cut[k].clientList) <=>
         e \in ToSet(d[k].clientList) /\ ~(d[k].regexp \in regexps /\ e \in gone)
  BY <1>2, <1>3
<1>5. DropFrom(d, regexps, gone) = left
  BY DEF DropFrom, NoEmptyKey, cut, empty
<1>6. /\ left \in Seq(Bound)
      /\ ToSet(left) = ToSet(cut) \ empty
  BY <1>3, WithoutProperties, Zenon
<1>7. PICK place \in [1..Len(left) -> 1..Len(cut)] :
         /\ \A i \in 1..Len(left) : left[i] = cut[place[i]]
         /\ \A i, j \in 1..Len(left) : place[i] = place[j] => i = j
  BY <1>3, WithoutPlaces
<1> HIDE DEF left
<1>8. /\ DOMAIN left = 1..Len(left) /\ DOMAIN cut = 1..Len(cut)
      /\ \A k \in DOMAIN left : left[k] \in ToSet(left)
  BY <1>3, <1>6 DEF ToSet
<1>9. Table(left)
  <2>1. \A k \in DOMAIN left : left[k].clientList # <<>>
    BY <1>6, <1>8 DEF empty
  <2>2. \A k, l \in DOMAIN left : left[k].regexp = left[l].regexp => k = l
    <3> SUFFICES ASSUME NEW k \in DOMAIN left, NEW l \in DOMAIN left,
                        left[k].regexp = left[l].regexp
                 PROVE  k = l
      OBVIOUS
    <3>1. /\ place[k] \in DOMAIN d /\ place[l] \in DOMAIN d
          /\ d[place[k]].regexp = d[place[l]].regexp
      BY <1>3, <1>7, <1>8
    <3>2. place[k] = place[l]
      BY <3>1 DEF Table
    <3> QED
      BY <1>7, <1>8, <3>2
  <2> QED
    BY <1>6, <2>1, <2>2 DEF Table
<1>10. ASSUME NEW c, NEW i, NEW r
       PROVE  Serves(left, c, i, r) <=>
                 Serves(d, c, i, r) /\ ~(r \in regexps /\ [client |-> c, id |-> i] \in gone)
  <2> DEFINE e == [client |-> c, id |-> i]
  <2>1. ASSUME Serves(left, c, i, r)
        PROVE  Serves(d, c, i, r) /\ ~(r \in regexps /\ e \in gone)
    <3>1. PICK k \in DOMAIN left : left[k].regexp = r /\ e \in ToSet(left[k].clientList)
      BY <2>1 DEF Serves
    <3>2. place[k] \in DOMAIN d /\ left[k] = cut[place[k]]
      BY <1>3, <1>7, <1>8
    <3> QED
      BY <1>3, <1>4, <3>1, <3>2 DEF Serves
  <2>2. ASSUME Serves(d, c, i, r), ~(r \in regexps /\ e \in gone)
        PROVE  Serves(left, c, i, r)
    <3>1. PICK k \in DOMAIN d : d[k].regexp = r /\ e \in ToSet(d[k].clientList)
      BY <2>2 DEF Serves
    <3>2. cut[k].regexp = r /\ e \in ToSet(cut[k].clientList)
      BY <1>3, <1>4, <2>2, <3>1
    <3>3. cut[k].clientList # <<>>
      BY <3>2 DEF ToSet
    <3>4. cut[k] \in ToSet(left)
      BY <1>3, <1>6, <3>1, <3>3 DEF ToSet, empty
    <3>5. PICK l \in DOMAIN left : left[l] = cut[k]
      BY <3>4 DEF ToSet
    <3> QED
      BY <3>2, <3>5 DEF Serves
  <2> QED
    BY <2>1, <2>2
<1>11. ASSUME NEW c, Once(d, c)
       PROVE  Once(left, c)
  <2> SUFFICES ASSUME NEW k \in DOMAIN left,
                      NEW i \in DOMAIN left[k].clientList, NEW j \in DOMAIN left[k].clientList,
                      left[k].clientList[i] = left[k].clientList[j],
                      left[k].clientList[i].client = c
               PROVE  i = j
    BY DEF Once
  <2> DEFINE l == place[k]
             list == d[l].clientList
             rest == Without(list, gone)
  <2>1. l \in DOMAIN d /\ left[k] = cut[l]
    BY <1>3, <1>7, <1>8
  <2>2. CASE d[l].regexp \notin regexps
    <3>1. left[k].clientList = list
      BY <1>3, <2>1, <2>2
    <3> QED
      BY <1>11, <2>1, <3>1 DEF Once
  <2>3. CASE d[l].regexp \in regexps
    <3>1. left[k].clientList = rest
      BY <1>3, <2>1, <2>3
    <3>2. list \in Seq(Entry) /\ rest \in Seq(Entry)
      BY <1>1, <1>2, <2>1, Zenon
    <3> HIDE DEF list, l
    <3>3. PICK pos \in [1..Len(rest) -> 1..Len(list)] :
             /\ \A m \in 1..Len(rest) : rest[m] = list[pos[m]]
             /\ \A m, n \in 1..Len(rest) : pos[m] = pos[n] => m = n
      BY <3>2, WithoutPlaces
    <3> HIDE DEF rest
    <3>4. /\ i \in 1..Len(rest) /\ j \in 1..Len(rest)
          /\ DOMAIN list = 1..Len(list)
      BY <3>1, <3>2
    <3>5. /\ pos[i] \in DOMAIN list /\ pos[j] \in DOMAIN list
          /\ list[pos[i]] = list[pos[j]] /\ list[pos[i]].client = c
      BY <3>1, <3>3, <3>4
    <3>6. pos[i] = pos[j]
      BY <1>11, <2>1, <3>5 DEF Once, list, l
    <3> QED
      BY <3>3, <3>4, <3>6
  <2> QED
    BY <2>2, <2>3
<1> QED
  BY <1>5, <1>9, <1>10, <1>11

(* One entry comes, and it is no double if it was not there.               *)
LEMMA Added ==
    ASSUME NEW d, Table(d), NEW c \in Client, NEW i \in Id, NEW r \in Regexp
    PROVE  LET new == addRegexpToDictionary(d, r, c, i)
           IN  /\ Table(new)
               /\ \A c1, i1, r1 : Serves(new, c1, i1, r1) <=>
                     Serves(d, c1, i1, r1) \/ (c1 = c /\ i1 = i /\ r1 = r)
               /\ \A c1 : Once(d, c1) /\ (c1 # c \/ ~Serves(d, c, i, r)) => Once(new, c1)
<1> DEFINE e == [client |-> c, id |-> i]
           new == addRegexpToDictionary(d, r, c, i)
<1>1. d \in Seq(Bound)
  BY DEF Table
<1>2. /\ \A k \in DOMAIN d : d[k] \in Bound
      /\ DOMAIN d = 1..Len(d) /\ Len(d) \in Nat
  BY <1>1
<1>3. /\ \A k \in DOMAIN d : d[k].clientList \in Seq(Entry)
      /\ e \in Entry
  BY <1>2 DEF Bound, Entry
<1> HIDE DEF e
<1>4. CASE Has(d, r)
  <2> DEFINE Longer(k) == <<e>> \o d[k].clientList
  <2>1. /\ new = [k \in 1..Len(d) |-> new[k]]
        /\ \A k \in DOMAIN d :
              new[k] = IF d[k].regexp # r THEN d[k] ELSE [d[k] EXCEPT !.clientList = Longer(k)]
    BY <1>2, <1>4 DEF addRegexpToDictionary, e
  <2>2. \A k \in DOMAIN d :
           /\ Longer(k) \in Seq(Entry)
           /\ ToSet(Longer(k)) = ToSet(d[k].clientList) \cup {e}
    BY <1>3, EndsOfLonger
  <2>3. \A k \in DOMAIN d : Longer(k) # <<>>
    <3>1. \A k \in DOMAIN d : e \in ToSet(Longer(k))
      BY <2>2
    <3> HIDE DEF Longer
    <3> QED
      BY <3>1 DEF ToSet
  <2>4. \A k \in DOMAIN d :
           /\ new[k] \in Bound /\ new[k].regexp = d[k].regexp
           /\ d[k].regexp = r => new[k].clientList = Longer(k)
           /\ d[k].regexp # r => new[k] = d[k]
    <3> HIDE DEF new, Longer
    <3> QED
      BY <1>2, <2>1, <2>2 DEF Bound
  <2> HIDE DEF new
  <2>5. new \in Seq(Bound) /\ DOMAIN new = DOMAIN d
    BY <1>2, <2>1, <2>4
  <2>6. Table(new)
    <3> HIDE DEF Longer
    <3> QED
      BY <2>3, <2>4, <2>5 DEF Table
  <2>7. ASSUME NEW c1, NEW i1, NEW r1
        PROVE  Serves(new, c1, i1, r1) <=>
                     Serves(d, c1, i1, r1) \/ (c1 = c /\ i1 = i /\ r1 = r)
    <3>1. [client |-> c1, id |-> i1] = e <=> c1 = c /\ i1 = i
      BY DEF e
    <3>2. \A k \in DOMAIN d : d[k].regexp = r =>
             ToSet(new[k].clientList) = ToSet(d[k].clientList) \cup {e}
      BY <2>2, <2>4, Zenon
    <3> HIDE DEF Longer
    <3>3. \E k \in DOMAIN d : d[k].regexp = r
      BY <1>4 DEF Has
    <3> QED
      BY <2>4, <2>5, <3>1, <3>2, <3>3 DEF Serves
  <2>8. ASSUME NEW c1, Once(d, c1), c1 # c \/ ~Serves(d, c, i, r)
        PROVE  Once(new, c1)
    <3> SUFFICES ASSUME NEW k \in DOMAIN d,
                        NEW m \in DOMAIN new[k].clientList, NEW n \in DOMAIN new[k].clientList,
                        new[k].clientList[m] = new[k].clientList[n],
                        new[k].clientList[m].client = c1
                 PROVE  m = n
      BY <2>5 DEF Once
    <3> DEFINE list == d[k].clientList
               more == Longer(k)
    <3>1. CASE d[k].regexp # r
      <4>1. new[k].clientList = list
        BY <2>4, <3>1
      <4> QED
        BY <2>8, <4>1 DEF Once
    <3>2. CASE d[k].regexp = r
      <4>1. new[k].clientList = more
        BY <2>4, <3>2
      <4>2. list \in Seq(Entry)
        BY <1>3
      <4>3. \A j \in DOMAIN list : list[j].client = c1 => list[j] # e
        <5> SUFFICES ASSUME NEW j \in DOMAIN list, list[j].client = c1, list[j] = e
                     PROVE  FALSE
          OBVIOUS
        <5>1. c1 = c /\ [client |-> c, id |-> i] \in ToSet(list)
          BY DEF e, ToSet
        <5> QED
          BY <2>8, <3>2, <5>1 DEF Serves
      <4>4. \A j1, j2 \in DOMAIN list : list[j1] = list[j2] /\ list[j1].client = c1 => j1 = j2
        BY <2>8 DEF Once
      <4> HIDE DEF list
      <4>5. /\ Len(more) = Len(list) + 1 /\ Len(list) \in Nat /\ more[1] = e
            /\ \A j \in 2..Len(more) : more[j] = list[j - 1] /\ j - 1 \in DOMAIN list
            /\ DOMAIN more = 1..Len(more)
        BY <1>3, <4>2 DEF list
      <4> HIDE DEF more
      <4>6. m \in 1..Len(more) /\ n \in 1..Len(more) /\ more[m] = more[n] /\ more[m].client = c1
        BY <4>1, <4>5
      <4>7. CASE m = 1 \/ n = 1
        BY <4>3, <4>5, <4>6, <4>7
      <4>8. CASE m # 1 /\ n # 1
        <5>1. m - 1 = n - 1
          BY <4>4, <4>5, <4>6, <4>8
        <5> QED
          BY <4>5, <4>6, <5>1
      <4> QED
        BY <4>7, <4>8
    <3> QED
      BY <3>1, <3>2
  <2> QED
    BY <2>6, <2>7, <2>8 DEF new
<1>5. CASE ~Has(d, r)
  <2> DEFINE x == [regexp |-> r, clientList |-> <<e>>]
  <2>1. new = Append(d, x)
    BY <1>5 DEF addRegexpToDictionary, e
  <2>2. x \in Bound /\ x.regexp = r /\ x.clientList = <<e>>
    BY <1>3 DEF Bound
  <2>3. ToSet(<<e>>) = {e} /\ <<e>> # <<>> /\ DOMAIN <<e>> = {1}
    BY DEF ToSet
  <2> HIDE DEF x, new
  <2>4. /\ new \in Seq(Bound) /\ DOMAIN new = DOMAIN d \cup {Len(d) + 1}
        /\ \A k \in DOMAIN d : new[k] = d[k]
        /\ new[Len(d) + 1] = x
    BY <1>1, <1>2, <2>1, <2>2
  <2>5. \A k \in DOMAIN d : d[k].regexp # r
    BY <1>5 DEF Has
  <2>6. Table(new)
    BY <2>2, <2>3, <2>4, <2>5 DEF Table
  <2>7. ASSUME NEW c1, NEW i1, NEW r1
        PROVE  Serves(new, c1, i1, r1) <=>
                     Serves(d, c1, i1, r1) \/ (c1 = c /\ i1 = i /\ r1 = r)
    <3>1. [client |-> c1, id |-> i1] = e <=> c1 = c /\ i1 = i
      BY DEF e
    <3> QED
      BY <2>2, <2>3, <2>4, <3>1 DEF Serves
  <2>8. ASSUME NEW c1, Once(d, c1)
        PROVE  Once(new, c1)
    BY <2>2, <2>3, <2>4, <2>8 DEF Once
  <2> QED
    BY <2>6, <2>7, <2>8 DEF new
<1> QED
  BY <1>4, <1>5

(* What is served is an identifier of a client for an expression. *)
LEMMA ServedTyped ==
    ASSUME NEW d, Table(d), NEW c, NEW i, NEW r, Serves(d, c, i, r)
    PROVE  c \in Client /\ i \in Id /\ r \in Regexp
<1>1. PICK k \in DOMAIN d : d[k].regexp = r /\ [client |-> c, id |-> i] \in ToSet(d[k].clientList)
  BY DEF Serves
<1>2. d[k] \in Bound
  BY DEF Table
<1>3. d[k].clientList \in Seq(Entry) /\ d[k].regexp \in Regexp
  BY <1>2 DEF Bound
<1>4. [client |-> c, id |-> i] \in Entry
  BY <1>1, <1>3 DEF ToSet
<1>5. [client |-> c, id |-> i].client = c /\ [client |-> c, id |-> i].id = i
  OBVIOUS
<1> QED
  BY <1>1, <1>3, <1>4, <1>5 DEF Entry

(* One identifier of a client goes from some expressions. *)
LEMMA OneDropped ==
    ASSUME NEW d, Table(d), NEW regexps, NEW c, NEW i
    PROVE  LET new == delOneIvyClientFromDictionaryEntry(d, regexps, c, i)
           IN  /\ Table(new)
               /\ \A c1, i1, r1 : Serves(new, c1, i1, r1) <=>
                     Serves(d, c1, i1, r1) /\ ~(r1 \in regexps /\ c1 = c /\ i1 = i)
               /\ \A c1 : Once(d, c1) => Once(new, c1)
<1> DEFINE gone == {[client |-> c, id |-> i]}
           new == DropFrom(d, regexps, gone)
<1>1. \A c1, i1 : [client |-> c1, id |-> i1] \in gone <=> c1 = c /\ i1 = i
  <2>1. \A c1, i1 : [client |-> c1, id |-> i1] = [client |-> c, id |-> i] => c1 = c /\ i1 = i
    OBVIOUS
  <2> QED
    BY <2>1
<1> HIDE DEF gone
<1>2. /\ Table(new)
      /\ \A c1, i1, r1 : Serves(new, c1, i1, r1) <=>
            Serves(d, c1, i1, r1) /\ ~(r1 \in regexps /\ [client |-> c1, id |-> i1] \in gone)
      /\ \A c1 : Once(d, c1) => Once(new, c1)
  BY Dropped
<1> HIDE DEF new
<1>3. new = delOneIvyClientFromDictionaryEntry(d, regexps, c, i)
  BY DEF new, gone, delOneIvyClientFromDictionaryEntry
<1>4. \A c1, i1, r1 : Serves(new, c1, i1, r1) <=>
         Serves(d, c1, i1, r1) /\ ~(r1 \in regexps /\ c1 = c /\ i1 = i)
  <2> SUFFICES ASSUME NEW c1, NEW i1, NEW r1
               PROVE  Serves(new, c1, i1, r1) <=>
                         Serves(d, c1, i1, r1) /\ ~(r1 \in regexps /\ c1 = c /\ i1 = i)
    OBVIOUS
  <2>1. [client |-> c1, id |-> i1] \in gone <=> c1 = c /\ i1 = i
    BY <1>1
  <2>2. Serves(new, c1, i1, r1) <=>
           Serves(d, c1, i1, r1) /\ ~(r1 \in regexps /\ [client |-> c1, id |-> i1] \in gone)
    BY <1>2
  <2> QED
    BY <2>1, <2>2
<1> QED
  BY <1>2, <1>3, <1>4

(* A change puts the entry to the front. *)
LEMMA Changed ==
    ASSUME NEW d, Table(d), NEW c \in Client, NEW i \in Id, NEW r \in Regexp
    PROVE  LET new == changeRegexpInDictionary(d, r, c, i)
           IN  /\ Table(new)
               /\ \A c1, i1, r1 : Serves(new, c1, i1, r1) <=>
                     Serves(d, c1, i1, r1) \/ (c1 = c /\ i1 = i /\ r1 = r)
               /\ \A c1 : Once(d, c1) => Once(new, c1)
<1> DEFINE less == delOneIvyClientFromDictionaryEntry(d, {r}, c, i)
<1>1. /\ Table(less)
      /\ \A c1, i1, r1 : Serves(less, c1, i1, r1) <=>
            Serves(d, c1, i1, r1) /\ ~(r1 \in {r} /\ c1 = c /\ i1 = i)
      /\ \A c1 : Once(d, c1) => Once(less, c1)
  BY OneDropped
<1> HIDE DEF less
<1> DEFINE new == addRegexpToDictionary(less, r, c, i)
<1>2. /\ Table(new)
      /\ \A c1, i1, r1 : Serves(new, c1, i1, r1) <=>
            Serves(less, c1, i1, r1) \/ (c1 = c /\ i1 = i /\ r1 = r)
      /\ \A c1 : Once(less, c1) /\ (c1 # c \/ ~Serves(less, c, i, r)) => Once(new, c1)
  BY <1>1, Added
<1> HIDE DEF new
<1>3. new = changeRegexpInDictionary(d, r, c, i)
  BY DEF new, less, changeRegexpInDictionary
<1> QED
  BY <1>1, <1>2, <1>3

(* A client goes from the whole table, whatever was removed before by its  *)
(* identifiers.                                                            *)
LEMMA ClientDropped ==
    ASSUME NEW d, Table(d), NEW list, NEW c \in Client, NEW last
    PROVE  LET new == delOneClientFromEveryEntry(delFromDictionary(d, list, c, Id, last), c)
           IN  /\ Table(new)
               /\ \A c1, i1, r1 : Serves(new, c1, i1, r1) <=> Serves(d, c1, i1, r1) /\ c1 # c
               /\ \A c1 : Once(d, c1) => Once(new, c1)
<1> DEFINE less == delFromDictionary(d, list, c, Id, last)
           gone == [client : {c}, id : Id]
           new == DropFrom(less, Regexp, gone)
<1>1. /\ Table(less)
      /\ \A c1, i1, r1 : Serves(less, c1, i1, r1) <=>
            Serves(d, c1, i1, r1) /\ ~(r1 \in Regexps(list, Id) /\ c1 = c /\ i1 = last)
      /\ \A c1 : Once(d, c1) => Once(less, c1)
  BY OneDropped, Zenon DEF delFromDictionary
<1> HIDE DEF less
<1>2. /\ Table(new)
      /\ \A c1, i1, r1 : Serves(new, c1, i1, r1) <=>
            Serves(less, c1, i1, r1) /\ ~(r1 \in Regexp /\ [client |-> c1, id |-> i1] \in gone)
      /\ \A c1 : Once(less, c1) => Once(new, c1)
  BY <1>1, Dropped
<1>3. \A c1, i1 : [client |-> c1, id |-> i1] \in gone <=> c1 = c /\ i1 \in Id
  <2> SUFFICES ASSUME NEW c1, NEW i1
               PROVE  [client |-> c1, id |-> i1] \in gone <=> c1 = c /\ i1 \in Id
    OBVIOUS
  <2>1. [client |-> c1, id |-> i1].client = c1 /\ [client |-> c1, id |-> i1].id = i1
    OBVIOUS
  <2> QED
    BY <2>1
<1>4. \A c1, i1, r1 : Serves(d, c1, i1, r1) => i1 \in Id /\ r1 \in Regexp
  BY ServedTyped
<1>5. new = delOneClientFromEveryEntry(less, c)
  BY DEF delOneClientFromEveryEntry
<1> HIDE DEF new, gone
<1>6. \A c1, i1, r1 : Serves(new, c1, i1, r1) <=> Serves(d, c1, i1, r1) /\ c1 # c
  <2> SUFFICES ASSUME NEW c1, NEW i1, NEW r1
               PROVE  Serves(new, c1, i1, r1) <=> Serves(d, c1, i1, r1) /\ c1 # c
    OBVIOUS
  <2>1. Serves(less, c1, i1, r1) <=>
            Serves(d, c1, i1, r1) /\ ~(r1 \in Regexps(list, Id) /\ c1 = c /\ i1 = last)
    BY <1>1, Zenon
  <2>2. Serves(new, c1, i1, r1) <=>
            Serves(less, c1, i1, r1) /\ ~(r1 \in Regexp /\ [client |-> c1, id |-> i1] \in gone)
    BY <1>2, Zenon
  <2>3. [client |-> c1, id |-> i1] \in gone <=> c1 = c /\ i1 \in Id
    BY <1>3, Zenon
  <2>4. Serves(d, c1, i1, r1) => i1 \in Id /\ r1 \in Regexp
    BY <1>4, Zenon
  <2> QED
    BY ONLY <2>1, <2>2, <2>3, <2>4, Zenon
<1> QED
  BY <1>1, <1>2, <1>5, <1>6 DEF less

-----------------------------------------------------------------------------
(* The list of a client *)

LEMMA BindingsTyped ==
    /\ \A list \in Seq(Binding) : ToSet(list) \subseteq Binding
    /\ \A b \in Binding : b.id \in Id /\ b.regexp \in Regexp
<1>1. \A list \in Seq(Binding) : ToSet(list) \subseteq Binding
  BY DEF ToSet
<1>2. \A b \in Binding : b.id \in Id /\ b.regexp \in Regexp
  BY DEF Binding
<1> QED
  BY <1>1, <1>2

(* The bindings with some identifiers go. *)
LEMMA ListDropped ==
    ASSUME NEW list \in Seq(Binding), NEW gone
    PROVE  LET new == delFromList(list, gone)
           IN  /\ new \in Seq(Binding)
               /\ \A b : b \in ToSet(new) <=> b \in ToSet(list) /\ b.id \notin gone
               /\ Distinct(list) => Distinct(new)
<1> DEFINE bs == [id : gone, regexp : Regexp]
           new == Without(list, bs)
<1> HIDE DEF bs
<1>1. new \in Seq(Binding) /\ ToSet(new) = ToSet(list) \ bs
  BY WithoutProperties
<1>2. PICK place \in [1..Len(new) -> 1..Len(list)] :
         /\ \A i \in 1..Len(new) : new[i] = list[place[i]]
         /\ \A i, j \in 1..Len(new) : place[i] = place[j] => i = j
  BY WithoutPlaces
<1>3. \A b \in Binding : b \in bs <=> b.id \in gone
  BY DEF Binding, bs
<1>4. ToSet(list) \subseteq Binding
  BY DEF ToSet
<1> HIDE DEF new
<1>5. \A b : b \in ToSet(new) <=> b \in ToSet(list) /\ b.id \notin gone
  BY <1>1, <1>3, <1>4, Zenon
<1>6. Distinct(list) => Distinct(new)
  <2>1. DOMAIN new = 1..Len(new) /\ DOMAIN list = 1..Len(list)
    BY <1>1
  <2> QED
    BY <1>2, <2>1 DEF Distinct
<1>7. new = delFromList(list, gone)
  BY DEF new, bs, delFromList
<1> QED
  BY <1>1, <1>5, <1>6, <1>7

(* No identifier twice, no element freed by the call for another one.      *)
LEMMA WalkReadsNoFreed ==
    ASSUME NEW list \in Seq(Binding), Distinct(list)
    PROVE  ~ReadsFreed(list)
<1> SUFFICES ASSUME NEW gone, Len(delFromList(list, gone)) > 1
             PROVE  LET rest == delFromList(list, gone)
                    IN  Contains(delFromList(rest, {rest[1].id}), rest[2])
  BY DEF ReadsFreed
<1> DEFINE rest == delFromList(list, gone)
           less == delFromList(rest, {rest[1].id})
<1>1. rest \in Seq(Binding) /\ Distinct(rest)
  BY ListDropped
<1>2. 1 \in DOMAIN rest /\ 2 \in DOMAIN rest
  BY <1>1
<1> HIDE DEF rest
<1>3. rest[2].id # rest[1].id
  BY <1>1, <1>2 DEF Distinct
<1>4. /\ less \in Seq(Binding)
      /\ \A b : b \in ToSet(less) <=> b \in ToSet(rest) /\ b.id \notin {rest[1].id}
  BY <1>1, ListDropped
<1> HIDE DEF less
<1>5. rest[2] \in ToSet(less)
  BY <1>2, <1>3, <1>4 DEF ToSet
<1>6. Contains(less, rest[2])
  BY <1>4, <1>5 DEF Contains, ToSet
<1> QED
  BY <1>6 DEF rest, less

-----------------------------------------------------------------------------
(* The frames on their way *)

(* A frame more, at the end. *)
LEMMA StaysAppend ==
    ASSUME NEW fs \in Seq(AnyFrame), NEW f \in AnyFrame, NEW i, NEW n \in 0..Len(fs)
    PROVE  Stays(Append(fs, f), i, n) <=> Stays(fs, i, n) /\ f # Frame("DelRegexp", i, NoRegexp)
<1> DEFINE more == Append(fs, f)
<1>1. /\ Len(fs) \in Nat /\ Len(more) = Len(fs) + 1
      /\ \A l \in 1..Len(fs) : more[l] = fs[l]
      /\ more[Len(fs) + 1] = f
  OBVIOUS
<1>2. /\ \A l \in (n + 1)..Len(more) : l # Len(fs) + 1 => l \in (n + 1)..Len(fs)
      /\ \A l \in (n + 1)..Len(fs) : l \in (n + 1)..Len(more) /\ l \in 1..Len(fs)
      /\ Len(fs) + 1 \in (n + 1)..Len(more)
  BY <1>1
<1> HIDE DEF more
<1>3. Stays(more, i, n) <=> Stays(fs, i, n) /\ f # Frame("DelRegexp", i, NoRegexp)
  BY <1>1, <1>2, Zenon DEF Stays
<1> QED
  BY <1>3 DEF more

(* A frame less, the first one. *)
LEMMA StaysTail ==
    ASSUME NEW fs \in Seq(AnyFrame), fs # <<>>, NEW i
    PROVE  /\ \A n \in 0..(Len(fs) - 1) : Stays(Tail(fs), i, n) <=> Stays(fs, i, n + 1)
           /\ Stays(fs, i, 0) <=> Stays(Tail(fs), i, 0) /\ Head(fs) # Frame("DelRegexp", i, NoRegexp)
<1> DEFINE less == Tail(fs)
<1>1. /\ Len(fs) \in Nat /\ Len(fs) > 0 /\ Len(less) = Len(fs) - 1
      /\ \A l \in 1..Len(less) : less[l] = fs[l + 1]
      /\ Head(fs) = fs[1]
  OBVIOUS
<1> HIDE DEF less
<1>2. ASSUME NEW n \in 0..(Len(fs) - 1)
      PROVE  Stays(less, i, n) <=> Stays(fs, i, n + 1)
  <2>1. \A l \in (n + 1)..Len(less) : l + 1 \in (n + 1 + 1)..Len(fs) /\ l \in 1..Len(less)
    BY <1>1
  <2>2. \A l \in (n + 1 + 1)..Len(fs) :
           l - 1 \in (n + 1)..Len(less) /\ l - 1 \in 1..Len(less) /\ (l - 1) + 1 = l
    BY <1>1
  <2>3. ASSUME Stays(less, i, n), NEW l \in (n + 1 + 1)..Len(fs)
        PROVE  fs[l] # Frame("DelRegexp", i, NoRegexp)
    <3>1. less[l - 1] = fs[l]
      BY <1>1, <2>2
    <3>2. less[l - 1] # Frame("DelRegexp", i, NoRegexp)
      BY <2>2, <2>3, Zenon DEF Stays
    <3> QED
      BY <3>1, <3>2
  <2>4. ASSUME Stays(fs, i, n + 1), NEW l \in (n + 1)..Len(less)
        PROVE  less[l] # Frame("DelRegexp", i, NoRegexp)
    BY <1>1, <2>1, <2>4, Zenon DEF Stays
  <2> QED
    BY <2>3, <2>4, Zenon DEF Stays
<1>3. Stays(fs, i, 0) <=> Stays(fs, i, 1) /\ Head(fs) # Frame("DelRegexp", i, NoRegexp)
  <2>1. /\ \A l \in (0 + 1)..Len(fs) : l # 1 => l \in (1 + 1)..Len(fs)
        /\ \A l \in (1 + 1)..Len(fs) : l \in (0 + 1)..Len(fs)
        /\ 1 \in (0 + 1)..Len(fs)
    BY <1>1
  <2> QED
    BY <1>1, <2>1, Zenon DEF Stays
<1>4. Stays(less, i, 0) <=> Stays(fs, i, 1)
  BY <1>1, <1>2
<1> QED
  BY <1>2, <1>3, <1>4 DEF less

(* What is held of a client with one frame more on its way: a binding, or  *)
(* a binding given up.                                                     *)
LEMMA HoldsOneMore ==
    ASSUME NEW list, NEW fs \in Seq(AnyFrame), NEW i \in Id, NEW r \in Regexp
    PROVE  LET f == Frame("AddRegexp", i, r)
           IN  \A b \in Binding : Holds(list, Append(fs, f), b) <=>
                  Holds(list, fs, b) \/ (b = [id |-> i, regexp |-> r] /\ r \notin Filtered)
<1> DEFINE f == Frame("AddRegexp", i, r)
           more == Append(fs, f)
<1> SUFFICES ASSUME NEW b \in Binding
             PROVE  Holds(list, more, b) <=>
                       Holds(list, fs, b) \/ (b = [id |-> i, regexp |-> r] /\ r \notin Filtered)
  OBVIOUS
<1>1. /\ f \in AnyFrame /\ f # Frame("DelRegexp", b.id, NoRegexp)
      /\ f = Frame("AddRegexp", b.id, b.regexp) <=> b = [id |-> i, regexp |-> r]
      /\ b = [id |-> i, regexp |-> r] => b.regexp = r
  BY DEF Frame, AnyFrame, AddFrame, Binding
<1>2. \A n \in 0..Len(fs) : Stays(more, b.id, n) <=> Stays(fs, b.id, n)
  BY <1>1, StaysAppend
<1>3. /\ Len(fs) \in Nat /\ DOMAIN fs = 1..Len(fs) /\ DOMAIN more = 1..(Len(fs) + 1)
      /\ Len(more) = Len(fs) + 1
      /\ \A n \in 1..Len(fs) : more[n] = fs[n] /\ n \in 0..Len(fs)
      /\ more[Len(fs) + 1] = f
      /\ \A n \in 1..(Len(fs) + 1) : n # Len(fs) + 1 => n \in 1..Len(fs)
  BY <1>1
<1> HIDE DEF more, f
<1>4. Stays(more, b.id, Len(fs) + 1)
  BY <1>3 DEF Stays
<1>5. Len(fs) + 1 \in DOMAIN more /\ 0 \in 0..Len(fs) /\ DOMAIN fs \subseteq DOMAIN more
  BY <1>3
<1>6. ASSUME Holds(list, more, b), ~Holds(list, fs, b)
      PROVE  b = [id |-> i, regexp |-> r] /\ r \notin Filtered
  BY <1>1, <1>2, <1>3, <1>5, <1>6, Zenon DEF Holds
<1>7. ASSUME Holds(list, fs, b)
      PROVE  Holds(list, more, b)
  BY <1>2, <1>3, <1>5, <1>7, Zenon DEF Holds
<1>8. ASSUME b = [id |-> i, regexp |-> r], r \notin Filtered
      PROVE  Holds(list, more, b)
  BY <1>1, <1>3, <1>4, <1>5, <1>8, Zenon DEF Holds
<1> QED
  BY <1>6, <1>7, <1>8

(* A frame that gives a number up takes away what had the number.          *)
LEMMA HoldsOneLess ==
    ASSUME NEW list, NEW fs \in Seq(AnyFrame), NEW i \in Id
    PROVE  LET f == Frame("DelRegexp", i, NoRegexp)
           IN  \A b \in Binding : Holds(list, Append(fs, f), b) <=> Holds(list, fs, b) /\ b.id # i
<1> DEFINE f == Frame("DelRegexp", i, NoRegexp)
           more == Append(fs, f)
<1> SUFFICES ASSUME NEW b \in Binding
             PROVE  Holds(list, more, b) <=> Holds(list, fs, b) /\ b.id # i
  OBVIOUS
<1>1. /\ f \in AnyFrame /\ f # Frame("AddRegexp", b.id, b.regexp)
      /\ f = Frame("DelRegexp", b.id, NoRegexp) <=> b.id = i
  BY DEF Frame, AnyFrame, OtherFrame
<1>2. \A n \in 0..Len(fs) : Stays(more, b.id, n) <=> Stays(fs, b.id, n) /\ b.id # i
  BY <1>1, StaysAppend
<1>3. /\ Len(fs) \in Nat /\ DOMAIN fs = 1..Len(fs) /\ DOMAIN more = 1..(Len(fs) + 1)
      /\ Len(more) = Len(fs) + 1
      /\ \A n \in 1..Len(fs) : more[n] = fs[n] /\ n \in 0..Len(fs)
      /\ more[Len(fs) + 1] = f
      /\ \A n \in 1..(Len(fs) + 1) : n # Len(fs) + 1 => n \in 1..Len(fs)
  BY <1>1
<1> HIDE DEF more, f
<1>4. 0 \in 0..Len(fs) /\ DOMAIN fs \subseteq DOMAIN more
  BY <1>3
<1>5. ASSUME Holds(list, more, b)
      PROVE  Holds(list, fs, b) /\ b.id # i
  BY <1>1, <1>2, <1>3, <1>4, <1>5, Zenon DEF Holds
<1>6. ASSUME Holds(list, fs, b), b.id # i
      PROVE  Holds(list, more, b)
  BY <1>2, <1>3, <1>4, <1>6, Zenon DEF Holds
<1> QED
  BY <1>5, <1>6

(* Reading the first frame changes nothing of it, if the list does what    *)
(* the frame says.                                                         *)
LEMMA HoldsHeadRead ==
    ASSUME NEW list, NEW new, NEW fs \in Seq(AnyFrame), fs # <<>>,
           \A b \in Binding : b \in ToSet(new) <=>
              \/ b \in ToSet(list) /\ Head(fs) # Frame("DelRegexp", b.id, NoRegexp)
              \/ b.regexp \notin Filtered /\ Head(fs) = Frame("AddRegexp", b.id, b.regexp)
    PROVE  \A b \in Binding : Holds(new, Tail(fs), b) <=> Holds(list, fs, b)
<1> DEFINE less == Tail(fs)
<1> SUFFICES ASSUME NEW b \in Binding
             PROVE  Holds(new, less, b) <=> Holds(list, fs, b)
  OBVIOUS
<1>1. /\ Len(fs) \in Nat /\ Len(fs) > 0 /\ Len(less) = Len(fs) - 1
      /\ DOMAIN fs = 1..Len(fs) /\ DOMAIN less = 1..(Len(fs) - 1)
      /\ \A n \in 1..(Len(fs) - 1) : less[n] = fs[n + 1]
      /\ Head(fs) = fs[1]
  OBVIOUS
<1>2. /\ \A n \in 0..(Len(fs) - 1) : Stays(less, b.id, n) <=> Stays(fs, b.id, n + 1)
      /\ Stays(fs, b.id, 0) <=> Stays(less, b.id, 0) /\ Head(fs) # Frame("DelRegexp", b.id, NoRegexp)
  BY StaysTail
<1> HIDE DEF less
<1>3. /\ \A n \in DOMAIN fs : n # 1 => n - 1 \in DOMAIN less /\ n - 1 \in 0..(Len(fs) - 1) /\ (n - 1) + 1 = n
      /\ \A n \in DOMAIN less : n + 1 \in DOMAIN fs /\ n + 1 # 1 /\ n \in 0..(Len(fs) - 1)
      /\ 1 \in DOMAIN fs /\ 0 \in 0..(Len(fs) - 1)
  BY <1>1
<1>4. Stays(less, b.id, 0) <=> Stays(fs, b.id, 1)
  BY <1>2, <1>3
<1> DEFINE f == Frame("AddRegexp", b.id, b.regexp)
<1> HIDE DEF f
<1>5. (\E n \in DOMAIN fs : fs[n] = f /\ Stays(fs, b.id, n)) <=>
         \/ Head(fs) = f /\ Stays(less, b.id, 0)
         \/ \E n \in DOMAIN less : less[n] = f /\ Stays(less, b.id, n)
  <2>1. ASSUME NEW n \in DOMAIN fs, fs[n] = f, Stays(fs, b.id, n), n # 1
        PROVE  \E m \in DOMAIN less : less[m] = f /\ Stays(less, b.id, m)
    <3>1. n - 1 \in DOMAIN less /\ less[n - 1] = f /\ Stays(less, b.id, n - 1)
      BY <1>1, <1>2, <1>3, <2>1
    <3> QED
      BY <3>1
  <2>2. ASSUME NEW n \in DOMAIN less, less[n] = f, Stays(less, b.id, n)
        PROVE  \E m \in DOMAIN fs : fs[m] = f /\ Stays(fs, b.id, m)
    <3>1. n + 1 \in DOMAIN fs /\ fs[n + 1] = f /\ Stays(fs, b.id, n + 1)
      BY <1>1, <1>2, <1>3, <2>2
    <3> QED
      BY <3>1
  <2> QED
    BY <1>1, <1>3, <1>4, <2>1, <2>2
<1> QED
  BY <1>2, <1>5, Zenon DEF Holds, f

(* The numbers on their way stay new: with a frame more at the end,        *)
LEMMA FreshAppend ==
    ASSUME NEW list, NEW fs \in Seq(AnyFrame), NEW f \in AnyFrame, Fresh(list, fs),
           f.type = "AddRegexp" =>
              /\ \A b \in ToSet(list) : b.id # f.id
              /\ \A n \in DOMAIN fs : fs[n].type = "AddRegexp" => fs[n].id # f.id
    PROVE  Fresh(list, Append(fs, f))
<1> DEFINE more == Append(fs, f)
<1>1. /\ DOMAIN fs = 1..Len(fs) /\ DOMAIN more = 1..(Len(fs) + 1) /\ Len(fs) \in Nat
      /\ \A n \in 1..Len(fs) : more[n] = fs[n] /\ n # Len(fs) + 1
      /\ more[Len(fs) + 1] = f
      /\ \A n \in 1..(Len(fs) + 1) : n # Len(fs) + 1 => n \in 1..Len(fs)
  OBVIOUS
<1> HIDE DEF more
<1>2. Fresh(list, more)
  <2> SUFFICES ASSUME NEW n \in 1..(Len(fs) + 1), more[n].type = "AddRegexp"
               PROVE  /\ \A b \in ToSet(list) : b.id # more[n].id
                      /\ \A m \in 1..(Len(fs) + 1) :
                            more[m].type = "AddRegexp" /\ more[m].id = more[n].id => m = n
    BY <1>1, Zenon DEF Fresh
  <2>1. CASE n = Len(fs) + 1
    BY <1>1, <2>1
  <2>2. CASE n # Len(fs) + 1
    <3>1. n \in DOMAIN fs /\ more[n] = fs[n] /\ fs[n].type = "AddRegexp"
      BY <1>1, <2>2
    <3>2. \A b \in ToSet(list) : b.id # fs[n].id
      BY <3>1 DEF Fresh
    <3>3. \A m \in DOMAIN fs : fs[m].type = "AddRegexp" /\ fs[m].id = fs[n].id => m = n
      BY <3>1 DEF Fresh
    <3> QED
      BY <1>1, <3>1, <3>2, <3>3
  <2> QED
    BY <2>1, <2>2
<1> QED
  BY <1>2 DEF more

(* with the last ones lost,                                                *)
LEMMA FreshPrefix ==
    ASSUME NEW list, NEW fs \in Seq(AnyFrame), NEW n \in 0..Len(fs), Fresh(list, fs)
    PROVE  /\ SubSeq(fs, 1, n) \in Seq(AnyFrame)
           /\ Fresh(list, SubSeq(fs, 1, n))
<1> DEFINE less == SubSeq(fs, 1, n)
<1>1. /\ less \in Seq(AnyFrame)
      /\ Len(less) = n
      /\ \A i \in 1..n : less[i] = fs[i]
  BY Pieces
<1>2. DOMAIN less = 1..n /\ \A i \in 1..n : i \in DOMAIN fs
  BY <1>1
<1> HIDE DEF less
<1>3. Fresh(list, less)
  BY <1>1, <1>2, Zenon DEF Fresh
<1> QED
  BY <1>1, <1>3 DEF less

(* and with the first one read, whose number may be listed now.            *)
LEMMA FreshTail ==
    ASSUME NEW list, NEW new, NEW fs \in Seq(AnyFrame), fs # <<>>, Fresh(list, fs),
           \A b \in ToSet(new) :
              b \in ToSet(list) \/ (Head(fs).type = "AddRegexp" /\ b.id = Head(fs).id)
    PROVE  Tail(fs) \in Seq(AnyFrame) /\ Fresh(new, Tail(fs))
<1> DEFINE less == Tail(fs)
<1>1. /\ less \in Seq(AnyFrame) /\ DOMAIN less = 1..Len(less) /\ DOMAIN fs = 1..Len(fs)
      /\ 1 \in DOMAIN fs /\ Head(fs) = fs[1]
      /\ \A n \in DOMAIN less : less[n] = fs[n + 1] /\ n + 1 \in DOMAIN fs /\ n + 1 # 1
  OBVIOUS
<1>2. \A m, n \in DOMAIN less : m + 1 = n + 1 => m = n
  BY <1>1
<1> HIDE DEF less
<1>3. ASSUME NEW n \in DOMAIN less, less[n].type = "AddRegexp"
      PROVE  /\ \A b \in ToSet(new) : b.id # less[n].id
             /\ \A m \in DOMAIN less : less[m].type = "AddRegexp" /\ less[m].id = less[n].id => m = n
  <2>1. n + 1 \in DOMAIN fs /\ fs[n + 1] = less[n] /\ n + 1 # 1
    BY <1>1
  <2>2. /\ \A b \in ToSet(list) : b.id # less[n].id
        /\ \A m \in DOMAIN fs : fs[m].type = "AddRegexp" /\ fs[m].id = less[n].id => m = n + 1
    BY <1>3, <2>1, Zenon DEF Fresh
  <2>3. \A b \in ToSet(new) : b.id # less[n].id
    BY <1>1, <2>1, <2>2
  <2>4. \A m \in DOMAIN less : less[m].type = "AddRegexp" /\ less[m].id = less[n].id => m = n
    BY <1>1, <1>2, <2>2
  <2> QED
    BY <2>3, <2>4
<1> QED
  BY <1>1, <1>3, Zenon DEF Fresh, less

(* What is announced was given out, a frame later,                         *)
LEMMA AnnouncedAppend ==
    ASSUME NEW mine, NEW top, NEW fs \in Seq(AnyFrame), NEW f \in AnyFrame,
           Announced(mine, top, fs),
           f.type = "AddRegexp" => Given(mine, top, f.id, f.regexp)
    PROVE  Announced(mine, top, Append(fs, f))
<1> DEFINE more == Append(fs, f)
<1>1. /\ DOMAIN fs = 1..Len(fs) /\ DOMAIN more = 1..(Len(fs) + 1) /\ Len(fs) \in Nat
      /\ \A n \in 1..Len(fs) : more[n] = fs[n]
      /\ more[Len(fs) + 1] = f
      /\ \A n \in 1..(Len(fs) + 1) : n # Len(fs) + 1 => n \in 1..Len(fs)
  OBVIOUS
<1> HIDE DEF more
<1>2. Announced(mine, top, more)
  BY <1>1, Zenon DEF Announced
<1> QED
  BY <1>2 DEF more

(* and with the first frame read.                                          *)
LEMMA AnnouncedTail ==
    ASSUME NEW mine, NEW top, NEW fs \in Seq(AnyFrame), fs # <<>>, Announced(mine, top, fs)
    PROVE  /\ Announced(mine, top, Tail(fs))
           /\ Head(fs).type = "AddRegexp" => Given(mine, top, Head(fs).id, Head(fs).regexp)
<1>1. /\ \A n \in DOMAIN Tail(fs) : Tail(fs)[n] = fs[n + 1] /\ n + 1 \in DOMAIN fs
      /\ 1 \in DOMAIN fs /\ Head(fs) = fs[1]
  OBVIOUS
<1> QED
  BY <1>1, Zenon DEF Announced

-----------------------------------------------------------------------------
(* The subscriber *)

(* A new number disturbs none that was given before.                       *)
LEMMA GivenMore ==
    ASSUME NEW mine \in Seq(Binding), NEW top \in Id, NEW r0 \in Regexp
    PROVE  LET b0 == [id |-> top, regexp |-> r0]
               new == <<b0>> \o mine
           IN  /\ new \in Seq(Binding)
               /\ ToSet(new) = ToSet(mine) \cup {b0}
               /\ \A i \in Id : \A r : Given(mine, top, i, r) => Given(new, top + 1, i, r)
               /\ Known(mine, top, mine) /\ Distinct(mine) =>
                     Given(new, top + 1, top, r0) /\ Distinct(new)
<1> DEFINE b0 == [id |-> top, regexp |-> r0]
           new == <<b0>> \o mine
<1>1. b0 \in Binding /\ b0.id = top /\ b0.regexp = r0
  BY DEF Binding
<1> HIDE DEF b0
<1>2. new \in Seq(Binding) /\ ToSet(new) = ToSet(mine) \cup {b0}
  BY <1>1, EndsOfLonger
<1>3. /\ Len(new) = Len(mine) + 1 /\ Len(mine) \in Nat
      /\ DOMAIN new = 1..(Len(mine) + 1) /\ DOMAIN mine = 1..Len(mine)
      /\ new[1] = b0
      /\ \A k \in 2..(Len(mine) + 1) : new[k] = mine[k - 1] /\ k - 1 \in 1..Len(mine)
  BY <1>1
<1> HIDE DEF new
<1>4. ASSUME NEW i \in Id, NEW r, Given(mine, top, i, r)
      PROVE  Given(new, top + 1, i, r)
  <2>1. i < top /\ i < top + 1 /\ i # top
    BY <1>4 DEF Given, Id
  <2> QED
    BY <1>1, <1>2, <1>4, <2>1 DEF Given
<1>5. ASSUME Known(mine, top, mine), Distinct(mine)
      PROVE  Given(new, top + 1, top, r0) /\ Distinct(new)
  <2>1. \A b \in ToSet(mine) : b.id < top /\ b \in Binding
    BY <1>5 DEF Known, Given, ToSet
  <2>2. \A b \in ToSet(mine) : b.id # top
    BY <2>1 DEF Binding, Id
  <2>3. top < top + 1
    BY DEF Id
  <2>4. Given(new, top + 1, top, r0)
    BY <1>1, <1>2, <2>2, <2>3, Zenon DEF Given
  <2>5. \A k \in 2..(Len(mine) + 1) : new[k].id # top
    BY <1>3, <2>2 DEF ToSet
  <2>6. ASSUME NEW k \in DOMAIN new, NEW l \in DOMAIN new, new[k].id = new[l].id
        PROVE  k = l
    <3>1. CASE k = 1 \/ l = 1
      BY <1>1, <1>3, <2>5, <2>6, <3>1
    <3>2. CASE k # 1 /\ l # 1
      <4>0. /\ k - 1 \in DOMAIN mine /\ l - 1 \in DOMAIN mine
            /\ mine[k - 1].id = mine[l - 1].id
        BY <1>3, <2>6, <3>2
      <4>1. k - 1 = l - 1
        BY <1>5, <4>0, Zenon DEF Distinct
      <4> QED
        BY <1>3, <4>1
    <3> QED
      BY <3>1, <3>2
  <2> QED
    BY <2>4, <2>6 DEF Distinct
<1> QED
  BY <1>2, <1>4, <1>5 DEF new, b0

(* A binding given up is the only one with its number.                     *)
LEMMA Removed ==
    ASSUME NEW mine \in Seq(Binding), NEW k \in DOMAIN mine
    PROVE  LET new == RemoveAt(mine, k)
           IN  /\ new \in Seq(Binding)
               /\ ToSet(new) \subseteq ToSet(mine)
               /\ Distinct(mine) =>
                     /\ Distinct(new)
                     /\ \A b : b \in ToSet(new) <=> b \in ToSet(mine) /\ b.id # mine[k].id
<1> DEFINE head == SubSeq(mine, 1, k - 1)
           end == SubSeq(mine, k + 1, Len(mine))
           new == RemoveAt(mine, k)
<1>1. /\ Len(mine) \in Nat /\ k \in 1..Len(mine) /\ DOMAIN mine = 1..Len(mine)
      /\ k - 1 \in 0..Len(mine) /\ k \in 0..Len(mine)
  OBVIOUS
<1>2. /\ head \in Seq(Binding) /\ Len(head) = k - 1
      /\ \A i \in 1..(k - 1) : head[i] = mine[i]
  BY <1>1, Pieces
<1>3. /\ end \in Seq(Binding) /\ Len(end) = Len(mine) - k
      /\ \A i \in 1..(Len(mine) - k) : end[i] = mine[k + i]
  BY <1>1, Pieces
<1>4. new = head \o end
  BY DEF RemoveAt
<1> HIDE DEF head, end, new
<1>5. /\ new \in Seq(Binding) /\ Len(new) = Len(mine) - 1 /\ DOMAIN new = 1..(Len(mine) - 1)
      /\ \A i \in 1..(k - 1) : new[i] = mine[i]
      /\ \A i \in k..(Len(mine) - 1) : new[i] = mine[i + 1]
  <2>1. /\ new \in Seq(Binding) /\ Len(new) = Len(head) + Len(end)
        /\ DOMAIN new = 1..Len(new)
        /\ \A i \in 1..Len(head) : new[i] = head[i]
        /\ \A i \in (Len(head) + 1)..(Len(head) + Len(end)) : new[i] = end[i - Len(head)]
    BY <1>2, <1>3, <1>4
  <2>2. Len(new) = Len(mine) - 1
    BY <1>1, <1>2, <1>3, <2>1
  <2>3. \A i \in 1..(k - 1) : new[i] = mine[i]
    BY <1>2, <2>1
  <2>4. ASSUME NEW i \in k..(Len(mine) - 1)
        PROVE  new[i] = mine[i + 1]
    <3>1. /\ i \in (Len(head) + 1)..(Len(head) + Len(end))
          /\ i - Len(head) \in 1..(Len(mine) - k)
          /\ k + (i - Len(head)) = i + 1
      BY <1>1, <1>2, <1>3
    <3> QED
      BY <1>3, <2>1, <3>1
  <2> QED
    BY <2>1, <2>2, <2>3, <2>4
<1> DEFINE place == [i \in 1..(Len(mine) - 1) |-> IF i < k THEN i ELSE i + 1]
<1>6. /\ \A i \in DOMAIN new : place[i] \in DOMAIN mine /\ place[i] # k /\ new[i] = mine[place[i]]
      /\ \A i, j \in DOMAIN new : place[i] = place[j] => i = j
  BY <1>1, <1>5
<1>7. \A l \in DOMAIN mine : l # k => \E i \in DOMAIN new : new[i] = mine[l]
  <2> SUFFICES ASSUME NEW l \in DOMAIN mine, l # k
               PROVE  \E i \in DOMAIN new : new[i] = mine[l]
    OBVIOUS
  <2>1. CASE l < k
    BY <1>1, <1>5, <2>1
  <2>2. CASE ~(l < k)
    <3>0. l \in 1..Len(mine) /\ l > k
      BY <1>1, <2>2
    <3>1. l - 1 \in k..(Len(mine) - 1) /\ (l - 1) + 1 = l /\ l - 1 \in DOMAIN new
      BY <1>1, <1>5, <3>0
    <3>2. new[l - 1] = mine[l]
      BY <1>5, <3>1
    <3> QED
      BY <3>1, <3>2
  <2> QED
    BY <2>1, <2>2
<1> HIDE DEF place
<1>8. ToSet(new) \subseteq ToSet(mine)
  BY <1>6 DEF ToSet
<1>9. ASSUME Distinct(mine)
      PROVE  /\ Distinct(new)
             /\ \A b : b \in ToSet(new) <=> b \in ToSet(mine) /\ b.id # mine[k].id
  <2>1. ASSUME NEW i \in DOMAIN new, NEW j \in DOMAIN new, new[i].id = new[j].id
        PROVE  i = j
    <3>1. place[i] = place[j]
      BY <1>6, <1>9, <2>1 DEF Distinct
    <3> QED
      BY <1>6, <3>1
  <2>2. \A l \in DOMAIN mine : mine[l].id = mine[k].id => l = k
    BY <1>9 DEF Distinct
  <2>3. \A i \in DOMAIN new : new[i].id # mine[k].id
    BY <1>6, <2>2
  <2>4. ASSUME NEW b, b \in ToSet(new)
        PROVE  b \in ToSet(mine) /\ b.id # mine[k].id
    BY <1>8, <2>3, <2>4 DEF ToSet
  <2>5. ASSUME NEW b, b \in ToSet(mine), b.id # mine[k].id
        PROVE  b \in ToSet(new)
    BY <1>7, <2>5, Zenon DEF ToSet
  <2> QED
    BY <2>1, <2>4, <2>5 DEF Distinct
<1> QED
  BY <1>5, <1>8, <1>9 DEF new

(* What SendService() begins a link with: all bindings, and the end.       *)
ServiceOf(mine) ==
    [k \in DOMAIN mine |-> Frame("AddRegexp", mine[k].id, mine[k].regexp)]
        \o <<Frame("EndRegexp", 0, NoRegexp)>>

(* A new link holds exactly the bindings of its subscriber.                *)
LEMMA ServiceSaysAll ==
    ASSUME NEW mine \in Seq(Binding), NEW top
    PROVE  /\ ServiceOf(mine) \in Seq(AnyFrame)
           /\ Distinct(mine) => Fresh(<<>>, ServiceOf(mine))
           /\ Known(mine, top, mine) => Announced(mine, top, ServiceOf(mine))
           /\ \A b \in Binding : Holds(<<>>, ServiceOf(mine), b) <=>
                 b \in ToSet(mine) /\ b.regexp \notin Filtered
<1> DEFINE adds == [k \in DOMAIN mine |-> Frame("AddRegexp", mine[k].id, mine[k].regexp)]
           end == Frame("EndRegexp", 0, NoRegexp)
           fs == ServiceOf(mine)
<1>1. /\ DOMAIN mine = 1..Len(mine) /\ Len(mine) \in Nat
      /\ \A k \in DOMAIN mine : mine[k] \in Binding /\ mine[k].id \in Id /\ mine[k].regexp \in Regexp
  <2>1. /\ DOMAIN mine = 1..Len(mine) /\ Len(mine) \in Nat
        /\ \A k \in DOMAIN mine : mine[k] \in Binding
    OBVIOUS
  <2>2. \A b \in Binding : b.id \in Id /\ b.regexp \in Regexp
    BY DEF Binding
  <2> QED
    BY <2>1, <2>2
<1>2. 0 \in Id
  BY DictAssumption DEF Id
<1>3. end \in AnyFrame /\ end.type = "EndRegexp"
  BY <1>2 DEF Frame, AnyFrame, OtherFrame
<1>4. \A k \in DOMAIN mine :
         LET f == Frame("AddRegexp", mine[k].id, mine[k].regexp)
         IN  f \in AnyFrame /\ f.type = "AddRegexp" /\ f.id = mine[k].id /\ f.regexp = mine[k].regexp
  BY <1>1 DEF Frame, AnyFrame, AddFrame
<1>5. /\ adds \in Seq(AnyFrame) /\ Len(adds) = Len(mine)
      /\ \A k \in DOMAIN mine : adds[k] = Frame("AddRegexp", mine[k].id, mine[k].regexp)
  <2>1. adds = [k \in 1..Len(mine) |-> adds[k]]
    BY <1>1
  <2>2. \A k \in DOMAIN mine : adds[k] = Frame("AddRegexp", mine[k].id, mine[k].regexp)
    OBVIOUS
  <2>3. \A k \in 1..Len(mine) : adds[k] \in AnyFrame
    BY <1>1, <1>4, <2>2
  <2> HIDE DEF adds
  <2> QED
    BY <1>1, <2>1, <2>2, <2>3
<1>6. fs = adds \o <<end>>
  BY DEF ServiceOf
<1> HIDE DEF adds, end, fs
<1>7. /\ fs \in Seq(AnyFrame) /\ Len(fs) = Len(mine) + 1 /\ DOMAIN fs = 1..(Len(mine) + 1)
      /\ \A k \in DOMAIN mine : fs[k] = adds[k]
      /\ fs[Len(mine) + 1] = end
  <2>1. /\ fs \in Seq(AnyFrame) /\ Len(fs) = Len(adds) + 1 /\ DOMAIN fs = 1..Len(fs)
        /\ \A k \in 1..Len(adds) : fs[k] = adds[k]
        /\ fs[Len(adds) + 1] = end
    <3>1. adds \in Seq(AnyFrame) /\ end \in AnyFrame
      BY <1>3, <1>5
    <3> QED
      BY ONLY <1>6, <3>1
  <2> QED
    BY <1>1, <1>5, <2>1
<1>8. /\ \A n \in DOMAIN fs : n # Len(mine) + 1 => n \in DOMAIN mine
      /\ DOMAIN mine \subseteq DOMAIN fs
  BY <1>1, <1>7
<1>9. /\ \A n \in DOMAIN fs : fs[n].type = "AddRegexp" => n \in DOMAIN mine
      /\ \A n \in DOMAIN mine : fs[n].type = "AddRegexp" /\ fs[n].id = mine[n].id
                                                          /\ fs[n].regexp = mine[n].regexp
  BY <1>3, <1>4, <1>5, <1>7, <1>8
<1>10. Distinct(mine) => Fresh(<<>>, fs)
  <2>1. ToSet(<<>>) = {}
    BY DEF ToSet
  <2> QED
    BY <1>9, <2>1 DEF Fresh, Distinct
<1>11. Known(mine, top, mine) => Announced(mine, top, fs)
  BY <1>9 DEF Known, Announced, ToSet
<1>12. ASSUME NEW b \in Binding
       PROVE  Holds(<<>>, fs, b) <=> b \in ToSet(mine) /\ b.regexp \notin Filtered
  <2>1. b \notin ToSet(<<>>)
    BY DEF ToSet
  <2>2. \A n \in DOMAIN fs : fs[n] # Frame("DelRegexp", b.id, NoRegexp)
    <3>1. Frame("DelRegexp", b.id, NoRegexp).type = "DelRegexp"
      BY DEF Frame
    <3>2. \A n \in DOMAIN fs : fs[n].type = "AddRegexp" \/ fs[n].type = "EndRegexp"
      BY <1>3, <1>7, <1>8, <1>9
    <3> QED
      BY <3>1, <3>2
  <2>3. \A n \in DOMAIN fs : \A l \in (n + 1)..Len(fs) : l \in DOMAIN fs
    BY <1>7
  <2>4. \A n \in DOMAIN fs : Stays(fs, b.id, n)
    BY <2>2, <2>3, Zenon DEF Stays
  <2>5. ASSUME NEW n \in DOMAIN fs, fs[n] = Frame("AddRegexp", b.id, b.regexp)
        PROVE  b \in ToSet(mine)
    <3>1. /\ fs[n].type = "AddRegexp" /\ fs[n].id = b.id /\ fs[n].regexp = b.regexp
      BY <2>5 DEF Frame
    <3>2. n \in DOMAIN mine /\ mine[n].id = b.id /\ mine[n].regexp = b.regexp /\ mine[n] \in Binding
      BY <1>1, <1>9, <3>1
    <3>3. mine[n] = b
      BY <3>2 DEF Binding
    <3> QED
      BY <3>2, <3>3 DEF ToSet
  <2>6. ASSUME b \in ToSet(mine)
        PROVE  \E n \in DOMAIN fs : fs[n] = Frame("AddRegexp", b.id, b.regexp)
    <3>1. PICK n \in DOMAIN mine : mine[n] = b
      BY <2>6 DEF ToSet
    <3>2. n \in DOMAIN fs /\ fs[n] = Frame("AddRegexp", b.id, b.regexp)
      BY <1>5, <1>7, <1>8, <3>1
    <3> QED
      BY <3>2
  <2> QED
    BY <2>1, <2>4, <2>5, <2>6, Zenon DEF Holds
<1> QED
  BY <1>7, <1>10, <1>11, <1>12 DEF fs

-----------------------------------------------------------------------------
(* One step after another *)

(* Nothing of the client c is touched. *)
Same(c) ==
    /\ msg_recv'[c] = msg_recv[c] /\ recv_id'[c] = recv_id[c]
    /\ link'[c] = link[c] /\ frames'[c] = frames[c] /\ msgs'[c] = msgs[c]
    /\ srcRegList'[c] = srcRegList[c]

SameServed(c) ==
    /\ \A i, r : Serves(dict', c, i, r) <=> Serves(dict, c, i, r)
    /\ Once(dict, c) => Once(dict', c)

(* A client that nothing happens to keeps its part of the invariant.       *)
LEMMA SameKeeps ==
    ASSUME IInv, NEW c \in Client, Same(c), SameServed(c)
    PROVE  Served1(c)' /\ (c \in Steady => Steady1(c)')
<1>1. Served1(c) /\ (c \in Steady => Steady1(c))
  BY DEF IInv
<1>2. Served1(c)'
  BY <1>1, Zenon DEF Served1, Same, SameServed
<1>3. ASSUME c \in Steady
      PROVE  Steady1(c)'
  BY <1>1, <1>3, Zenon DEF Steady1, Same, SameServed
<1> QED
  BY <1>2, <1>3

(* A step of one client. *)
LEMMA OneClientKeeps ==
    ASSUME IInv, NEW c \in Client, Typed', Table(dict'), freed' \subseteq Fickle,
           \A d \in Client \ {c} : Same(d) /\ SameServed(d),
           Served1(c)', c \in Steady => Steady1(c)'
    PROVE  IInv'
<1>1. \A d \in Client : Served1(d)' /\ (d \in Steady => Steady1(d)')
  BY SameKeeps
<1>2. Steady \subseteq Client
  BY DEF Steady
<1> QED
  BY <1>1, <1>2, Zenon DEF IInv

(* At the beginning nobody is linked and nothing is held.                  *)
LEMMA InitKeeps == Init => IInv
<1> SUFFICES ASSUME Init
             PROVE  IInv
  OBVIOUS
<1> USE DictAssumption
<1>1. Typed
  BY DEF Init, Typed, Id
<1>2. Table(dict) /\ dict = <<>> /\ freed \subseteq Fickle
  BY DEF Init, Table
<1>3. \A c, i, r : ~Serves(dict, c, i, r) /\ Once(dict, c)
  BY <1>2 DEF Serves, Once
<1>4. ToSet(<<>>) = {} /\ Distinct(<<>>)
  BY DEF ToSet, Distinct
<1>5. ASSUME NEW c \in Client
      PROVE  Served1(c) /\ Steady1(c)
  <2>1. /\ msg_recv[c] = <<>> /\ srcRegList[c] = <<>> /\ msgs[c] = <<>> /\ link[c] = "down"
    BY DEF Init
  <2>2. Known(<<>>, recv_id[c], <<>>)
    BY <1>4 DEF Known
  <2> QED
    BY <1>3, <1>4, <2>1, <2>2 DEF Served1, Steady1
<1> QED
  BY <1>1, <1>2, <1>5 DEF IInv, Steady

(* The subscriber *)

LEMMA KeepsBind ==
    ASSUME IInv, NEW c \in Client, NEW r \in Regexp, IvyBindMsg(c, r)
    PROVE  IInv'
<1> DEFINE n == recv_id[c]
           b0 == [id |-> n, regexp |-> r]
           mine == msg_recv[c]
           f == Frame("AddRegexp", n, r)
<1>1. Typed /\ calls < MaxCalls /\ calls' = calls + 1
  BY DEF IInv, IvyBindMsg, Call
<1>2. /\ calls \in Nat /\ MaxCalls \in Nat /\ n \in 0..calls /\ mine \in Seq(Binding)
      /\ calls + 1 \in 0..MaxCalls /\ n \in Id /\ frames[c] \in Seq(AnyFrame)
      /\ \A k \in 0..calls : k \in 0..(calls + 1)
      /\ n + 1 \in 0..(calls + 1)
  BY <1>1, DictAssumption DEF Typed, Id
<1>3. /\ msg_recv' = [msg_recv EXCEPT ![c] = <<b0>> \o @]
      /\ recv_id' = [recv_id EXCEPT ![c] = @ + 1]
      /\ frames' = IF link[c] = "up" THEN [frames EXCEPT ![c] = Append(@, f)] ELSE frames
      /\ UNCHANGED <<link, msgs, publisher>>
  BY DEF IvyBindMsg, Call, NextId, MsgSendTo
<1>4. f \in AnyFrame /\ f.type = "AddRegexp" /\ f.id = n /\ f.regexp = r
  BY <1>2 DEF Frame, AnyFrame, AddFrame
<1> DEFINE new == <<b0>> \o mine
<1>5. /\ new \in Seq(Binding)
      /\ ToSet(new) = ToSet(mine) \cup {b0}
      /\ \A i \in Id : \A r1 : Given(mine, n, i, r1) => Given(new, n + 1, i, r1)
      /\ Known(mine, n, mine) /\ Distinct(mine) => Given(new, n + 1, n, r) /\ Distinct(new)
  BY <1>2, GivenMore
<1> HIDE DEF f, new, mine, b0, n
<1>6. /\ msg_recv'[c] = new /\ recv_id'[c] = n + 1
      /\ link[c] = "up" => frames'[c] = Append(frames[c], f)
      /\ frames'[c] = frames[c] \/ frames'[c] = Append(frames[c], f)
      /\ Append(frames[c], f) \in Seq(AnyFrame)
      /\ msgs'[c] = msgs[c] /\ srcRegList' = srcRegList /\ dict' = dict /\ link' = link
      /\ freed' = freed /\ id' = id
  BY <1>1, <1>2, <1>3, <1>4 DEF Typed, publisher, new, mine, n
<1>7. Typed'
  <2>1. msg_recv' \in [Client -> Seq(Binding)]
    BY <1>1, <1>3, <1>5, <1>6 DEF Typed
  <2>2. recv_id' \in [Client -> 0..calls']
    BY <1>1, <1>2, <1>3, <1>6 DEF Typed
  <2>3. frames' \in [Client -> Seq(AnyFrame)]
    BY <1>1, <1>3, <1>6 DEF Typed
  <2> QED
    BY <1>1, <1>2, <1>3, <2>1, <2>2, <2>3 DEF Typed, publisher
<1>8. \A d \in Client \ {c} : Same(d) /\ SameServed(d)
  <2>1. \A d \in Client \ {c} : msg_recv'[d] = msg_recv[d] /\ recv_id'[d] = recv_id[d] /\ frames'[d] = frames[d]
    BY <1>1, <1>3 DEF Typed
  <2> QED
    BY <1>3, <1>6, <2>1 DEF Same, SameServed
<1>9. Served1(c)'
  BY <1>6, Zenon DEF IInv, Served1
<1>10. ASSUME c \in Steady
       PROVE  Steady1(c)'
  <2>1. Steady1(c)
    BY <1>10 DEF IInv
  <2>2. /\ Known(mine, n, mine) /\ Distinct(mine) /\ Known(mine, n, msgs[c])
        /\ link[c] \in {"up", "left"} => Fresh(srcRegList[c], frames[c])
        /\ link[c] = "up" =>
              /\ Known(mine, n, srcRegList[c])
              /\ Announced(mine, n, frames[c])
              /\ \A b \in Binding : Holds(srcRegList[c], frames[c], b) <=>
                    b \in ToSet(mine) /\ b.regexp \notin Filtered
    BY <2>1, Zenon DEF Steady1, mine, n
  <2>3. \A list \in Seq(Binding) : Known(mine, n, list) => Known(new, n + 1, list)
    <3>1. \A list \in Seq(Binding) : \A b \in ToSet(list) : b.id \in Id
      BY BindingsTyped
    <3> QED
      BY <1>5, <3>1, Zenon DEF Known
  <2>4. Distinct(new) /\ Given(new, n + 1, n, r) /\ b0.id = n /\ b0.regexp = r
    BY <1>5, <2>2 DEF b0
  <2>5. Known(new, n + 1, new) /\ Known(new, n + 1, msgs[c])
    BY <1>1, <1>2, <1>5, <2>2, <2>3, <2>4 DEF Known, Typed
  <2>6. CASE link[c] = "up"
    <3>1. /\ \A k \in DOMAIN frames[c] : frames[c][k].type = "AddRegexp" =>
                Given(mine, n, frames[c][k].id, frames[c][k].regexp) /\ frames[c][k].id \in Id
          /\ \A b \in ToSet(srcRegList[c]) : Given(mine, n, b.id, b.regexp)
      <4>1. \A k \in DOMAIN frames[c] : frames[c][k] \in AnyFrame
        BY <1>2
      <4>2. \A g \in AnyFrame : g.id \in Id
        BY DEF AnyFrame, AddFrame, OtherFrame
      <4> QED
        BY <2>2, <2>6, <4>1, <4>2 DEF Announced, Known
    <3>2. \A i, r1 : Given(mine, n, i, r1) => i # n
      BY <1>2 DEF Given
    <3>3. Fresh(srcRegList[c], Append(frames[c], f))
      BY <1>2, <1>4, <2>2, <2>6, <3>1, <3>2, FreshAppend
    <3>4. Announced(new, n + 1, frames[c])
      BY <1>5, <3>1, Zenon DEF Announced
    <3>5. Announced(new, n + 1, Append(frames[c], f))
      BY <1>2, <1>4, <2>4, <3>4, AnnouncedAppend
    <3>6. \A b \in Binding : Holds(srcRegList[c], Append(frames[c], f), b) <=>
             b \in ToSet(new) /\ b.regexp \notin Filtered
      <4>1. \A b \in Binding : Holds(srcRegList[c], Append(frames[c], f), b) <=>
               Holds(srcRegList[c], frames[c], b) \/ (b = b0 /\ r \notin Filtered)
        BY <1>2, HoldsOneMore, Zenon DEF f, b0
      <4> QED
        BY <1>5, <2>2, <2>4, <2>6, <4>1
    <3>7. Known(new, n + 1, srcRegList[c])
      BY <1>1, <2>2, <2>3, <2>6 DEF Typed
    <3> QED
      BY <1>6, <2>1, <2>4, <2>5, <2>6, <3>3, <3>5, <3>6, <3>7, Zenon DEF Steady1
  <2>7. CASE link[c] # "up"
    <3>1. frames'[c] = frames[c]
      BY <1>3, <2>7
    <3> QED
      BY <1>6, <2>1, <2>4, <2>5, <2>7, <3>1, Zenon DEF Steady1
  <2> QED
    BY <2>6, <2>7
<1> QED
  BY <1>6, <1>7, <1>8, <1>9, <1>10, OneClientKeeps, Zenon DEF IInv

(* The binding is given up on both sides, one of them later.               *)
LEMMA KeepsUnbind ==
    ASSUME IInv, NEW c \in Client, NEW k \in DOMAIN msg_recv[c], IvyUnbindMsg(c, k)
    PROVE  IInv'
<1> DEFINE mine == msg_recv[c]
           i0 == mine[k].id
           new == RemoveAt(mine, k)
           f == Frame("DelRegexp", i0, NoRegexp)
<1>1. Typed /\ calls < MaxCalls /\ calls' = calls + 1
  BY DEF IInv, IvyUnbindMsg, Call
<1>2. /\ calls \in Nat /\ MaxCalls \in Nat /\ mine \in Seq(Binding)
      /\ calls + 1 \in 0..MaxCalls /\ frames[c] \in Seq(AnyFrame)
      /\ \A n \in 0..calls : n \in 0..(calls + 1)
  BY <1>1, DictAssumption DEF Typed
<1>3. /\ msg_recv' = [msg_recv EXCEPT ![c] = RemoveAt(@, k)]
      /\ frames' = IF link[c] = "up" THEN [frames EXCEPT ![c] = Append(@, f)] ELSE frames
      /\ UNCHANGED <<recv_id, link, msgs, publisher>>
  BY DEF IvyUnbindMsg, Call, MsgSendTo
<1>4. mine[k] \in Binding /\ i0 \in Id
  BY <1>2, BindingsTyped
<1>5. f \in AnyFrame /\ f.type # "AddRegexp"
  BY <1>4 DEF Frame, AnyFrame, OtherFrame
<1>6. /\ new \in Seq(Binding)
      /\ ToSet(new) \subseteq ToSet(mine)
      /\ Distinct(mine) =>
            /\ Distinct(new)
            /\ \A b : b \in ToSet(new) <=> b \in ToSet(mine) /\ b.id # i0
  BY <1>2, Removed
<1> HIDE DEF f, new, mine, i0
<1>7. /\ msg_recv'[c] = new
      /\ link[c] = "up" => frames'[c] = Append(frames[c], f)
      /\ link[c] # "up" => frames'[c] = frames[c]
      /\ Append(frames[c], f) \in Seq(AnyFrame)
      /\ msgs' = msgs /\ srcRegList' = srcRegList /\ dict' = dict /\ link' = link
      /\ recv_id' = recv_id /\ freed' = freed /\ id' = id
  BY <1>1, <1>2, <1>3, <1>5 DEF Typed, publisher, new, mine
<1>8. Typed'
  <2>1. msg_recv' \in [Client -> Seq(Binding)]
    BY <1>1, <1>3, <1>6, <1>7 DEF Typed
  <2>2. recv_id' \in [Client -> 0..calls']
    BY <1>1, <1>2, <1>7 DEF Typed
  <2>3. frames' \in [Client -> Seq(AnyFrame)]
    BY <1>1, <1>3, <1>7 DEF Typed
  <2> QED
    BY <1>1, <1>2, <1>7, <2>1, <2>2, <2>3 DEF Typed
<1>9. \A d \in Client \ {c} : Same(d) /\ SameServed(d)
  <2>1. \A d \in Client \ {c} : msg_recv'[d] = msg_recv[d] /\ frames'[d] = frames[d]
    BY <1>1, <1>3 DEF Typed
  <2> QED
    BY <1>7, <2>1 DEF Same, SameServed
<1>10. Served1(c)'
  BY <1>7, Zenon DEF IInv, Served1
<1>11. ASSUME c \in Steady
       PROVE  Steady1(c)'
  <2>1. Steady1(c)
    BY <1>11 DEF IInv
  <2>2. Distinct(mine)
    BY <2>1, Zenon DEF Steady1, mine
  <2>3. /\ Distinct(new)
        /\ \A b : b \in ToSet(new) <=> b \in ToSet(mine) /\ b.id # i0
    BY <1>6, <2>2
  <2>4. \A i, r : Given(mine, recv_id[c], i, r) => Given(new, recv_id[c], i, r)
    BY <1>6 DEF Given
  <2>5. \A list : Known(mine, recv_id[c], list) => Known(new, recv_id[c], list)
    BY <2>4 DEF Known
  <2>6. Known(new, recv_id[c], new) /\ Known(new, recv_id[c], msgs[c])
    <3>1. Known(mine, recv_id[c], mine) /\ Known(mine, recv_id[c], msgs[c])
      BY <2>1, Zenon DEF Steady1, mine
    <3> QED
      BY <1>6, <2>5, <3>1 DEF Known
  <2>7. CASE link[c] = "up"
    <3>1. /\ Fresh(srcRegList[c], frames[c])
          /\ Known(mine, recv_id[c], srcRegList[c])
          /\ Announced(mine, recv_id[c], frames[c])
          /\ \A b \in Binding : Holds(srcRegList[c], frames[c], b) <=>
                b \in ToSet(mine) /\ b.regexp \notin Filtered
      BY <2>1, <2>7, Zenon DEF Steady1, mine
    <3>2. Fresh(srcRegList[c], Append(frames[c], f))
      BY <1>2, <1>5, <3>1, FreshAppend
    <3>3. Announced(new, recv_id[c], frames[c])
      BY <2>4, <3>1 DEF Announced
    <3>4. Announced(new, recv_id[c], Append(frames[c], f))
      BY <1>2, <1>5, <3>3, AnnouncedAppend
    <3>5. \A b \in Binding : Holds(srcRegList[c], Append(frames[c], f), b) <=>
             b \in ToSet(new) /\ b.regexp \notin Filtered
      <4>1. \A b \in Binding : Holds(srcRegList[c], Append(frames[c], f), b) <=>
               Holds(srcRegList[c], frames[c], b) /\ b.id # i0
        BY <1>2, <1>4, HoldsOneLess, Zenon DEF f
      <4> QED
        BY <2>3, <3>1, <4>1
    <3> QED
      BY <1>7, <2>1, <2>3, <2>5, <2>6, <2>7, <3>1, <3>2, <3>4, <3>5, Zenon DEF Steady1
  <2>8. CASE link[c] # "up"
    BY <1>7, <2>1, <2>3, <2>6, <2>8, Zenon DEF Steady1
  <2> QED
    BY <2>7, <2>8
<1> QED
  BY <1>7, <1>8, <1>9, <1>10, <1>11, OneClientKeeps, Zenon DEF IInv

(* Only a client of Fickle changes an expression.                          *)
LEMMA KeepsChange ==
    ASSUME IInv, NEW c \in Client, NEW k \in DOMAIN msg_recv[c], NEW r \in Regexp,
           IvyChangeMsg(c, k, r)
    PROVE  IInv'
<1> DEFINE f == Frame("AddRegexp", msg_recv[c][k].id, r)
<1>1. Typed /\ calls < MaxCalls /\ calls' = calls + 1 /\ c \in Fickle
  BY DEF IInv, IvyChangeMsg, Call
<1>2. /\ calls \in Nat /\ MaxCalls \in Nat /\ msg_recv[c] \in Seq(Binding)
      /\ calls + 1 \in 0..MaxCalls /\ frames[c] \in Seq(AnyFrame)
      /\ \A n \in 0..calls : n \in 0..(calls + 1)
  BY <1>1, DictAssumption DEF Typed
<1>3. /\ msg_recv' = [msg_recv EXCEPT ![c][k].regexp = r]
      /\ frames' = IF link[c] = "up" THEN [frames EXCEPT ![c] = Append(@, f)] ELSE frames
      /\ recv_id' = recv_id /\ link' = link /\ msgs' = msgs
      /\ srcRegList' = srcRegList /\ dict' = dict /\ freed' = freed /\ id' = id
  BY DEF IvyChangeMsg, Call, MsgSendTo, publisher
<1>4. msg_recv[c][k] \in Binding /\ msg_recv[c][k].id \in Id
  BY <1>2, BindingsTyped
<1>5. f \in AnyFrame
  BY <1>4 DEF Frame, AnyFrame, AddFrame
<1> HIDE DEF f
<1>6. Typed'
  <2>1. [msg_recv[c][k] EXCEPT !.regexp = r] \in Binding
    BY <1>4 DEF Binding
  <2>2. msg_recv' \in [Client -> Seq(Binding)]
    BY <1>1, <1>2, <1>3, <2>1 DEF Typed
  <2>3. recv_id' \in [Client -> 0..calls']
    BY <1>1, <1>2, <1>3 DEF Typed
  <2>4. frames' \in [Client -> Seq(AnyFrame)]
    BY <1>1, <1>2, <1>3, <1>5 DEF Typed
  <2> QED
    BY <1>1, <1>2, <1>3, <2>2, <2>3, <2>4 DEF Typed
<1>7. \A d \in Client \ {c} : Same(d) /\ SameServed(d)
  <2>1. \A d \in Client \ {c} : msg_recv'[d] = msg_recv[d] /\ frames'[d] = frames[d]
    BY <1>1, <1>3 DEF Typed
  <2> QED
    BY <1>3, <2>1 DEF Same, SameServed
<1>8. Served1(c)'
  BY <1>3, Zenon DEF IInv, Served1
<1>9. c \notin Steady
  BY <1>1 DEF Steady
<1> QED
  BY <1>3, <1>6, <1>7, <1>8, <1>9, OneClientKeeps, Zenon DEF IInv

(* Without bindings there is nothing that could disagree.                  *)
LEMMA NothingKnown ==
    /\ Distinct(<<>>)
    /\ \A mine, top : Known(mine, top, <<>>)
<1>1. ToSet(<<>>) = {}
  BY DEF ToSet
<1> QED
  BY <1>1 DEF Distinct, Known

(* A new link begins with all bindings.                                    *)
LEMMA KeepsService ==
    ASSUME IInv, NEW c \in Client, SendService(c)
    PROVE  IInv'
<1> DEFINE mine == msg_recv[c]
<1>1. Typed /\ calls < MaxCalls /\ calls' = calls + 1 /\ link[c] = "down"
  BY DEF IInv, SendService, Call
<1>2. /\ calls \in Nat /\ MaxCalls \in Nat /\ mine \in Seq(Binding)
      /\ calls + 1 \in 0..MaxCalls
      /\ \A n \in 0..calls : n \in 0..(calls + 1)
  BY <1>1, DictAssumption DEF Typed
<1>3. /\ link' = [link EXCEPT ![c] = "up"]
      /\ frames' = [frames EXCEPT ![c] = ServiceOf(mine)]
      /\ msg_recv' = msg_recv /\ recv_id' = recv_id /\ msgs' = msgs
      /\ srcRegList' = srcRegList /\ dict' = dict /\ freed' = freed /\ id' = id
  BY DEF SendService, Call, publisher, subscriber, ServiceOf
<1> HIDE DEF mine
<1>4. /\ ServiceOf(mine) \in Seq(AnyFrame)
      /\ Distinct(mine) => Fresh(<<>>, ServiceOf(mine))
      /\ Known(mine, recv_id[c], mine) => Announced(mine, recv_id[c], ServiceOf(mine))
      /\ \A b \in Binding : Holds(<<>>, ServiceOf(mine), b) <=>
            b \in ToSet(mine) /\ b.regexp \notin Filtered
  BY <1>2, ServiceSaysAll
<1>5. /\ link'[c] = "up" /\ frames'[c] = ServiceOf(mine)
      /\ \A d \in Client \ {c} : link'[d] = link[d] /\ frames'[d] = frames[d]
  BY <1>1, <1>3 DEF Typed
<1>6. Typed'
  <2>1. recv_id' \in [Client -> 0..calls']
    BY <1>1, <1>2, <1>3 DEF Typed
  <2>2. frames' \in [Client -> Seq(AnyFrame)]
    BY <1>1, <1>3, <1>4 DEF Typed
  <2>3. link' \in [Client -> {"down", "up", "left", "closed"}]
    BY <1>1, <1>3 DEF Typed
  <2> QED
    BY <1>1, <1>2, <1>3, <2>1, <2>2, <2>3 DEF Typed
<1>7. \A d \in Client \ {c} : Same(d) /\ SameServed(d)
  BY <1>3, <1>5 DEF Same, SameServed
<1>8. Served1(c) /\ srcRegList[c] = <<>>
  BY <1>1 DEF IInv, Served1
<1>9. Served1(c)'
  BY <1>3, <1>5, <1>8, Zenon DEF Served1
<1>10. ASSUME c \in Steady
       PROVE  Steady1(c)'
  <2>1. Steady1(c)
    BY <1>10 DEF IInv
  <2>2. Distinct(mine) /\ Known(mine, recv_id[c], mine)
    BY <2>1, Zenon DEF Steady1, mine
  <2>3. Known(mine, recv_id[c], <<>>)
    BY NothingKnown
  <2> QED
    BY <1>3, <1>4, <1>5, <1>8, <2>1, <2>2, <2>3, Zenon DEF Steady1, mine
<1> QED
  BY <1>3, <1>6, <1>7, <1>9, <1>10, OneClientKeeps, Zenon DEF IInv

(* Who leaves promises no more, the frames on their way stay as they were. *)
LEMMA KeepsLeave ==
    ASSUME IInv, NEW c \in Client, Leave(c)
    PROVE  IInv'
<1> DEFINE bye == Frame("Bye", 0, NoRegexp)
           Cut(fs) == \/ fs = Append(frames[c], bye)
                      \/ \E n \in 0..Len(frames[c]) : fs = SubSeq(frames[c], 1, n)
<1>1. Typed /\ calls < MaxCalls /\ calls' = calls + 1 /\ link[c] = "up"
  BY DEF IInv, Leave, Call
<1>2. /\ calls \in Nat /\ MaxCalls \in Nat /\ frames[c] \in Seq(AnyFrame)
      /\ calls + 1 \in 0..MaxCalls
      /\ \A n \in 0..calls : n \in 0..(calls + 1)
      /\ 0 \in Id /\ 0 \in 0..(calls + 1)
  BY <1>1, DictAssumption DEF Typed, Id
<1>3. bye \in AnyFrame /\ bye.type # "AddRegexp"
  BY <1>2 DEF Frame, AnyFrame, OtherFrame
<1>4. /\ link' = [link EXCEPT ![c] = "left"]
      /\ msg_recv' = [msg_recv EXCEPT ![c] = <<>>]
      /\ recv_id' = [recv_id EXCEPT ![c] = 0]
      /\ msgs' = [msgs EXCEPT ![c] = <<>>]
      /\ srcRegList' = srcRegList /\ dict' = dict /\ freed' = freed /\ id' = id
  BY DEF Leave, Call, publisher
<1>5. \E fs : Cut(fs) /\ frames' = [frames EXCEPT ![c] = fs]
  <2>1. \/ frames' = [frames EXCEPT ![c] = Append(frames[c], bye)]
        \/ \E n \in 0..Len(frames[c]) : frames' = [frames EXCEPT ![c] = SubSeq(frames[c], 1, n)]
    BY <1>1 DEF Leave, MsgSendTo
  <2>2. CASE frames' = [frames EXCEPT ![c] = Append(frames[c], bye)]
    <3>1. Cut(Append(frames[c], bye))
      OBVIOUS
    <3> HIDE DEF Cut
    <3> QED
      BY <2>2, <3>1
  <2>3. ASSUME NEW n \in 0..Len(frames[c]), frames' = [frames EXCEPT ![c] = SubSeq(frames[c], 1, n)]
        PROVE  \E fs : Cut(fs) /\ frames' = [frames EXCEPT ![c] = fs]
    <3>1. Cut(SubSeq(frames[c], 1, n))
      OBVIOUS
    <3> HIDE DEF Cut
    <3> QED
      BY <2>3, <3>1
  <2> HIDE DEF Cut
  <2> QED
    BY <2>1, <2>2, <2>3
<1>6. PICK fs : Cut(fs) /\ frames' = [frames EXCEPT ![c] = fs]
  BY <1>5
<1> HIDE DEF bye
<1>7. /\ fs \in Seq(AnyFrame)
      /\ Fresh(srcRegList[c], frames[c]) => Fresh(srcRegList[c], fs)
  <2>1. CASE fs = Append(frames[c], bye)
    BY <1>2, <1>3, <2>1, FreshAppend
  <2>2. ASSUME NEW n \in 0..Len(frames[c]), fs = SubSeq(frames[c], 1, n)
        PROVE  /\ fs \in Seq(AnyFrame)
               /\ Fresh(srcRegList[c], frames[c]) => Fresh(srcRegList[c], fs)
    <3>1. fs \in Seq(AnyFrame)
      BY <1>2, <2>2, Pieces
    <3> QED
      BY <1>2, <2>2, <3>1, FreshPrefix, Zenon
  <2> QED
    BY <1>6, <2>1, <2>2
<1>8. /\ link'[c] = "left" /\ frames'[c] = fs /\ msg_recv'[c] = <<>> /\ recv_id'[c] = 0
      /\ msgs'[c] = <<>>
      /\ \A d \in Client \ {c} :
            /\ link'[d] = link[d] /\ frames'[d] = frames[d] /\ msg_recv'[d] = msg_recv[d]
            /\ recv_id'[d] = recv_id[d] /\ msgs'[d] = msgs[d]
  BY <1>1, <1>4, <1>6 DEF Typed
<1>9. Typed'
  <2>1. recv_id' \in [Client -> 0..calls']
    BY <1>1, <1>2, <1>4 DEF Typed
  <2>2. frames' \in [Client -> Seq(AnyFrame)]
    BY <1>1, <1>6, <1>7 DEF Typed
  <2>3. link' \in [Client -> {"down", "up", "left", "closed"}]
    BY <1>1, <1>4 DEF Typed
  <2>4. msg_recv' \in [Client -> Seq(Binding)] /\ msgs' \in [Client -> Seq(Binding)]
    BY <1>1, <1>4 DEF Typed
  <2> QED
    BY <1>1, <1>2, <1>4, <2>1, <2>2, <2>3, <2>4 DEF Typed
<1>10. \A d \in Client \ {c} : Same(d) /\ SameServed(d)
  BY <1>4, <1>8 DEF Same, SameServed
<1>11. Served1(c)'
  <2>1. Served1(c)
    BY DEF IInv
  <2>2. link'[c] # "down"
    BY <1>8
  <2> QED
    BY <1>4, <2>1, <2>2, Zenon DEF Served1
<1>12. ASSUME c \in Steady
       PROVE  Steady1(c)'
  <2>1. Steady1(c)
    BY <1>12 DEF IInv
  <2>2. Fresh(srcRegList[c], fs)
    BY <1>1, <1>7, <2>1 DEF Steady1
  <2>3. link'[c] # "up"
    BY <1>8
  <2> QED
    BY <1>4, <1>8, <2>1, <2>2, <2>3, NothingKnown, Zenon DEF Steady1
<1> QED
  BY <1>4, <1>9, <1>10, <1>11, <1>12, OneClientKeeps, Zenon DEF IInv

(* A message is read; it was known before.                                 *)
LEMMA KeepsMsgRead ==
    ASSUME IInv, NEW c \in Client, ReceiveMsg(c)
    PROVE  IInv'
<1>1. Typed /\ msgs[c] \in Seq(Binding) /\ msgs[c] # <<>>
  BY DEF IInv, Typed, ReceiveMsg
<1>2. /\ msgs' = [msgs EXCEPT ![c] = Tail(@)]
      /\ msg_recv' = msg_recv /\ recv_id' = recv_id /\ link' = link /\ frames' = frames
      /\ srcRegList' = srcRegList /\ dict' = dict /\ freed' = freed /\ id' = id /\ calls' = calls
  BY DEF ReceiveMsg, publisher, subscriber
<1>3. /\ Tail(msgs[c]) \in Seq(Binding)
      /\ ToSet(msgs[c]) = ToSet(Tail(msgs[c])) \cup {Head(msgs[c])}
  BY <1>1, EndsTail
<1>4. /\ msgs'[c] = Tail(msgs[c])
      /\ \A d \in Client \ {c} : msgs'[d] = msgs[d]
  BY <1>1, <1>2 DEF Typed
<1>5. Typed'
  <2>1. msgs' \in [Client -> Seq(Binding)]
    BY <1>1, <1>2, <1>3 DEF Typed
  <2> QED
    BY <1>1, <1>2, <2>1, Zenon DEF Typed
<1>6. \A d \in Client \ {c} : Same(d) /\ SameServed(d)
  BY <1>2, <1>4 DEF Same, SameServed
<1>7. Served1(c)'
  BY <1>2, Zenon DEF IInv, Served1
<1>8. ASSUME c \in Steady
      PROVE  Steady1(c)'
  <2>1. Steady1(c)
    BY <1>8 DEF IInv
  <2>2. Known(msg_recv[c], recv_id[c], Tail(msgs[c]))
    BY <1>3, <2>1 DEF Steady1, Known
  <2> QED
    BY <1>2, <1>4, <2>1, <2>2, Zenon DEF Steady1
<1> QED
  BY <1>2, <1>5, <1>6, <1>7, <1>8, OneClientKeeps, Zenon DEF IInv

(* The publisher *)

(* What Receive() does for every type of frame. *)
LEMMA FrameRead ==
    ASSUME IInv, NEW c \in Client, NEW type, Receive(c, type)
    PROVE  /\ frames[c] \in Seq(AnyFrame) /\ frames[c] # <<>>
           /\ Head(frames[c]) \in AnyFrame /\ Head(frames[c]).type = type
           /\ link[c] \in {"up", "left"}
           /\ frames' \in [Client -> Seq(AnyFrame)] /\ id' \in [Client -> Id]
           /\ frames'[c] = Tail(frames[c])
           /\ \A d \in Client \ {c} : frames'[d] = frames[d]
           /\ msg_recv' = msg_recv /\ recv_id' = recv_id /\ msgs' = msgs
           /\ freed' = freed /\ calls' = calls /\ alive' = alive
<1>1. Typed
  BY DEF IInv
<1>2. /\ frames[c] \in Seq(AnyFrame) /\ frames[c] # <<>>
      /\ Head(frames[c]).type = type /\ link[c] \in {"up", "left"}
      /\ id' = [id EXCEPT ![c] = Head(frames[c]).id]
      /\ frames' = [frames EXCEPT ![c] = Tail(@)]
      /\ msg_recv' = msg_recv /\ recv_id' = recv_id /\ msgs' = msgs
      /\ freed' = freed /\ calls' = calls /\ alive' = alive
  BY <1>1 DEF Typed, Receive, subscriber
<1>3. Head(frames[c]) \in AnyFrame /\ Tail(frames[c]) \in Seq(AnyFrame)
  BY <1>2
<1>4. Head(frames[c]).id \in Id
  BY <1>3 DEF AnyFrame, AddFrame, OtherFrame
<1>5. frames' \in [Client -> Seq(AnyFrame)] /\ id' \in [Client -> Id]
  BY <1>1, <1>2, <1>3, <1>4 DEF Typed
<1>6. /\ frames'[c] = Tail(frames[c])
      /\ \A d \in Client \ {c} : frames'[d] = frames[d]
  BY <1>1, <1>2 DEF Typed
<1> QED
  BY <1>2, <1>3, <1>5, <1>6

(* The list does what the frame says: the ends stay together. *)
LEMMA ReadKeepsSteady ==
    ASSUME IInv, NEW c \in Steady, NEW type, Receive(c, type), link'[c] = link[c],
           srcRegList'[c] \in Seq(Binding), Distinct(srcRegList'[c]), Once(dict', c),
           \A i \in Id, r \in Regexp :
              Serves(dict', c, i, r) => [id |-> i, regexp |-> r] \in ToSet(srcRegList'[c]),
           \A b \in Binding : b \in ToSet(srcRegList'[c]) <=>
              \/ b \in ToSet(srcRegList[c]) /\ Head(frames[c]) # Frame("DelRegexp", b.id, NoRegexp)
              \/ b.regexp \notin Filtered /\ Head(frames[c]) = Frame("AddRegexp", b.id, b.regexp)
    PROVE  Steady1(c)'
<1> DEFINE fs == frames[c]
           list == srcRegList[c]
           new == srcRegList'[c]
<1>1. c \in Client /\ Steady1(c) /\ list \in Seq(Binding)
  BY DEF Steady, IInv, Typed
<1>2. /\ fs \in Seq(AnyFrame) /\ fs # <<>>
      /\ link[c] \in {"up", "left"}
      /\ frames'[c] = Tail(fs)
      /\ msg_recv' = msg_recv /\ recv_id' = recv_id /\ msgs' = msgs
  BY <1>1, FrameRead
<1>3. \A b \in ToSet(new) :
         b \in ToSet(list) \/ (Head(fs).type = "AddRegexp" /\ b.id = Head(fs).id /\ b.regexp = Head(fs).regexp)
  <2> SUFFICES ASSUME NEW b \in ToSet(new), b \notin ToSet(list)
               PROVE  Head(fs).type = "AddRegexp" /\ b.id = Head(fs).id /\ b.regexp = Head(fs).regexp
    OBVIOUS
  <2>1. b \in Binding
    BY BindingsTyped
  <2>2. Head(fs) = Frame("AddRegexp", b.id, b.regexp)
    BY <2>1
  <2> QED
    BY <2>2 DEF Frame
<1>4. Fresh(list, fs)
  BY <1>1, <1>2, Zenon DEF Steady1
<1>5. Fresh(new, Tail(fs))
  BY <1>2, <1>3, <1>4, FreshTail
<1>6. ASSUME link[c] = "up"
      PROVE  /\ Known(msg_recv[c], recv_id[c], new)
             /\ Announced(msg_recv[c], recv_id[c], Tail(fs))
             /\ \A b \in Binding : Holds(new, Tail(fs), b) <=>
                   b \in ToSet(msg_recv[c]) /\ b.regexp \notin Filtered
  <2>1. /\ Known(msg_recv[c], recv_id[c], list)
        /\ Announced(msg_recv[c], recv_id[c], fs)
        /\ \A b \in Binding : Holds(list, fs, b) <=>
              b \in ToSet(msg_recv[c]) /\ b.regexp \notin Filtered
    BY <1>1, <1>6, Zenon DEF Steady1
  <2>2. /\ Announced(msg_recv[c], recv_id[c], Tail(fs))
        /\ Head(fs).type = "AddRegexp" =>
              Given(msg_recv[c], recv_id[c], Head(fs).id, Head(fs).regexp)
    BY <1>2, <2>1, AnnouncedTail
  <2>3. Known(msg_recv[c], recv_id[c], new)
    BY <1>3, <2>1, <2>2 DEF Known
  <2>4. \A b \in Binding : Holds(new, Tail(fs), b) <=> Holds(list, fs, b)
    BY <1>2, HoldsHeadRead
  <2> QED
    BY <2>1, <2>2, <2>3, <2>4, Zenon
<1> QED
  BY <1>1, <1>2, <1>5, <1>6, Zenon DEF Steady1

(* Nothing of the publisher changes with the frame. *)
LEMMA KeepsSkipped ==
    ASSUME IInv, NEW c \in Client, NEW type, Receive(c, type),
           UNCHANGED <<link, dict, srcRegList>>,
           \A b \in Binding :
              /\ Head(frames[c]) # Frame("DelRegexp", b.id, NoRegexp)
              /\ b.regexp \notin Filtered => Head(frames[c]) # Frame("AddRegexp", b.id, b.regexp)
    PROVE  IInv'
<1>1. /\ frames' \in [Client -> Seq(AnyFrame)] /\ id' \in [Client -> Id]
      /\ \A d \in Client \ {c} : frames'[d] = frames[d]
      /\ msg_recv' = msg_recv /\ recv_id' = recv_id /\ msgs' = msgs
      /\ freed' = freed /\ calls' = calls
      /\ link' = link /\ dict' = dict /\ srcRegList' = srcRegList
  BY FrameRead
<1>2. Typed'
  BY <1>1, Zenon DEF IInv, Typed
<1>3. \A d \in Client \ {c} : Same(d) /\ SameServed(d)
  BY <1>1 DEF Same, SameServed
<1>4. Served1(c)'
  BY <1>1, Zenon DEF IInv, Served1
<1>5. ASSUME c \in Steady
      PROVE  Steady1(c)'
  <2>1. Steady1(c) /\ srcRegList[c] \in Seq(Binding)
    BY <1>5 DEF IInv, Typed
  <2>2. /\ Distinct(srcRegList[c]) /\ Once(dict, c)
        /\ \A i \in Id, r \in Regexp :
              Serves(dict, c, i, r) => [id |-> i, regexp |-> r] \in ToSet(srcRegList[c])
    BY <2>1, Zenon DEF Steady1
  <2> QED
    BY <1>1, <1>5, <2>1, <2>2, ReadKeepsSteady
<1> QED
  BY <1>1, <1>2, <1>3, <1>4, <1>5, OneClientKeeps, Zenon DEF IInv

(* EndRegexp changes neither list nor table.                               *)
LEMMA KeepsEnd ==
    ASSUME IInv, NEW c \in Client, ReceiveEnd(c)
    PROVE  IInv'
<1>1. Receive(c, "EndRegexp") /\ UNCHANGED <<link, dict, srcRegList>>
  BY DEF ReceiveEnd
<1>2. Head(frames[c]).type = "EndRegexp"
  BY <1>1, FrameRead
<1>3. \A i, r : /\ Frame("DelRegexp", i, r).type = "DelRegexp"
                /\ Frame("AddRegexp", i, r).type = "AddRegexp"
  BY DEF Frame
<1>4. \A i, r : /\ Head(frames[c]) # Frame("DelRegexp", i, r)
                /\ Head(frames[c]) # Frame("AddRegexp", i, r)
  BY <1>2, <1>3
<1> QED
  BY <1>1, <1>4, KeepsSkipped

(* Bye closes the link and leaves list and table to the deletion.          *)
LEMMA KeepsBye ==
    ASSUME IInv, NEW c \in Client, ReceiveBye(c)
    PROVE  IInv'
<1>1. Receive(c, "Bye") /\ UNCHANGED <<dict, srcRegList>> /\ link' = [link EXCEPT ![c] = "closed"]
  BY DEF ReceiveBye
<1>2. /\ frames' \in [Client -> Seq(AnyFrame)] /\ id' \in [Client -> Id]
      /\ \A d \in Client \ {c} : frames'[d] = frames[d]
      /\ msg_recv' = msg_recv /\ recv_id' = recv_id /\ msgs' = msgs
      /\ freed' = freed /\ calls' = calls
      /\ dict' = dict /\ srcRegList' = srcRegList /\ link[c] # "down"
  BY <1>1, FrameRead
<1>3. link' \in [Client -> {"down", "up", "left", "closed"}]
  BY <1>1 DEF IInv, Typed
<1>4. Typed'
  BY <1>2, <1>3, Zenon DEF IInv, Typed
<1>5. /\ link'[c] = "closed"
      /\ \A d \in Client \ {c} : link'[d] = link[d]
  BY <1>1 DEF IInv, Typed
<1>6. \A d \in Client \ {c} : Same(d) /\ SameServed(d)
  BY <1>2, <1>5 DEF Same, SameServed
<1>7. link'[c] # "down" /\ link'[c] # "up" /\ link'[c] \notin {"up", "left"}
  BY <1>5
<1>8. Served1(c)'
  BY <1>2, <1>7, Zenon DEF IInv, Served1
<1>9. c \in Steady => Steady1(c)'
  BY <1>2, <1>7, Zenon DEF IInv, Steady1
<1> QED
  BY <1>2, <1>4, <1>6, <1>8, <1>9, OneClientKeeps, Zenon DEF IInv

(* So does the end of the stream.                                          *)
LEMMA KeepsEndOfFile ==
    ASSUME IInv, NEW c \in Client, EndOfFile(c)
    PROVE  IInv'
<1>1. /\ link' = [link EXCEPT ![c] = "closed"] /\ frames' = frames /\ id' = id
      /\ msg_recv' = msg_recv /\ recv_id' = recv_id /\ msgs' = msgs
      /\ freed' = freed /\ calls' = calls
      /\ dict' = dict /\ srcRegList' = srcRegList
  BY DEF EndOfFile, subscriber, publisher
<1>2. link' \in [Client -> {"down", "up", "left", "closed"}]
  BY <1>1 DEF IInv, Typed
<1>3. Typed'
  BY <1>1, <1>2, Zenon DEF IInv, Typed
<1>4. /\ link'[c] = "closed"
      /\ \A d \in Client \ {c} : link'[d] = link[d]
  BY <1>1 DEF IInv, Typed
<1>5. \A d \in Client \ {c} : Same(d) /\ SameServed(d)
  BY <1>1, <1>4 DEF Same, SameServed
<1>6. link'[c] # "down" /\ link'[c] # "up" /\ link'[c] \notin {"up", "left"}
  BY <1>4
<1>7. Served1(c)'
  BY <1>1, <1>6, Zenon DEF IInv, Served1
<1>8. c \in Steady => Steady1(c)'
  BY <1>1, <1>6, Zenon DEF IInv, Steady1
<1> QED
  BY <1>1, <1>3, <1>5, <1>7, <1>8, OneClientKeeps, Zenon DEF IInv

(* A number that is given up leaves list and table together.               *)
LEMMA KeepsDel ==
    ASSUME IInv, NEW c \in Client, ReceiveDel(c)
    PROVE  IInv'
<1> DEFINE f == Head(frames[c])
           list == srcRegList[c]
           new == delFromList(list, {f.id})
           rs == Regexps(list, {f.id})
<1>1. Receive(c, "DelRegexp") /\ delRegexpForOneClient(c, f.id) /\ UNCHANGED link
  BY DEF ReceiveDel
<1>2. /\ f \in AnyFrame /\ f.type = "DelRegexp"
      /\ frames' \in [Client -> Seq(AnyFrame)] /\ id' \in [Client -> Id]
      /\ \A d \in Client \ {c} : frames'[d] = frames[d]
      /\ msg_recv' = msg_recv /\ recv_id' = recv_id /\ msgs' = msgs
      /\ freed' = freed /\ calls' = calls /\ link' = link
      /\ link[c] # "down"
  BY <1>1, FrameRead
<1>3. Table(dict) /\ srcRegList \in [Client -> Seq(Binding)] /\ list \in Seq(Binding)
  BY DEF IInv, Typed
<1>4. f.id \in Id /\ f = Frame("DelRegexp", f.id, NoRegexp)
  <2>1. f \in OtherFrame
    BY <1>2 DEF AnyFrame, AddFrame
  <2>2. f.id \in Id /\ f.regexp = NoRegexp
    BY <2>1 DEF OtherFrame
  <2>3. f = [type |-> f.type, id |-> f.id, regexp |-> f.regexp]
    BY <2>1 DEF OtherFrame
  <2> QED
    BY <1>2, <2>2, <2>3 DEF Frame
<1> HIDE DEF f
<1>5. /\ new \in Seq(Binding)
      /\ \A b : b \in ToSet(new) <=> b \in ToSet(list) /\ b.id \notin {f.id}
      /\ Distinct(list) => Distinct(new)
  BY <1>3, ListDropped
<1>6. dict' = delOneIvyClientFromDictionaryEntry(dict, rs, c, f.id)
  BY <1>1 DEF delRegexpForOneClient, delFromDictionary
<1>7. /\ Table(dict')
      /\ \A c1, i1, r1 : Serves(dict', c1, i1, r1) <=>
            Serves(dict, c1, i1, r1) /\ ~(r1 \in rs /\ c1 = c /\ i1 = f.id)
      /\ \A c1 : Once(dict, c1) => Once(dict', c1)
  <2> DEFINE less == delOneIvyClientFromDictionaryEntry(dict, rs, c, f.id)
  <2>1. /\ Table(less)
        /\ \A c1, i1, r1 : Serves(less, c1, i1, r1) <=>
              Serves(dict, c1, i1, r1) /\ ~(r1 \in rs /\ c1 = c /\ i1 = f.id)
        /\ \A c1 : Once(dict, c1) => Once(less, c1)
    BY <1>3, OneDropped
  <2> QED
    BY <1>6, <2>1
<1>8. /\ srcRegList' \in [Client -> Seq(Binding)] /\ srcRegList'[c] = new
      /\ \A d \in Client \ {c} : srcRegList'[d] = srcRegList[d]
  <2>1. srcRegList' = [srcRegList EXCEPT ![c] = new]
    BY <1>1 DEF delRegexpForOneClient
  <2> HIDE DEF new
  <2> QED
    BY <1>3, <1>5, <2>1
<1> HIDE DEF new
<1>9. Typed'
  BY <1>2, <1>8, Zenon DEF IInv, Typed
<1>10. \A d \in Client \ {c} : Same(d) /\ SameServed(d)
  BY <1>2, <1>7, <1>8 DEF Same, SameServed
<1>11. Served1(c)'
  <2>1. \A b \in ToSet(list) : Serves(dict, c, b.id, b.regexp)
    BY DEF IInv, Served1
  <2>2. \A b \in ToSet(new) : Serves(dict', c, b.id, b.regexp)
    BY <1>5, <1>7, <2>1
  <2> QED
    BY <1>2, <1>8, <2>2, Zenon DEF Served1
<1>12. ASSUME c \in Steady
       PROVE  Steady1(c)'
  <2>1. Steady1(c)
    BY <1>12 DEF IInv
  <2>2. /\ Distinct(list) /\ Once(dict, c)
        /\ \A i \in Id, r \in Regexp :
              Serves(dict, c, i, r) => [id |-> i, regexp |-> r] \in ToSet(list)
    BY <2>1, Zenon DEF Steady1
  <2>3. \A i \in Id, r \in Regexp :
           Serves(dict', c, i, r) => [id |-> i, regexp |-> r] \in ToSet(new)
    <3> SUFFICES ASSUME NEW i \in Id, NEW r \in Regexp, Serves(dict', c, i, r)
                 PROVE  [id |-> i, regexp |-> r] \in ToSet(new)
      OBVIOUS
    <3> DEFINE b == [id |-> i, regexp |-> r]
    <3>1. b \in ToSet(list) /\ b.id = i /\ b.regexp = r
      BY <1>7, <2>2
    <3>2. i # f.id
      <4>1. ASSUME i = f.id
            PROVE  r \in rs
        BY <3>1, <4>1 DEF Regexps
      <4> HIDE DEF rs
      <4> QED
        BY <1>7, <4>1
    <3> QED
      BY <1>5, <3>1, <3>2
  <2>4. \A b \in Binding : b \in ToSet(new) <=>
           \/ b \in ToSet(list) /\ f # Frame("DelRegexp", b.id, NoRegexp)
           \/ b.regexp \notin Filtered /\ f = Frame("AddRegexp", b.id, b.regexp)
    <3>1. \A i, r : f # Frame("AddRegexp", i, r)
      BY <1>2 DEF Frame
    <3>2. \A i : f = Frame("DelRegexp", i, NoRegexp) <=> i = f.id
      BY <1>4 DEF Frame
    <3> QED
      BY <1>5, <3>1, <3>2
  <2>5. Distinct(new) /\ Once(dict', c) /\ link'[c] = link[c]
    BY <1>2, <1>5, <1>7, <2>2
  <2> QED
    BY <1>1, <1>5, <1>8, <1>12, <2>3, <2>4, <2>5, ReadKeepsSteady DEF f
<1>13. freed' \subseteq Fickle
  BY <1>2 DEF IInv
<1> QED
  BY <1>7, <1>9, <1>10, <1>11, <1>12, <1>13, OneClientKeeps

(* A binding that comes: who has the expression under that number changes  *)
(* it, anybody else gets it.                                               *)
LEMMA KeepsAdd ==
    ASSUME IInv, NEW c \in Client, ReceiveAdd(c)
    PROVE  IInv'
<1> DEFINE f == Head(frames[c])
           i0 == f.id
           r0 == f.regexp
           list == srcRegList[c]
           b0 == [id |-> i0, regexp |-> r0]
<1>1. Receive(c, "AddRegexp") /\ UNCHANGED link
  BY DEF ReceiveAdd
<1>2. /\ f \in AnyFrame /\ f.type = "AddRegexp"
      /\ frames' \in [Client -> Seq(AnyFrame)] /\ id' \in [Client -> Id]
      /\ \A d \in Client \ {c} : frames'[d] = frames[d]
      /\ msg_recv' = msg_recv /\ recv_id' = recv_id /\ msgs' = msgs
      /\ freed' = freed /\ calls' = calls /\ link' = link
      /\ link[c] \in {"up", "left"}
      /\ frames[c] \in Seq(AnyFrame) /\ frames[c] # <<>>
  BY <1>1, FrameRead
<1>3. Table(dict) /\ srcRegList \in [Client -> Seq(Binding)] /\ list \in Seq(Binding)
  BY DEF IInv, Typed
<1>4. i0 \in Id /\ r0 \in Regexp /\ f = Frame("AddRegexp", i0, r0) /\ b0 \in Binding
  <2>1. f \in AddFrame
    BY <1>2 DEF AnyFrame, OtherFrame
  <2>2. i0 \in Id /\ r0 \in Regexp
    BY <2>1 DEF AddFrame
  <2>3. f = [type |-> f.type, id |-> f.id, regexp |-> f.regexp]
    BY <2>1 DEF AddFrame
  <2> QED
    BY <1>2, <2>2, <2>3 DEF Frame, Binding
<1>5. /\ \A i : f # Frame("DelRegexp", i, NoRegexp)
      /\ \A b \in Binding : f = Frame("AddRegexp", b.id, b.regexp) <=> b = b0
  <2>1. \A i : Frame("DelRegexp", i, NoRegexp).type = "DelRegexp"
    BY DEF Frame
  <2>2. \A b \in Binding : f = Frame("AddRegexp", b.id, b.regexp) <=> b = b0
    <3>1. \A b \in Binding : Frame("AddRegexp", b.id, b.regexp) = Frame("AddRegexp", i0, r0)
                               <=> b.id = i0 /\ b.regexp = r0
      BY DEF Frame
    <3>2. \A b \in Binding : b = b0 <=> b.id = i0 /\ b.regexp = r0
      BY DEF Binding
    <3> HIDE DEF b0
    <3> QED
      BY <1>4, <3>1, <3>2
  <2> QED
    BY <1>2, <2>1, <2>2
<1>6. CASE ~Accepted(r0)
  <2>1. UNCHANGED <<link, dict, srcRegList>>
    BY <1>1, <1>6 DEF ReceiveAdd
  <2>2. r0 \in Filtered
    BY <1>6 DEF Accepted
  <2>3. \A b \in Binding :
           /\ f # Frame("DelRegexp", b.id, NoRegexp)
           /\ b.regexp \notin Filtered => f # Frame("AddRegexp", b.id, b.regexp)
    BY <1>5, <2>2
  <2> QED
    BY <1>1, <2>1, <2>3, KeepsSkipped
<1>7. CASE Accepted(r0)
  <2>1. addOrChangeRegexp(r0, c, i0) /\ r0 \notin Filtered
    BY <1>7 DEF ReceiveAdd, Accepted
  <2> HIDE DEF f, i0, r0
  <2>2. ASSUME c \in Steady
        PROVE  /\ Steady1(c)
               /\ \A b \in ToSet(list) : b.id # i0
               /\ ~IsChange(r0, c, i0) /\ ~Serves(dict, c, i0, r0)
    <3>1. Steady1(c)
      BY <2>2 DEF IInv
    <3>2. Fresh(list, frames[c])
      BY <1>2, <3>1, Zenon DEF Steady1
    <3>3. 1 \in DOMAIN frames[c] /\ frames[c][1] = f
      BY <1>2 DEF f
    <3>4. \A b \in ToSet(list) : b.id # i0
      BY <1>2, <3>2, <3>3 DEF Fresh, i0
    <3>5. ~Serves(dict, c, i0, r0)
      <4>1. Serves(dict, c, i0, r0) => b0 \in ToSet(list)
        BY <1>4, <3>1 DEF Steady1
      <4>2. b0.id = i0
        OBVIOUS
      <4> QED
        BY <3>4, <4>1, <4>2
    <3>6. IsChange(r0, c, i0) => Serves(dict, c, i0, r0)
      <4> SUFFICES ASSUME NEW k \in DOMAIN dict, dict[k].regexp = r0,
                          NEW j \in DOMAIN dict[k].clientList,
                          dict[k].clientList[j] = [client |-> c, id |-> i0]
                   PROVE  Serves(dict, c, i0, r0)
        BY DEF IsChange
      <4>1. [client |-> c, id |-> i0] \in ToSet(dict[k].clientList)
        BY DEF ToSet
      <4> QED
        BY <4>1 DEF Serves
    <3> QED
      BY <3>1, <3>4, <3>5, <3>6
  <2>3. CASE IsChange(r0, c, i0)
    <3> DEFINE new == [k \in DOMAIN list |->
                          IF list[k].id = i0 THEN [list[k] EXCEPT !.regexp = r0] ELSE list[k]]
               more == changeRegexpInDictionary(dict, r0, c, i0)
    <3>1. dict' = more /\ srcRegList' = [srcRegList EXCEPT ![c] = new]
      BY <2>1, <2>3 DEF addOrChangeRegexp, changeRegexp
    <3>2. /\ Table(more)
          /\ \A c1, i1, r1 : Serves(more, c1, i1, r1) <=>
                Serves(dict, c1, i1, r1) \/ (c1 = c /\ i1 = i0 /\ r1 = r0)
          /\ \A c1 : Once(dict, c1) => Once(more, c1)
      BY <1>3, <1>4, Changed
    <3> HIDE DEF more
    <3>3. /\ new \in Seq(Binding)
          /\ \A b \in ToSet(new) : b \in ToSet(list) \/ (b.id = i0 /\ b.regexp = r0)
      <4>1. \A k \in DOMAIN list : list[k] \in Binding
        BY <1>3
      <4>2. \A b \in Binding : LET x == [b EXCEPT !.regexp = r0]
                               IN  x \in Binding /\ x.id = b.id /\ x.regexp = r0
        BY <1>4 DEF Binding
      <4>3. \A k \in DOMAIN list :
               /\ new[k] \in Binding
               /\ list[k].id = i0 => new[k].id = i0 /\ new[k].regexp = r0
               /\ list[k].id # i0 => new[k] = list[k]
        BY <4>1, <4>2
      <4>4. new = [k \in 1..Len(list) |-> new[k]] /\ DOMAIN new = DOMAIN list
            /\ DOMAIN list = 1..Len(list) /\ Len(list) \in Nat
        BY <1>3
      <4> HIDE DEF new
      <4>5. new \in Seq(Binding)
        <5>1. \A k \in 1..Len(list) : new[k] \in Binding
          BY <4>3, <4>4
        <5>2. new = [k \in 1..Len(list) |-> new[k]] /\ Len(list) \in Nat
          BY <4>4
        <5> HIDE DEF list
        <5> QED
          BY ONLY <5>1, <5>2
      <4>6. \A b \in ToSet(new) : b \in ToSet(list) \/ (b.id = i0 /\ b.regexp = r0)
        BY <4>3, <4>4 DEF ToSet
      <4> QED
        BY <4>5, <4>6
    <3> HIDE DEF new
    <3>4. /\ srcRegList' \in [Client -> Seq(Binding)] /\ srcRegList'[c] = new
          /\ \A d \in Client \ {c} : srcRegList'[d] = srcRegList[d]
      BY <1>3, <3>1, <3>3
    <3>5. Typed'
      BY <1>2, <3>4, Zenon DEF IInv, Typed
    <3>6. \A d \in Client \ {c} : Same(d) /\ SameServed(d)
      BY <1>2, <3>1, <3>2, <3>4 DEF Same, SameServed
    <3>7. Served1(c)'
      <4>1. \A b \in ToSet(list) : Serves(dict, c, b.id, b.regexp)
        BY DEF IInv, Served1
      <4>2. \A b \in ToSet(new) : Serves(dict', c, b.id, b.regexp)
        BY <3>1, <3>2, <3>3, <4>1
      <4>3. link'[c] # "down"
        BY <1>2
      <4> QED
        BY <3>4, <4>2, <4>3, Zenon DEF Served1
    <3>8. c \notin Steady
      BY <2>2, <2>3
    <3>9. Table(dict') /\ freed' \subseteq Fickle
      BY <1>2, <3>1, <3>2 DEF IInv
    <3> QED
      BY <3>5, <3>6, <3>7, <3>8, <3>9, OneClientKeeps
  <2>4. CASE ~IsChange(r0, c, i0)
    <3> DEFINE new == <<b0>> \o list
               more == addRegexpToDictionary(dict, r0, c, i0)
    <3>1. dict' = more /\ srcRegList' = [srcRegList EXCEPT ![c] = new]
      BY <2>1, <2>4 DEF addOrChangeRegexp, addRegexp
    <3>2. /\ Table(more)
          /\ \A c1, i1, r1 : Serves(more, c1, i1, r1) <=>
                Serves(dict, c1, i1, r1) \/ (c1 = c /\ i1 = i0 /\ r1 = r0)
          /\ \A c1 : Once(dict, c1) /\ (c1 # c \/ ~Serves(dict, c, i0, r0)) => Once(more, c1)
      BY <1>3, <1>4, Added
    <3> HIDE DEF more
    <3>3. /\ new \in Seq(Binding)
          /\ ToSet(new) = ToSet(list) \cup {b0}
      BY <1>3, <1>4, EndsOfLonger
    <3>4. b0.id = i0 /\ b0.regexp = r0
      OBVIOUS
    <3>5. ASSUME Distinct(list), \A b \in ToSet(list) : b.id # i0
          PROVE  Distinct(new)
      <4> HIDE DEF b0
      <4>1. /\ Len(list) \in Nat /\ DOMAIN new = 1..(Len(list) + 1) /\ DOMAIN list = 1..Len(list)
            /\ new[1] = b0
            /\ \A k \in 2..(Len(list) + 1) : new[k] = list[k - 1] /\ k - 1 \in DOMAIN list
        BY <1>3, <1>4
      <4> HIDE DEF new
      <4>2. \A k \in 2..(Len(list) + 1) : new[k].id # i0
        BY <3>5, <4>1 DEF ToSet
      <4> SUFFICES ASSUME NEW k \in DOMAIN new, NEW l \in DOMAIN new, new[k].id = new[l].id
                   PROVE  k = l
        BY DEF Distinct
      <4>3. CASE k = 1 \/ l = 1
        BY <3>4, <4>1, <4>2, <4>3
      <4>4. CASE k # 1 /\ l # 1
        <5>1. /\ k - 1 \in DOMAIN list /\ l - 1 \in DOMAIN list
              /\ list[k - 1].id = list[l - 1].id
          BY <4>1, <4>4
        <5>2. k - 1 = l - 1
          BY <3>5, <5>1, Zenon DEF Distinct
        <5> QED
          BY <4>1, <5>2
      <4> QED
        BY <4>3, <4>4
    <3> HIDE DEF new, b0
    <3>6. /\ srcRegList' \in [Client -> Seq(Binding)] /\ srcRegList'[c] = new
          /\ \A d \in Client \ {c} : srcRegList'[d] = srcRegList[d]
      BY <1>3, <3>1, <3>3
    <3>7. Typed'
      BY <1>2, <3>6, Zenon DEF IInv, Typed
    <3>8. \A d \in Client \ {c} : Same(d) /\ SameServed(d)
      BY <1>2, <3>1, <3>2, <3>6 DEF Same, SameServed
    <3>9. Served1(c)'
      <4>1. \A b \in ToSet(list) : Serves(dict, c, b.id, b.regexp)
        BY DEF IInv, Served1
      <4>2. \A b \in ToSet(new) : Serves(dict', c, b.id, b.regexp)
        BY <3>1, <3>2, <3>3, <3>4, <4>1
      <4>3. link'[c] # "down"
        BY <1>2
      <4> QED
        BY <3>6, <4>2, <4>3, Zenon DEF Served1
    <3>10. ASSUME c \in Steady
           PROVE  Steady1(c)'
      <4>1. /\ Steady1(c)
            /\ \A b \in ToSet(list) : b.id # i0
            /\ ~Serves(dict, c, i0, r0)
        BY <2>2, <3>10
      <4>2. /\ Distinct(list) /\ Once(dict, c)
            /\ \A i \in Id, r \in Regexp :
                  Serves(dict, c, i, r) => [id |-> i, regexp |-> r] \in ToSet(list)
        BY <4>1, Zenon DEF Steady1
      <4>3. Distinct(new) /\ Once(dict', c)
        BY <3>1, <3>2, <3>5, <4>1, <4>2
      <4>4. \A i \in Id, r \in Regexp :
               Serves(dict', c, i, r) => [id |-> i, regexp |-> r] \in ToSet(new)
        BY <3>1, <3>2, <3>3, <4>2 DEF b0
      <4>5. \A b \in Binding : b \in ToSet(new) <=>
               \/ b \in ToSet(list) /\ f # Frame("DelRegexp", b.id, NoRegexp)
               \/ b.regexp \notin Filtered /\ f = Frame("AddRegexp", b.id, b.regexp)
        BY <1>5, <2>1, <3>3, <3>4
      <4> QED
        BY <1>1, <1>2, <3>3, <3>6, <3>10, <4>3, <4>4, <4>5, ReadKeepsSteady DEF f
    <3>11. Table(dict') /\ freed' \subseteq Fickle
      BY <1>2, <3>1, <3>2 DEF IInv
    <3> QED
      BY <3>7, <3>8, <3>9, <3>10, <3>11, OneClientKeeps
  <2> QED
    BY <2>3, <2>4
<1> QED
  BY <1>6, <1>7

(* The channel is gone, and everything of the client. *)
LEMMA KeepsDelete ==
    ASSUME IInv, NEW c \in Client, ClientDelete(c)
    PROVE  IInv'
<1> DEFINE list == srcRegList[c]
           less == delOneClientFromEveryEntry(delFromDictionary(dict, list, c, Id, id[c]), c)
<1>1. /\ Typed /\ Table(dict) /\ list \in Seq(Binding)
      /\ link[c] = "closed" /\ delOneClient(c)
  BY DEF IInv, Typed, ClientDelete
<1>2. /\ link' = [link EXCEPT ![c] = "down"] /\ id' = [id EXCEPT ![c] = 0]
      /\ srcRegList' = [srcRegList EXCEPT ![c] = <<>>]
      /\ dict' = less
      /\ frames' = frames /\ msg_recv' = msg_recv /\ recv_id' = recv_id
      /\ msgs' = msgs /\ calls' = calls
  BY DEF ClientDelete, delOneClient, subscriber
<1>3. /\ Table(less)
      /\ \A c1, i1, r1 : Serves(less, c1, i1, r1) <=> Serves(dict, c1, i1, r1) /\ c1 # c
      /\ \A c1 : Once(dict, c1) => Once(less, c1)
  BY <1>1, ClientDropped
<1> HIDE DEF less
<1>4. freed' \subseteq Fickle
  <2>1. freed \subseteq Fickle
    BY DEF IInv
  <2>2. freed' = freed \/ (freed' = freed \cup {c} /\ ReadsFreed(list))
    BY <1>1 DEF delOneClient
  <2>3. ReadsFreed(list) => c \in Fickle
    <3>1. c \in Steady => Distinct(list)
      BY DEF IInv, Steady1
    <3>2. Distinct(list) => ~ReadsFreed(list)
      BY <1>1, WalkReadsNoFreed
    <3> QED
      BY <3>1, <3>2 DEF Steady
  <2> QED
    BY <2>1, <2>2, <2>3
<1>5. Typed'
  <2>1. link' \in [Client -> {"down", "up", "left", "closed"}]
    BY <1>1, <1>2 DEF Typed
  <2>2. srcRegList' \in [Client -> Seq(Binding)]
    BY <1>1, <1>2 DEF Typed
  <2>3. id' \in [Client -> Id]
    BY <1>1, <1>2, DictAssumption DEF Typed, Id
  <2> QED
    BY <1>1, <1>2, <2>1, <2>2, <2>3, Zenon DEF Typed
<1>6. /\ link'[c] = "down" /\ srcRegList'[c] = <<>>
      /\ \A d \in Client \ {c} : link'[d] = link[d] /\ srcRegList'[d] = srcRegList[d]
  BY <1>1, <1>2 DEF Typed
<1>7. \A d \in Client \ {c} : Same(d) /\ SameServed(d)
  BY <1>2, <1>3, <1>6 DEF Same, SameServed
<1>8. \A i, r : ~Serves(dict', c, i, r)
  BY <1>2, <1>3
<1>9. ToSet(<<>>) = {}
  BY DEF ToSet
<1>10. Served1(c)'
  BY <1>6, <1>8, <1>9, Zenon DEF Served1
<1>11. ASSUME c \in Steady
       PROVE  Steady1(c)'
  <2>1. Steady1(c)
    BY <1>11 DEF IInv
  <2>2. Once(dict', c)
    BY <1>2, <1>3, <2>1 DEF Steady1
  <2>3. link'[c] \notin {"up", "left"} /\ link'[c] # "up"
    BY <1>6
  <2> QED
    BY <1>2, <1>6, <1>8, <2>1, <2>2, <2>3, NothingKnown, Zenon DEF Steady1
<1> QED
  BY <1>2, <1>3, <1>4, <1>5, <1>7, <1>10, <1>11, OneClientKeeps

(* What is sent to the client c: bindings that the table names. *)
LEMMA SentIsServed ==
    ASSUME Table(dict), NEW c \in Client, NEW entry \in ToSet(dict)
    PROVE  Sent(entry, c) \in Seq({b \in Binding : Serves(dict, c, b.id, b.regexp)})
<1> DEFINE wanted == {b \in Binding : Serves(dict, c, b.id, b.regexp)}
           others == [client : Client \ {c}, id : Id]
           list == entry.clientList
           mine == Without(list, others)
           sent == [k \in DOMAIN mine |-> [id |-> mine[k].id, regexp |-> entry.regexp]]
<1>1. PICK n \in DOMAIN dict : dict[n] = entry
  BY DEF ToSet
<1>2. entry \in Bound
  BY <1>1 DEF Table
<1>3. list \in Seq(Entry) /\ entry.regexp \in Regexp
  BY <1>2 DEF Bound
<1> HIDE DEF list, others
<1>4. mine \in Seq(Entry) /\ ToSet(mine) = ToSet(list) \ others
  BY <1>3, WithoutProperties
<1> HIDE DEF mine
<1>5. /\ DOMAIN mine = 1..Len(mine) /\ Len(mine) \in Nat
      /\ \A k \in DOMAIN mine : mine[k] \in Entry /\ mine[k] \in ToSet(list) /\ mine[k] \notin others
  <2>1. DOMAIN mine = 1..Len(mine) /\ Len(mine) \in Nat /\ \A k \in DOMAIN mine : mine[k] \in Entry
    BY <1>4
  <2>2. \A k \in DOMAIN mine : mine[k] \in ToSet(mine)
    BY DEF ToSet
  <2> QED
    BY <1>4, <2>1, <2>2
<1>6. \A e \in Entry : e \notin others => e.client = c /\ e.id \in Id /\ e = [client |-> c, id |-> e.id]
  BY DEF Entry, others
<1>7. ASSUME NEW k \in DOMAIN mine
      PROVE  [id |-> mine[k].id, regexp |-> entry.regexp] \in wanted
  <2> DEFINE b == [id |-> mine[k].id, regexp |-> entry.regexp]
  <2>1. mine[k].id \in Id /\ mine[k] = [client |-> c, id |-> mine[k].id]
    BY <1>5, <1>6
  <2>2. b \in Binding /\ b.id = mine[k].id /\ b.regexp = entry.regexp
    BY <1>3, <2>1 DEF Binding
  <2>3. [client |-> c, id |-> mine[k].id] \in ToSet(dict[n].clientList)
    BY <1>1, <1>5, <2>1 DEF list
  <2>4. Serves(dict, c, mine[k].id, entry.regexp)
    BY <1>1, <2>3 DEF Serves
  <2> HIDE DEF b
  <2>5. b \in wanted
    BY <2>2, <2>4
  <2> QED
    BY <2>5 DEF b
<1>8. sent = [k \in 1..Len(mine) |-> sent[k]] /\ \A k \in 1..Len(mine) : sent[k] \in wanted
  BY <1>5, <1>7
<1> HIDE DEF sent, wanted
<1>9. sent \in Seq(wanted)
  BY ONLY <1>5, <1>8
<1>10. Sent(entry, c) = sent
  BY DEF Sent, sent, mine, others, list
<1> QED
  BY <1>9, <1>10 DEF wanted

(* So is all that one IvySendMsg() sends to the client c.                  *)
LEMMA AllSentIsServed ==
    ASSUME Table(dict), NEW c \in Client, NEW gone
    PROVE  LET matched == Without(dict, gone)
           IN  FlattenSeq([k \in DOMAIN matched |-> Sent(matched[k], c)])
                  \in Seq({b \in Binding : Serves(dict, c, b.id, b.regexp)})
<1> DEFINE wanted == {b \in Binding : Serves(dict, c, b.id, b.regexp)}
           matched == Without(dict, gone)
           lists == [k \in DOMAIN matched |-> Sent(matched[k], c)]
<1>1. dict \in Seq(Bound)
  BY DEF Table
<1>2. matched \in Seq(Bound) /\ ToSet(matched) = ToSet(dict) \ gone
  BY <1>1, WithoutProperties
<1> HIDE DEF matched
<1>3. DOMAIN matched = 1..Len(matched) /\ Len(matched) \in Nat
  BY <1>2
<1>4. \A k \in DOMAIN matched : matched[k] \in ToSet(dict)
  BY <1>2 DEF ToSet
<1> HIDE DEF wanted
<1>5. \A k \in DOMAIN matched : Sent(matched[k], c) \in Seq(wanted)
  BY <1>4, SentIsServed DEF wanted
<1>6. lists = [k \in 1..Len(matched) |-> lists[k]] /\ \A k \in 1..Len(matched) : lists[k] \in Seq(wanted)
  BY <1>3, <1>5
<1> HIDE DEF lists
<1>7. lists \in Seq(Seq(wanted))
  BY ONLY <1>3, <1>6
<1>8. FlattenSeq(lists) \in Seq(wanted)
  BY <1>7, FlattenProperties
<1> QED
  BY <1>8 DEF lists, matched, wanted

(* Messages leave for what is served, and what is served to a client that  *)
(* never changes an expression is known to it.                             *)
LEMMA KeepsSend ==
    ASSUME IInv, NEW m \in Message, IvySendMsg(m)
    PROVE  IInv'
<1> DEFINE gone == {entry \in ToSet(dict) : ~IvyBindingExec(entry.regexp, m)}
           matched == Without(dict, gone)
           flat(c) == FlattenSeq([k \in DOMAIN matched |-> Sent(matched[k], c)])
           wanted(c) == {b \in Binding : Serves(dict, c, b.id, b.regexp)}
<1>1. Typed /\ Table(dict) /\ msgs \in [Client -> Seq(Binding)] /\ freed \subseteq Fickle
  BY DEF IInv, Typed
<1>2. /\ msgs' = [c \in Client |-> IF link[c] # "up" THEN msgs[c] ELSE msgs[c] \o flat(c)]
      /\ msg_recv' = msg_recv /\ recv_id' = recv_id /\ link' = link /\ frames' = frames
      /\ srcRegList' = srcRegList /\ dict' = dict /\ freed' = freed /\ id' = id /\ calls' = calls
  BY DEF IvySendMsg, subscriber, publisher
<1> HIDE DEF gone
<1>3. \A c \in Client : flat(c) \in Seq(wanted(c))
  BY <1>1, AllSentIsServed
<1> HIDE DEF matched, flat
<1>4. ASSUME NEW c \in Client
      PROVE  /\ msgs'[c] \in Seq(Binding)
             /\ \A b \in ToSet(msgs'[c]) :
                   b \in ToSet(msgs[c]) \/ (link[c] = "up" /\ b \in wanted(c))
  <2>1. CASE link[c] # "up"
    BY <1>1, <1>2, <2>1
  <2>2. CASE link[c] = "up"
    <3> DEFINE old == msgs[c]
               end == flat(c)
               new == old \o end
    <3>1. old \in Seq(Binding) /\ end \in Seq(wanted(c)) /\ wanted(c) \subseteq Binding
      BY <1>1, <1>3
    <3>2. msgs'[c] = new
      BY <1>2, <2>2
    <3> HIDE DEF old, end, wanted
    <3>3. end \in Seq(Binding)
      BY <3>1
    <3>4. new \in Seq(Binding)
      BY ONLY <3>1, <3>3
    <3>5. /\ DOMAIN new = 1..(Len(old) + Len(end)) /\ Len(old) \in Nat /\ Len(end) \in Nat
          /\ \A k \in 1..Len(old) : new[k] = old[k] /\ k \in DOMAIN old
          /\ \A k \in (Len(old) + 1)..(Len(old) + Len(end)) :
                new[k] = end[k - Len(old)] /\ end[k - Len(old)] \in wanted(c)
      BY ONLY <3>1
    <3>6. \A k \in DOMAIN new : new[k] \in ToSet(old) \/ new[k] \in wanted(c)
      BY <3>5 DEF ToSet
    <3>7. \A b \in ToSet(new) : b \in ToSet(old) \/ b \in wanted(c)
      BY <3>6 DEF ToSet
    <3> QED
      BY <2>2, <3>2, <3>4, <3>7 DEF old, wanted
  <2> QED
    BY <2>1, <2>2
<1>5. Typed'
  <2>1. msgs' = [c \in Client |-> msgs'[c]]
    BY <1>2
  <2>2. msgs' \in [Client -> Seq(Binding)]
    BY <1>4, <2>1
  <2> QED
    BY <1>1, <1>2, <2>2, Zenon DEF Typed
<1>6. \A c \in Client : Served1(c)'
  BY <1>2, Zenon DEF IInv, Served1
<1>7. ASSUME NEW c \in Steady
      PROVE  Steady1(c)'
  <2>1. Steady1(c) /\ c \in Client
    BY DEF IInv, Steady
  <2>2. Known(msg_recv[c], recv_id[c], msgs[c])
    BY <2>1, Zenon DEF Steady1
  <2>3. ASSUME link[c] = "up", NEW b \in wanted(c)
        PROVE  Given(msg_recv[c], recv_id[c], b.id, b.regexp)
    <3>1. b \in Binding /\ Serves(dict, c, b.id, b.regexp)
      BY <2>3
    <3>2. b.id \in Id /\ b.regexp \in Regexp /\ [id |-> b.id, regexp |-> b.regexp] = b
      BY <3>1 DEF Binding
    <3>3. b \in ToSet(srcRegList[c])
      BY <2>1, <3>1, <3>2 DEF Steady1
    <3>4. Known(msg_recv[c], recv_id[c], srcRegList[c])
      BY <2>1, <2>3, Zenon DEF Steady1
    <3> QED
      BY <3>3, <3>4 DEF Known
  <2>4. Known(msg_recv[c], recv_id[c], msgs'[c])
    BY <1>4, <2>1, <2>2, <2>3 DEF Known
  <2> QED
    BY <1>2, <2>1, <2>4, Zenon DEF Steady1
<1> QED
  BY <1>1, <1>2, <1>5, <1>6, <1>7, Zenon DEF IInv

-----------------------------------------------------------------------------
(* The invariant *)

LEMMA NextKeeps == IInv /\ [Next]_vars => IInv'
<1> SUFFICES ASSUME IInv, [Next]_vars
             PROVE  IInv'
  OBVIOUS
<1>1. CASE UNCHANGED vars
  BY <1>1, Zenon DEF IInv, Typed, Table, Served1, Steady1, vars, subscriber, publisher
<1>2. ASSUME NEW c \in Client, NEW r \in Regexp, IvyBindMsg(c, r)
      PROVE  IInv'
  BY <1>2, KeepsBind
<1>3. ASSUME NEW c \in Client, NEW k \in DOMAIN msg_recv[c],
             IvyUnbindMsg(c, k) \/ \E r \in Regexp : IvyChangeMsg(c, k, r)
      PROVE  IInv'
  BY <1>3, KeepsUnbind, KeepsChange
<1>4. ASSUME NEW c \in Client, SendService(c) \/ Leave(c) \/ ReceiveMsg(c)
      PROVE  IInv'
  BY <1>4, KeepsService, KeepsLeave, KeepsMsgRead
<1>5. ASSUME NEW c \in Client, Listen(c)
      PROVE  IInv'
  BY <1>5, KeepsAdd, KeepsDel, KeepsEnd, KeepsBye, KeepsEndOfFile, KeepsDelete DEF Listen
<1>6. ASSUME NEW m \in Message, IvySendMsg(m)
      PROVE  IInv'
  BY <1>6, KeepsSend
<1> QED
  BY <1>1, <1>2, <1>3, <1>4, <1>5, <1>6, Zenon DEF Next

(* The invariant holds at any time, whatever the subscribers bind, unbind  *)
(* and change, and whenever they leave (ivy.c:1545-1950).                  *)
THEOREM Invariance == Spec => []IInv
<1>1. Init => IInv
  BY InitKeeps
<1>2. IInv /\ [Next]_vars => IInv'
  BY NextKeeps
<1> QED
  BY <1>1, <1>2, PTL DEF Spec

-----------------------------------------------------------------------------
(* The properties *)

(* Served, of any table: what Serves() says. *)
ServedBy(d) ==
    UNION {{<<e.client, e.id, entry.regexp>> : e \in ToSet(entry.clientList)} : entry \in ToSet(d)}

(* Its elements are the triples of Serves().                               *)
LEMMA ServedByTable ==
    ASSUME NEW d, Table(d)
    PROVE  /\ \A c, i, r : <<c, i, r>> \in ServedBy(d) <=> Serves(d, c, i, r)
           /\ \A s \in ServedBy(d) : /\ s = <<s[1], s[2], s[3]>>
                                /\ s[1] \in Client /\ s[2] \in Id /\ s[3] \in Regexp
<1>1. \A k \in DOMAIN d : d[k].clientList \in Seq(Entry) /\ d[k].regexp \in Regexp
  <2>1. \A k \in DOMAIN d : d[k] \in Bound
    BY DEF Table
  <2> QED
    BY <2>1 DEF Bound
<1>2. \A k \in DOMAIN d : \A e \in ToSet(d[k].clientList) :
         e.client \in Client /\ e.id \in Id /\ e = [client |-> e.client, id |-> e.id]
  <2>1. \A k \in DOMAIN d : \A e \in ToSet(d[k].clientList) : e \in Entry
    BY <1>1 DEF ToSet
  <2> QED
    BY <2>1 DEF Entry
<1>3. \A s : s \in ServedBy(d) <=>
         \E k \in DOMAIN d : \E e \in ToSet(d[k].clientList) :
            s = <<e.client, e.id, d[k].regexp>>
  BY DEF ServedBy, ToSet
<1>4. ASSUME NEW c, NEW i, NEW r, <<c, i, r>> \in ServedBy(d)
      PROVE  Serves(d, c, i, r)
  <2>0. PICK k \in DOMAIN d : \E e \in ToSet(d[k].clientList) :
           <<c, i, r>> = <<e.client, e.id, d[k].regexp>>
    BY <1>3, <1>4
  <2>1. PICK e \in ToSet(d[k].clientList) : <<c, i, r>> = <<e.client, e.id, d[k].regexp>>
    BY <2>0
  <2>2. c = e.client /\ i = e.id /\ r = d[k].regexp
    BY <2>1
  <2>3. e = [client |-> c, id |-> i]
    BY <1>2, <2>2
  <2> QED
    BY <2>2, <2>3 DEF Serves
<1>5. ASSUME NEW c, NEW i, NEW r, Serves(d, c, i, r)
      PROVE  <<c, i, r>> \in ServedBy(d)
  <2>1. PICK k \in DOMAIN d :
           d[k].regexp = r /\ [client |-> c, id |-> i] \in ToSet(d[k].clientList)
    BY <1>5 DEF Serves
  <2>2. [client |-> c, id |-> i].client = c /\ [client |-> c, id |-> i].id = i
    OBVIOUS
  <2> QED
    BY <1>3, <2>1, <2>2
<1>6. ASSUME NEW s \in ServedBy(d)
      PROVE  /\ s = <<s[1], s[2], s[3]>>
             /\ s[1] \in Client /\ s[2] \in Id /\ s[3] \in Regexp
  <2>0. PICK k \in DOMAIN d : \E e \in ToSet(d[k].clientList) :
           s = <<e.client, e.id, d[k].regexp>>
    BY <1>3
  <2>1. PICK e \in ToSet(d[k].clientList) : s = <<e.client, e.id, d[k].regexp>>
    BY <2>0
  <2>2. s[1] = e.client /\ s[2] = e.id /\ s[3] = d[k].regexp
    BY <2>1
  <2> QED
    BY <1>1, <1>2, <2>1, <2>2
<1> QED
  BY <1>4, <1>5, <1>6

(* The table of expressions and the lists of the clients agree, whatever   *)
(* the clients bind, change, give up, and whenever they leave              *)
(* (ivy.c:1545-1950).                                                      *)
THEOREM TableAgrees == Spec => []DictionaryAgrees
<1>1. IInv => DictionaryAgrees
  <2> SUFFICES ASSUME IInv
               PROVE  DictionaryAgrees
    OBVIOUS
  <2>1. Typed /\ Table(dict) /\ \A c \in Client : Served1(c)
    BY DEF IInv
  <2>2. Served = ServedBy(dict)
    BY DEF Served, ServedBy
  <2>3. TypeOK
    <3>1. \A k \in DOMAIN dict : dict[k] \in Bound
      BY <2>1 DEF Table
    <3>2. \A k \in DOMAIN dict : dict[k].regexp \in Regexp /\ dict[k].clientList \in Seq(Entry)
      BY <3>1 DEF Bound
    <3> QED
      BY <2>1, <3>2 DEF TypeOK, Typed, Entry
  <2>4. KeysAreWanted
    BY <2>1, Zenon DEF KeysAreWanted, Table
  <2>5. GoneIsForgotten
    <3> SUFFICES ASSUME NEW s \in Served
                 PROVE  link[s[1]] # "down"
      BY DEF GoneIsForgotten
    <3>1. Serves(dict, s[1], s[2], s[3]) /\ s[1] \in Client /\ s[2] \in Id /\ s[3] \in Regexp
      BY <2>1, <2>2, ServedByTable
    <3> QED
      BY <2>1, <3>1, Zenon DEF Served1
  <2>6. ListedIsServed
    <3>1. \A c, i, r : <<c, i, r>> \in Served <=> Serves(dict, c, i, r)
      BY <2>1, <2>2, ServedByTable
    <3> QED
      BY <2>1, <3>1, Zenon DEF ListedIsServed, Served1
  <2> QED
    BY <2>3, <2>4, <2>5, <2>6 DEF DictionaryAgrees
<1> QED
  BY <1>1, Invariance, PTL

(* A subscriber that never changes an expression and its publisher never   *)
(* come apart, and the publisher has no entry of it twice                  *)
(* (SendService:759, IvyBindMsg:1168, IvyUnbindMsg:1153).                  *)
THEOREM EndsNeverPart == Spec => []EndsAgree
<1>1. IInv => EndsAgree
  <2> SUFFICES ASSUME IInv, NEW c \in Steady, link[c] = "up"
               PROVE  /\ Held(c) = {b \in ToSet(msg_recv[c]) : b.regexp \notin Filtered}
                      /\ IsInjective(srcRegList[c])
                      /\ \A k \in DOMAIN dict : \A i, j \in DOMAIN dict[k].clientList :
                            LET list == dict[k].clientList
                            IN  list[i] = list[j] /\ list[i].client = c => i = j
    BY DEF EndsAgree
  <2>1. /\ Steady1(c) /\ c \in Client
        /\ srcRegList[c] \in Seq(Binding) /\ msg_recv[c] \in Seq(Binding)
    BY DEF IInv, Steady, Typed
  <2>2. /\ Distinct(srcRegList[c]) /\ Once(dict, c)
        /\ \A b \in Binding : Holds(srcRegList[c], frames[c], b) <=>
              b \in ToSet(msg_recv[c]) /\ b.regexp \notin Filtered
    BY <2>1, Zenon DEF Steady1
  <2>3. \A b \in Binding : b \in Held(c) <=> Holds(srcRegList[c], frames[c], b)
    BY DEF Held, Holds, Kept, Stays
  <2>4. /\ \A b \in ToSet(msg_recv[c]) : b \in Binding
        /\ \A b \in Held(c) : b \in Binding
    BY <2>1, BindingsTyped DEF Held
  <2>5. Held(c) = {b \in ToSet(msg_recv[c]) : b.regexp \notin Filtered}
    BY <2>2, <2>3, <2>4
  <2>6. IsInjective(srcRegList[c])
    BY <2>2 DEF IsInjective, Distinct
  <2> QED
    BY <2>2, <2>5, <2>6 DEF Once
<1> QED
  BY <1>1, Invariance, PTL

(* A message that was sent for a binding its subscriber has given up since *)
(* calls no other one (Receive:672-695, recv_id:1173).                     *)
THEOREM LateMessagesDropped == Spec => []LateMessageIsDropped
<1>1. IInv => LateMessageIsDropped
  BY DEF IInv, Steady1, Known, Given, LateMessageIsDropped, Called
<1> QED
  BY <1>1, Invariance, PTL

(* The walk of delOneClient() reads freed memory only for a client that    *)
(* changed an expression (ivy.c:1789-1799).                                *)
THEOREM FreedReadsExplained == Spec => []FreedOnlyAfterChange
<1>1. IInv => FreedOnlyAfterChange
  BY DEF IInv, FreedOnlyAfterChange
<1> QED
  BY <1>1, Invariance, PTL

-----------------------------------------------------------------------------
(* The refinement of Subscriptions *)

Promised(d) == {s \in ServedBy(d) : s[1] \in Steady}

(* What the table serves to whom decides what is promised. *)
LEMMA PromisedByTable ==
    ASSUME NEW d, Table(d)
    PROVE  /\ \A c, i, r : <<c, i, r>> \in Promised(d) <=> c \in Steady /\ Serves(d, c, i, r)
           /\ \A s \in Promised(d) : /\ s = <<s[1], s[2], s[3]>>
                                     /\ s[1] \in Steady /\ s[2] \in Id /\ s[3] \in Regexp
<1>1. /\ \A c, i, r : <<c, i, r>> \in ServedBy(d) <=> Serves(d, c, i, r)
      /\ \A s \in ServedBy(d) : s = <<s[1], s[2], s[3]>> /\ s[2] \in Id /\ s[3] \in Regexp
  BY ServedByTable
<1>2. \A c, i, r : <<c, i, r>>[1] = c
  OBVIOUS
<1> QED
  BY <1>1, <1>2 DEF Promised

(* The same, of one element.                                               *)
LEMMA PromisedMember ==
    ASSUME NEW d, Table(d), NEW s
    PROVE  s \in Promised(d) <=>
              s = <<s[1], s[2], s[3]>> /\ s[1] \in Steady /\ Serves(d, s[1], s[2], s[3])
<1> DEFINE t == <<s[1], s[2], s[3]>>
<1>1. t \in Promised(d) <=> s[1] \in Steady /\ Serves(d, s[1], s[2], s[3])
  BY PromisedByTable
<1>2. s \in Promised(d) => s = t
  BY PromisedByTable
<1> HIDE DEF t
<1>3. s \in Promised(d) <=> s = t /\ s[1] \in Steady /\ Serves(d, s[1], s[2], s[3])
  BY <1>1, <1>2
<1> QED
  BY <1>3 DEF t

(* Nothing changes for the clients that never change an expression. *)
LEMMA PromiseStutters ==
    ASSUME NEW d, NEW new, Table(d), Table(new),
           \A c \in Steady : \A i, r : Serves(new, c, i, r) <=> Serves(d, c, i, r)
    PROVE  Promised(new) = Promised(d)
<1>1. \A s : s \in Promised(new) => s \in Promised(d)
  BY PromisedMember
<1>2. \A s : s \in Promised(d) => s \in Promised(new)
  BY PromisedMember
<1> QED
  BY <1>1, <1>2

(* One more is promised, *)
LEMMA PromiseGrows ==
    ASSUME NEW d, NEW new, Table(d), Table(new), NEW c0 \in Steady, NEW i0, NEW r0,
           \A c, i, r : Serves(new, c, i, r) <=>
              Serves(d, c, i, r) \/ (c = c0 /\ i = i0 /\ r = r0)
    PROVE  Promised(new) = Promised(d) \cup {<<c0, i0, r0>>}
<1>1. \A s : s \in Promised(new) => s \in Promised(d) \cup {<<c0, i0, r0>>}
  <2> SUFFICES ASSUME NEW s \in Promised(new)
               PROVE  s \in Promised(d) \cup {<<c0, i0, r0>>}
    OBVIOUS
  <2>1. s = <<s[1], s[2], s[3]>> /\ s[1] \in Steady /\ Serves(new, s[1], s[2], s[3])
    BY PromisedMember
  <2> QED
    BY <2>1, PromisedMember
<1>2. \A s : s \in Promised(d) => s \in Promised(new)
  <2> SUFFICES ASSUME NEW s \in Promised(d)
               PROVE  s \in Promised(new)
    OBVIOUS
  <2>1. s = <<s[1], s[2], s[3]>> /\ s[1] \in Steady /\ Serves(d, s[1], s[2], s[3])
    BY PromisedMember
  <2> QED
    BY <2>1, PromisedMember
<1>3. <<c0, i0, r0>> \in Promised(new)
  BY PromisedByTable
<1> QED
  BY <1>1, <1>2, <1>3

(* one less, *)
LEMMA PromiseShrinks ==
    ASSUME NEW d, NEW new, Table(d), Table(new), NEW c0 \in Steady, NEW i0, NEW r0,
           \A c, i, r : Serves(new, c, i, r) <=>
              Serves(d, c, i, r) /\ ~(c = c0 /\ i = i0 /\ r = r0)
    PROVE  Promised(new) = Promised(d) \ {<<c0, i0, r0>>}
<1>1. ASSUME NEW c, NEW i, NEW r
      PROVE  <<c, i, r>> = <<c0, i0, r0>> <=> c = c0 /\ i = i0 /\ r = r0
  OBVIOUS
<1>2. \A s : s \in Promised(new) => s \in Promised(d) \ {<<c0, i0, r0>>}
  <2> SUFFICES ASSUME NEW s \in Promised(new)
               PROVE  s \in Promised(d) \ {<<c0, i0, r0>>}
    OBVIOUS
  <2>1. s = <<s[1], s[2], s[3]>> /\ s[1] \in Steady /\ Serves(new, s[1], s[2], s[3])
    BY PromisedMember
  <2>2. s \in Promised(d)
    BY <2>1, PromisedMember
  <2> QED
    BY <1>1, <2>1, <2>2
<1>3. \A s : s \in Promised(d) \ {<<c0, i0, r0>>} => s \in Promised(new)
  <2> SUFFICES ASSUME NEW s \in Promised(d), s # <<c0, i0, r0>>
               PROVE  s \in Promised(new)
    OBVIOUS
  <2>1. s = <<s[1], s[2], s[3]>> /\ s[1] \in Steady /\ Serves(d, s[1], s[2], s[3])
    BY PromisedMember
  <2>2. Serves(new, s[1], s[2], s[3])
    BY <1>1, <2>1
  <2> QED
    BY <2>1, <2>2, PromisedMember
<1> QED
  BY <1>2, <1>3

(* or nothing any more to one client. *)
LEMMA PromiseEnds ==
    ASSUME NEW d, NEW new, Table(d), Table(new), NEW c0 \in Steady,
           \A c, i, r : Serves(new, c, i, r) <=> Serves(d, c, i, r) /\ c # c0
    PROVE  Promised(new) = Promised(d) \ {s \in Promised(d) : s[1] = c0}
<1>1. \A s : s \in Promised(new) => s \in Promised(d) /\ s[1] # c0
  <2> SUFFICES ASSUME NEW s \in Promised(new)
               PROVE  s \in Promised(d) /\ s[1] # c0
    OBVIOUS
  <2>1. s = <<s[1], s[2], s[3]>> /\ s[1] \in Steady /\ Serves(new, s[1], s[2], s[3])
    BY PromisedMember
  <2> QED
    BY <2>1, PromisedMember
<1>2. \A s : s \in Promised(d) /\ s[1] # c0 => s \in Promised(new)
  <2> SUFFICES ASSUME NEW s \in Promised(d), s[1] # c0
               PROVE  s \in Promised(new)
    OBVIOUS
  <2>1. s = <<s[1], s[2], s[3]>> /\ s[1] \in Steady /\ Serves(d, s[1], s[2], s[3])
    BY PromisedMember
  <2> QED
    BY <2>1, PromisedMember
<1> QED
  BY <1>1, <1>2

(* A binding that comes is a subscription, or changes one.                 *)
LEMMA AddSubscribes ==
    ASSUME IInv, Table(dict'), NEW c \in Client, ReceiveAdd(c)
    PROVE  \/ Promised(dict') = Promised(dict)
           \/ \E i \in Id, r \in Regexp :
                 /\ c \in Steady
                 /\ \A s \in Promised(dict) : s[1] = c => s[2] # i
                 /\ Promised(dict') = Promised(dict) \cup {<<c, i, r>>}
<1> DEFINE f == Head(frames[c])
           i0 == f.id
           r0 == f.regexp
           list == srcRegList[c]
<1>1. Receive(c, "AddRegexp") /\ Table(dict)
  BY DEF ReceiveAdd, IInv
<1>2. /\ f \in AnyFrame /\ f.type = "AddRegexp" /\ link[c] \in {"up", "left"}
      /\ frames[c] \in Seq(AnyFrame) /\ frames[c] # <<>>
  BY <1>1, FrameRead
<1>3. i0 \in Id /\ r0 \in Regexp
  BY <1>2 DEF AnyFrame, AddFrame, OtherFrame
<1>4. 1 \in DOMAIN frames[c] /\ frames[c][1] = f
  BY <1>2
<1>5. CASE ~Accepted(r0)
  <2>1. dict' = dict
    BY <1>5 DEF ReceiveAdd
  <2> QED
    BY <2>1
<1>6. CASE Accepted(r0)
  <2>1. addOrChangeRegexp(r0, c, i0)
    BY <1>6 DEF ReceiveAdd
  <2> HIDE DEF f, i0, r0
  <2>2. CASE IsChange(r0, c, i0)
    <3> DEFINE more == changeRegexpInDictionary(dict, r0, c, i0)
    <3>1. dict' = more
      BY <2>1, <2>2 DEF addOrChangeRegexp, changeRegexp
    <3>2. \A c1, i1, r1 : Serves(more, c1, i1, r1) <=>
             Serves(dict, c1, i1, r1) \/ (c1 = c /\ i1 = i0 /\ r1 = r0)
      BY <1>1, <1>3, Changed
    <3> HIDE DEF more
    <3>3. Serves(dict, c, i0, r0)
      <4>1. PICK k \in DOMAIN dict :
               /\ dict[k].regexp = r0
               /\ \E j \in DOMAIN dict[k].clientList :
                     dict[k].clientList[j] = [client |-> c, id |-> i0]
        BY <2>2 DEF IsChange
      <4>2. [client |-> c, id |-> i0] \in ToSet(dict[k].clientList)
        BY <4>1 DEF ToSet
      <4> QED
        BY <4>1, <4>2 DEF Serves
    <3>4. \A c1, i1, r1 : Serves(dict', c1, i1, r1) <=> Serves(dict, c1, i1, r1)
      BY <3>1, <3>2, <3>3
    <3> QED
      BY <1>1, <3>4, PromiseStutters
  <2>3. CASE ~IsChange(r0, c, i0)
    <3> DEFINE more == addRegexpToDictionary(dict, r0, c, i0)
    <3>1. dict' = more
      BY <2>1, <2>3 DEF addOrChangeRegexp, addRegexp
    <3>2. \A c1, i1, r1 : Serves(more, c1, i1, r1) <=>
             Serves(dict, c1, i1, r1) \/ (c1 = c /\ i1 = i0 /\ r1 = r0)
      BY <1>1, <1>3, Added
    <3> HIDE DEF more
    <3>3. CASE c \notin Steady
      <4>1. \A c1 \in Steady : \A i1, r1 : Serves(dict', c1, i1, r1) <=> Serves(dict, c1, i1, r1)
        BY <3>1, <3>2, <3>3
      <4> QED
        BY <1>1, <4>1, PromiseStutters
    <3>4. CASE c \in Steady
      <4>1. Steady1(c)
        BY <3>4 DEF IInv
      <4>2. /\ Fresh(list, frames[c])
            /\ \A i \in Id, r \in Regexp :
                  Serves(dict, c, i, r) => [id |-> i, regexp |-> r] \in ToSet(list)
        BY <1>2, <4>1, Zenon DEF Steady1
      <4>3. \A b \in ToSet(list) : b.id # i0
        BY <1>2, <1>4, <4>2 DEF Fresh, i0
      <4>4. \A s \in Promised(dict) : s[1] = c => s[2] # i0
        <5> SUFFICES ASSUME NEW s \in Promised(dict), s[1] = c, s[2] = i0
                     PROVE  FALSE
          OBVIOUS
        <5>1. /\ s = <<s[1], s[2], s[3]>> /\ s[2] \in Id /\ s[3] \in Regexp
              /\ Serves(dict, s[1], s[2], s[3])
          BY <1>1, PromisedByTable, Zenon
        <5>2. [id |-> i0, regexp |-> s[3]] \in ToSet(list)
          BY <4>2, <5>1
        <5>3. [id |-> i0, regexp |-> s[3]].id = i0
          OBVIOUS
        <5> QED
          BY <4>3, <5>2, <5>3
      <4>5. Promised(dict') = Promised(dict) \cup {<<c, i0, r0>>}
        BY <1>1, <3>1, <3>2, <3>4, PromiseGrows
      <4> QED
        BY <1>3, <3>4, <4>4, <4>5, Zenon
    <3> QED
      BY <3>3, <3>4
  <2> QED
    BY <2>2, <2>3
<1> QED
  BY <1>5, <1>6

(* A binding given up is one subscription less, if it was served: its      *)
(* number leads to one expression.                                         *)
LEMMA DelUnsubscribes ==
    ASSUME IInv, Table(dict'), NEW c \in Client, ReceiveDel(c)
    PROVE  \/ Promised(dict') = Promised(dict)
           \/ \E s \in Promised(dict) :
                 /\ c \in Steady
                 /\ s[1] = c /\ s[2] \in Id
                 /\ Promised(dict') = Promised(dict) \ {s}
<1> DEFINE i0 == Head(frames[c]).id
           list == srcRegList[c]
           rs == Regexps(list, {i0})
<1>1. /\ Receive(c, "DelRegexp") /\ Table(dict)
      /\ dict' = delOneIvyClientFromDictionaryEntry(dict, rs, c, i0)
  BY DEF ReceiveDel, IInv, delRegexpForOneClient, delFromDictionary
<1>2. i0 \in Id
  <2>1. Head(frames[c]) \in AnyFrame
    BY <1>1, FrameRead
  <2> QED
    BY <2>1 DEF AnyFrame, AddFrame, OtherFrame
<1> HIDE DEF i0
<1>3. \A c1, i1, r1 : Serves(dict', c1, i1, r1) <=>
         Serves(dict, c1, i1, r1) /\ ~(r1 \in rs /\ c1 = c /\ i1 = i0)
  <2> DEFINE less == delOneIvyClientFromDictionaryEntry(dict, rs, c, i0)
  <2>1. \A c1, i1, r1 : Serves(less, c1, i1, r1) <=>
           Serves(dict, c1, i1, r1) /\ ~(r1 \in rs /\ c1 = c /\ i1 = i0)
    BY <1>1, OneDropped
  <2> QED
    BY <1>1, <2>1
<1>4. CASE c \notin Steady
  <2>1. \A c1 \in Steady : \A i1, r1 : Serves(dict', c1, i1, r1) <=> Serves(dict, c1, i1, r1)
    BY <1>3, <1>4
  <2> QED
    BY <1>1, <2>1, PromiseStutters
<1>5. CASE c \in Steady /\ \A r : ~Serves(dict, c, i0, r)
  <2>1. \A c1 \in Steady : \A i1, r1 : Serves(dict', c1, i1, r1) <=> Serves(dict, c1, i1, r1)
    BY <1>3, <1>5
  <2> QED
    BY <1>1, <2>1, PromiseStutters
<1>6. CASE c \in Steady /\ \E r : Serves(dict, c, i0, r)
  <2>1. PICK r0 : Serves(dict, c, i0, r0)
    BY <1>6
  <2>2. /\ Distinct(list)
        /\ \A i \in Id, r \in Regexp :
              Serves(dict, c, i, r) => [id |-> i, regexp |-> r] \in ToSet(list)
    <3>1. Steady1(c)
      BY <1>6 DEF IInv
    <3> QED
      BY <3>1, Zenon DEF Steady1
  <2>3. ASSUME NEW r, Serves(dict, c, i0, r)
        PROVE  r \in rs /\ r = r0
    <3> DEFINE b == [id |-> i0, regexp |-> r]
               b0 == [id |-> i0, regexp |-> r0]
    <3>1. r \in Regexp /\ r0 \in Regexp
      BY <1>1, <2>1, <2>3, ServedTyped
    <3>2. b \in ToSet(list) /\ b0 \in ToSet(list)
      BY <1>2, <2>1, <2>2, <2>3, <3>1
    <3>3. b.id = i0 /\ b.regexp = r /\ b0.id = i0 /\ b0.regexp = r0
      OBVIOUS
    <3> HIDE DEF b, b0
    <3>4. r \in rs
      BY <3>2, <3>3 DEF Regexps
    <3>5. PICK k \in DOMAIN list : list[k] = b
      BY <3>2 DEF ToSet
    <3>6. PICK l \in DOMAIN list : list[l] = b0
      BY <3>2 DEF ToSet
    <3>7. k = l
      BY <2>2, <3>3, <3>5, <3>6 DEF Distinct
    <3> QED
      BY <3>3, <3>4, <3>5, <3>6, <3>7
  <2>4. \A c1, i1, r1 : Serves(dict', c1, i1, r1) <=>
           Serves(dict, c1, i1, r1) /\ ~(c1 = c /\ i1 = i0 /\ r1 = r0)
    BY <1>3, <2>3
  <2>5. Promised(dict') = Promised(dict) \ {<<c, i0, r0>>}
    BY <1>1, <1>6, <2>4, PromiseShrinks
  <2>6. <<c, i0, r0>> \in Promised(dict) /\ <<c, i0, r0>>[1] = c /\ <<c, i0, r0>>[2] = i0
    BY <1>1, <1>6, <2>1, PromisedByTable
  <2> QED
    BY <1>2, <1>6, <2>5, <2>6
<1> QED
  BY <1>4, <1>5, <1>6

(* Who is deleted is forgotten. *)
LEMMA DeleteForgets ==
    ASSUME IInv, Table(dict'), NEW c \in Client, ClientDelete(c)
    PROVE  \/ Promised(dict') = Promised(dict)
           \/ /\ c \in Steady
              /\ Promised(dict') = Promised(dict) \ {s \in Promised(dict) : s[1] = c}
<1> DEFINE less == delOneClientFromEveryEntry(
                       delFromDictionary(dict, srcRegList[c], c, Id, id[c]), c)
<1>1. dict' = less /\ Table(dict)
  BY DEF ClientDelete, delOneClient, IInv
<1>2. \A c1, i1, r1 : Serves(less, c1, i1, r1) <=> Serves(dict, c1, i1, r1) /\ c1 # c
  BY <1>1, ClientDropped
<1> HIDE DEF less
<1>3. CASE c \in Steady
  BY <1>1, <1>2, <1>3, PromiseEnds
<1>4. CASE c \notin Steady
  <2>1. \A c1 \in Steady : \A i1, r1 : Serves(dict', c1, i1, r1) <=> Serves(dict, c1, i1, r1)
    BY <1>1, <1>2, <1>4
  <2> QED
    BY <1>1, <2>1, PromiseStutters
<1> QED
  BY <1>3, <1>4

(* A step of the dictionary is one of Subscriptions, or none. *)
LEMMA StepKeepsPromise ==
    ASSUME IInv, IInv', [Next]_vars
    PROVE  [Promise!Next]_{s \in Served : s[1] \in Steady}
<1>1. /\ {s \in Served : s[1] \in Steady} = Promised(dict)
      /\ {s \in Served : s[1] \in Steady}' = Promised(dict')
  BY DEF Served, ServedBy, Promised, Steady
<1>2. Table(dict')
  BY DEF IInv
<1>3. CASE dict' = dict
  BY <1>1, <1>3
<1>4. ASSUME NEW c \in Client, ReceiveAdd(c)
      PROVE  [Promise!Next]_{s \in Served : s[1] \in Steady}
  BY <1>1, <1>2, <1>4, AddSubscribes DEF Promise!Next, Promise!Subscribe, Promise!Of
<1>5. ASSUME NEW c \in Client, ReceiveDel(c)
      PROVE  [Promise!Next]_{s \in Served : s[1] \in Steady}
  BY <1>1, <1>2, <1>5, DelUnsubscribes DEF Promise!Next, Promise!Unsubscribe, Promise!Of
<1>6. ASSUME NEW c \in Client, ClientDelete(c)
      PROVE  [Promise!Next]_{s \in Served : s[1] \in Steady}
  BY <1>1, <1>2, <1>6, DeleteForgets DEF Promise!Next, Promise!Forget, Promise!Of
<1>7. \/ dict' = dict
      \/ \E c \in Client : ReceiveAdd(c) \/ ReceiveDel(c) \/ ClientDelete(c)
  BY DEF Next, vars, publisher, Listen, IvyBindMsg, IvyUnbindMsg, IvyChangeMsg, SendService, Leave,
     ReceiveMsg, Call, ReceiveEnd, ReceiveBye, EndOfFile, IvySendMsg
<1> QED
  BY <1>3, <1>4, <1>5, <1>6, <1>7

(* Towards a client that never changes an expression the dictionary is     *)
(* what Subscriptions promises, whatever the others do (ivy.c:1690-1950).  *)
THEOREM DictionaryKeepsPromise == Spec => ImplementsSubscriptions
<1>1. Init => Promise!Init
  BY DEF Init, Served, ToSet, Promise!Init
<1>2. IInv /\ IInv' /\ [Next]_vars => [Promise!Next]_{s \in Served : s[1] \in Steady}
  BY StepKeepsPromise
<1> QED
  BY <1>1, <1>2, Invariance, PTL DEF Spec, ImplementsSubscriptions, Promise!Spec
=============================================================================

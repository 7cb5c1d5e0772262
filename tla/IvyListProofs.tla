--------------------------- MODULE IvyListProofs ---------------------------
(***************************************************************************)
(* Lemmas about lists, for the proofs of the modules that keep one.        *)
(***************************************************************************)
EXTENDS IvyList, SequencesExt, SequenceTheorems, WellFoundedInduction, TLAPS

-----------------------------------------------------------------------------
(* Induction *)

(* A set of natural numbers has a least member.                            *)
LEMMA LeastNatural ==
    ASSUME NEW T, T \subseteq Nat, T # {}
    PROVE  \E m \in T : \A k \in T : m <= k
<1>1. PICK m \in T : \A k \in T : ~(<<k, m>> \in OpToRel(<, Nat))
  BY ONLY T \subseteq Nat, T # {}, NatLessThanWellFounded, WFMin, Zenon
<1>2. ASSUME NEW k \in T
      PROVE  m <= k
  <2>1. k \in Nat /\ m \in Nat
    OBVIOUS
  <2>2. k < m => <<k, m>> \in OpToRel(<, Nat)
    BY <2>1 DEF OpToRel
  <2>3. ~(k < m)
    BY <1>1, <2>2, Zenon
  <2> QED
    BY <2>1, <2>3
<1> QED
  BY <1>2

(* A bounded one that is not empty has a greatest member.                  *)
LEMMA GreatestNatural ==
    ASSUME NEW n \in Nat, NEW T, T \subseteq 0..n, T # {}
    PROVE  \E m \in T : \A k \in T : m >= k
<1> DEFINE below == {n - k : k \in T}
<1>1. \A k \in T : k \in 0..n /\ n - k \in Nat
  OBVIOUS
<1>2. below \subseteq Nat /\ below # {}
  BY <1>1
<1> HIDE DEF below
<1>3. PICK l \in below : \A k \in below : l <= k
  BY <1>2, LeastNatural
<1>4. PICK m \in T : l = n - m
  BY <1>3 DEF below
<1>5. ASSUME NEW k \in T
      PROVE  m >= k
  <2>1. n - m <= n - k
    BY <1>3, <1>4 DEF below
  <2> QED
    BY <1>1, <2>1
<1> QED
  BY <1>5

(* Induction, for the members of a set: the least number that is not one   *)
(* would follow a member.                                                  *)
LEMMA NatSetInduction ==
    ASSUME NEW G, 0 \in G,
           \A n \in Nat : n \in G => n + 1 \in G
    PROVE  \A n \in Nat : n \in G
<1>1. SUFFICES ASSUME Nat \ G # {} PROVE FALSE
  OBVIOUS
<1>2. PICK m \in Nat \ G : \A k \in Nat \ G : m <= k
  BY <1>1, LeastNatural
<1>3. m - 1 \in Nat /\ ~(m <= m - 1) /\ (m - 1) + 1 = m
  BY <1>2
<1>4. m - 1 \in G
  BY <1>2, <1>3
<1> QED
  BY <1>2, <1>3, <1>4

-----------------------------------------------------------------------------
(* Without *)

(* One step of the recursion. *)
Step(list, gone, kept, n) ==
    IF list[n] \in gone THEN kept ELSE Append(kept, list[n])

(* What the function says that Without() defines. *)
Walk(list, gone, n, kept) ==
    kept = [i \in 0..n |-> IF i = 0 THEN <<>> ELSE Step(list, gone, kept[i - 1], i)]

(* There is such a function, so the recursion means what it says. *)
LEMMA WalkExists ==
    ASSUME NEW list, NEW gone
    PROVE  \A n \in Nat : \E kept : Walk(list, gone, n, kept)
<1> DEFINE G == {n \in Nat : \E kept : Walk(list, gone, n, kept)}
<1>1. 0 \in G
  <2>1. Walk(list, gone, 0, [i \in 0..0 |-> <<>>])
    BY DEF Walk
  <2> QED
    BY <2>1
<1>2. ASSUME NEW n \in Nat, n \in G
      PROVE  n + 1 \in G
  <2>1. PICK kept : Walk(list, gone, n, kept)
    BY <1>2
  <2> DEFINE more == [i \in 0..(n + 1) |->
                         IF i = 0 THEN <<>> ELSE Step(list, gone, kept[i - 1], i)]
  <2>2. \A i \in 0..n : kept[i] = IF i = 0 THEN <<>> ELSE Step(list, gone, kept[i - 1], i)
    BY <2>1, Zenon DEF Walk
  <2>3. /\ \A i \in 0..n : i \in 0..(n + 1)
        /\ \A i \in 0..(n + 1) : i # 0 => i - 1 \in 0..n
    OBVIOUS
  <2>4. \A i \in 0..n : more[i] = kept[i]
    BY <2>2, <2>3, Zenon
  <2>5. \A i \in 0..(n + 1) : i # 0 => more[i - 1] = kept[i - 1]
    BY <2>3, <2>4, Zenon
  <2>6. Walk(list, gone, n + 1, more)
    BY <2>5, Zenon DEF Walk
  <2> QED
    BY <2>6
<1> HIDE DEF G
<1>3. \A n \in Nat : n \in G
  BY <1>1, <1>2, NatSetInduction
<1> QED
  BY <1>3 DEF G

(* Without() is the last value of the function. *)
LEMMA WithoutIsWalk ==
    ASSUME NEW S, NEW list \in Seq(S), NEW gone
    PROVE  \E kept :
              /\ kept[0] = <<>>
              /\ \A i \in 1..Len(list) : kept[i] = Step(list, gone, kept[i - 1], i)
              /\ \A i \in 0..Len(list) : kept[i] \in Seq(S)
              /\ Without(list, gone) = kept[Len(list)]
<1> DEFINE kept == CHOOSE f : f = [n \in 0..Len(list) |->
                        IF n = 0 THEN <<>>
                        ELSE IF list[n] \in gone THEN f[n - 1]
                        ELSE Append(f[n - 1], list[n])]
<1>1. Len(list) \in Nat
  OBVIOUS
<1>2. \E f : Walk(list, gone, Len(list), f)
  BY <1>1, WalkExists
<1>3. Walk(list, gone, Len(list), kept)
  BY <1>2 DEF Walk, Step
<1>4. Without(list, gone) = kept[Len(list)]
  BY DEF Without
<1> HIDE DEF kept
<1>5. \A i \in 0..Len(list) :
         kept[i] = IF i = 0 THEN <<>> ELSE Step(list, gone, kept[i - 1], i)
  BY <1>3, Zenon DEF Walk
<1>6. kept[0] = <<>> /\ \A i \in 1..Len(list) : kept[i] = Step(list, gone, kept[i - 1], i)
  BY <1>1, <1>5
<1>7. \A i \in 0..Len(list) : kept[i] \in Seq(S)
  <2> DEFINE G == {n \in Nat : n <= Len(list) => kept[n] \in Seq(S)}
  <2>1. 0 \in G
    <3>1. <<>> \in Seq(S)
      OBVIOUS
    <3> QED
      BY <1>6, <3>1, Zenon
  <2>2. ASSUME NEW n \in Nat, n \in G, n + 1 <= Len(list)
        PROVE  kept[n + 1] \in Seq(S)
    <3>1. n + 1 \in 1..Len(list) /\ (n + 1) - 1 = n /\ kept[n] \in Seq(S)
      BY <1>1, <2>2
    <3>2. list[n + 1] \in S /\ kept[n + 1] = Step(list, gone, kept[n], n + 1)
      BY <1>6, <3>1
    <3> QED
      BY <3>1, <3>2 DEF Step
  <2>3. \A n \in Nat : n \in G => n + 1 \in G
    BY <2>2
  <2> HIDE DEF G
  <2>4. \A n \in Nat : n \in G
    BY <2>1, <2>3, NatSetInduction
  <2> QED
    BY <1>1, <2>4 DEF G
<1> QED
  BY <1>4, <1>6, <1>7

(* A list without some of its members is a list of the others, none of     *)
(* them twice when none was.                                               *)
LEMMA WithoutProperties ==
    ASSUME NEW S, NEW list \in Seq(S), NEW gone
    PROVE  /\ Without(list, gone) \in Seq(S)
           /\ ToSet(Without(list, gone)) = ToSet(list) \ gone
           /\ IsInjective(list) => IsInjective(Without(list, gone))
<1>1. PICK kept : /\ kept[0] = <<>>
                  /\ \A i \in 1..Len(list) : kept[i] = Step(list, gone, kept[i - 1], i)
                  /\ Without(list, gone) = kept[Len(list)]
  BY WithoutIsWalk
<1> DEFINE Good(n) ==
              /\ kept[n] \in Seq(S)
              /\ \A i \in 1..Len(kept[n]) :
                    \E j \in 1..n : kept[n][i] = list[j] /\ list[j] \notin gone
              /\ \A j \in 1..n : list[j] \notin gone =>
                    \E i \in 1..Len(kept[n]) : kept[n][i] = list[j]
              /\ IsInjective(list) =>
                    \A i, j \in 1..Len(kept[n]) : kept[n][i] = kept[n][j] => i = j
           G == {n \in Nat : n <= Len(list) => Good(n)}
<1>2. 0 \in G
  <2>1. kept[0] \in Seq(S) /\ Len(kept[0]) = 0
    BY <1>1
  <2>2. Good(0)
    BY <2>1
  <2> QED
    BY <2>2
<1>3. ASSUME NEW n \in Nat, n \in G, n + 1 <= Len(list)
      PROVE  Good(n + 1)
  <2> DEFINE m == n + 1
             old == kept[n]
  <2>1. Good(n) /\ m \in 1..Len(list) /\ m - 1 = n
    <3>1. n <= Len(list) /\ m \in 1..Len(list) /\ m - 1 = n
      BY <1>3
    <3> QED
      BY <1>3, <3>1, Zenon
  <2>2. list[m] \in S
    BY <2>1
  <2>3. kept[m] = Step(list, gone, old, m)
    BY <1>1, <2>1
  <2>4. CASE list[m] \in gone
    <3>1. kept[m] = old
      BY <2>3, <2>4 DEF Step
    <3>2. \A i \in 1..m : i \in 1..n \/ i = m
      BY <2>1
    <3> QED
      BY <2>1, <2>4, <3>1, <3>2
  <2>5. CASE list[m] \notin gone
    <3>1. kept[m] = Append(old, list[m])
      BY <2>3, <2>5 DEF Step
    <3>2. /\ kept[m] \in Seq(S)
          /\ Len(kept[m]) = Len(old) + 1
          /\ \A i \in 1..Len(old) : kept[m][i] = old[i]
          /\ kept[m][Len(old) + 1] = list[m]
      BY <2>1, <2>2, <3>1
    <3>3. Len(old) \in Nat
      BY <2>1
    <3> HIDE DEF old
    <3>4. /\ \A i \in 1..m : i \in 1..n \/ i = m
          /\ \A i \in 1..(Len(old) + 1) : i \in 1..Len(old) \/ i = Len(old) + 1
          /\ \A i \in 1..n : i \in 1..m
          /\ \A i \in 1..Len(old) : i \in 1..(Len(old) + 1)
          /\ Len(old) + 1 \in 1..(Len(old) + 1)
          /\ m \in 1..m
      BY <2>1, <3>3
    <3> HIDE DEF m
    <3>5. \A i \in 1..Len(kept[m]) :
              \E j \in 1..m : kept[m][i] = list[j] /\ list[j] \notin gone
      BY <2>1, <2>5, <3>2, <3>4 DEF old
    <3>6. \A j \in 1..m : list[j] \notin gone =>
              \E i \in 1..Len(kept[m]) : kept[m][i] = list[j]
      <4> SUFFICES ASSUME NEW j \in 1..m, list[j] \notin gone
                   PROVE  \E i \in 1..Len(kept[m]) : kept[m][i] = list[j]
        OBVIOUS
      <4>1. CASE j = m
        BY <3>2, <3>4, <4>1
      <4>2. CASE j \in 1..n
        <5>1. PICK i \in 1..Len(old) : old[i] = list[j]
          BY <2>1, <4>2, Zenon DEF old
        <5> QED
          BY <3>2, <3>4, <5>1
      <4> QED
        BY <3>4, <4>1, <4>2
    <3>7. ASSUME IsInjective(list), NEW i \in 1..Len(old), old[i] = list[m]
          PROVE  FALSE
      <4>1. PICK j \in 1..n : old[i] = list[j]
        BY <2>1 DEF old
      <4>2. j \in DOMAIN list /\ m \in DOMAIN list /\ j # m
        BY <2>1, <4>1 DEF m
      <4> QED
        BY <3>7, <4>1, <4>2 DEF IsInjective
    <3>8. ASSUME IsInjective(list),
                 NEW i \in 1..Len(kept[m]), NEW j \in 1..Len(kept[m]),
                 kept[m][i] = kept[m][j]
          PROVE  i = j
      <4>1. CASE i \in 1..Len(old) /\ j \in 1..Len(old)
        BY <2>1, <3>2, <3>8, <4>1 DEF old
      <4>2. CASE i = Len(old) + 1 /\ j \in 1..Len(old)
        BY <3>2, <3>7, <3>8, <4>2
      <4>3. CASE i \in 1..Len(old) /\ j = Len(old) + 1
        BY <3>2, <3>7, <3>8, <4>3
      <4> QED
        BY <3>2, <3>4, <4>1, <4>2, <4>3
    <3> QED
      BY <3>2, <3>5, <3>6, <3>8 DEF m
  <2> QED
    BY <2>4, <2>5
<1> HIDE DEF Good
<1>4. \A n \in Nat : n \in G
  <2> HIDE DEF G
  <2>1. \A n \in Nat : n \in G => n + 1 \in G
    BY <1>3 DEF G
  <2> QED
    BY <1>2, <2>1, NatSetInduction
<1>5. Len(list) \in Nat
  OBVIOUS
<1>6. Good(Len(list))
  BY <1>4, <1>5
<1> DEFINE all == Without(list, gone)
<1>7. /\ all \in Seq(S)
      /\ \A i \in 1..Len(all) :
            \E j \in 1..Len(list) : all[i] = list[j] /\ list[j] \notin gone
      /\ \A j \in 1..Len(list) : list[j] \notin gone =>
            \E i \in 1..Len(all) : all[i] = list[j]
      /\ IsInjective(list) => \A i, j \in 1..Len(all) : all[i] = all[j] => i = j
  BY <1>1, <1>6, Zenon DEF Good
<1> HIDE DEF all
<1>8. DOMAIN all = 1..Len(all) /\ DOMAIN list = 1..Len(list)
  BY <1>7
<1>9. ToSet(all) = ToSet(list) \ gone
  <2>1. ASSUME NEW x \in ToSet(all)
        PROVE  x \in ToSet(list) \ gone
    <3>1. PICK i \in 1..Len(all) : x = all[i]
      BY <1>8, <2>1 DEF ToSet
    <3>2. PICK j \in 1..Len(list) : all[i] = list[j] /\ list[j] \notin gone
      BY <1>7, <3>1, Zenon
    <3> QED
      BY <1>8, <3>1, <3>2 DEF ToSet
  <2>2. ASSUME NEW x \in ToSet(list) \ gone
        PROVE  x \in ToSet(all)
    <3>1. PICK j \in 1..Len(list) : x = list[j]
      BY <1>8, <2>2 DEF ToSet
    <3>2. PICK i \in 1..Len(all) : all[i] = list[j]
      BY <1>7, <2>2, <3>1, Zenon
    <3> QED
      BY <1>8, <3>1, <3>2 DEF ToSet
  <2> QED
    BY <2>1, <2>2
<1>10. IsInjective(list) => IsInjective(all)
  BY <1>7, <1>8 DEF IsInjective
<1> QED
  BY <1>7, <1>9, <1>10 DEF all

(* Each member that stays has its place in the old list, and keeps the      *)
(* order: no two share one.                                                *)
LEMMA WithoutPlaces ==
    ASSUME NEW S, NEW list \in Seq(S), NEW gone
    PROVE  \E place \in [1..Len(Without(list, gone)) -> 1..Len(list)] :
              /\ \A i \in 1..Len(Without(list, gone)) : Without(list, gone)[i] = list[place[i]]
              /\ \A i, j \in 1..Len(Without(list, gone)) : place[i] = place[j] => i = j
<1>1. PICK kept : /\ kept[0] = <<>>
                  /\ \A i \in 1..Len(list) : kept[i] = Step(list, gone, kept[i - 1], i)
                  /\ \A i \in 0..Len(list) : kept[i] \in Seq(S)
                  /\ Without(list, gone) = kept[Len(list)]
  BY WithoutIsWalk
<1> DEFINE Placed(n, place) ==
              /\ place \in [1..Len(kept[n]) -> 1..n]
              /\ \A i \in 1..Len(kept[n]) : kept[n][i] = list[place[i]]
              /\ \A i, j \in 1..Len(kept[n]) : place[i] = place[j] => i = j
           Good(n) == \E place : Placed(n, place)
           G == {n \in Nat : n <= Len(list) => Good(n)}
<1>2. 0 \in G
  <2>1. Len(kept[0]) = 0
    BY <1>1
  <2>2. Placed(0, [i \in 1..0 |-> 1])
    BY <2>1
  <2> QED
    BY <2>2
<1>3. ASSUME NEW n \in Nat, n \in G, n + 1 <= Len(list)
      PROVE  Good(n + 1)
  <2> DEFINE m == n + 1
             old == kept[n]
  <2>1. n <= Len(list) /\ m \in 1..Len(list) /\ m - 1 = n /\ n \in 0..Len(list)
    BY <1>3
  <2>2. PICK place : Placed(n, place)
    BY <1>3, <2>1
  <2>3. kept[m] = Step(list, gone, old, m)
    BY <1>1, <2>1
  <2>4. CASE list[m] \in gone
    <3>1. kept[m] = old
      BY <2>3, <2>4 DEF Step
    <3>2. Placed(m, place)
      BY <2>2, <3>1
    <3> QED
      BY <3>2
  <2>5. CASE list[m] \notin gone
    <3>1. kept[m] = Append(old, list[m])
      BY <2>3, <2>5 DEF Step
    <3>2. old \in Seq(S) /\ Len(old) \in Nat /\ list[m] \in S
      BY <1>1, <2>1
    <3> DEFINE more == [i \in 1..(Len(old) + 1) |-> IF i = Len(old) + 1 THEN m ELSE place[i]]
    <3>3. /\ Len(kept[m]) = Len(old) + 1
          /\ \A i \in 1..Len(old) : kept[m][i] = old[i]
          /\ kept[m][Len(old) + 1] = list[m]
      BY <3>1, <3>2
    <3>4. /\ place \in [1..Len(old) -> 1..n]
          /\ \A i \in 1..Len(old) : old[i] = list[place[i]]
          /\ \A i, j \in 1..Len(old) : place[i] = place[j] => i = j
      BY <2>2
    <3> HIDE DEF old
    <3>5. /\ \A i \in 1..(Len(old) + 1) : i # Len(old) + 1 => i \in 1..Len(old)
          /\ Len(old) + 1 \in 1..(Len(old) + 1)
          /\ \A k \in 1..n : k \in 1..m /\ k # m
          /\ m \in 1..m
      BY <3>2
    <3>6. /\ more[Len(old) + 1] = m
          /\ \A i \in 1..Len(old) : more[i] = place[i] /\ place[i] \in 1..m /\ place[i] # m
      BY <3>2, <3>4, <3>5
    <3>7. more \in [1..(Len(old) + 1) -> 1..m]
      BY <3>5, <3>6
    <3> HIDE DEF more, m
    <3>8. \A i \in 1..Len(kept[m]) : kept[m][i] = list[more[i]]
      BY <3>3, <3>4, <3>5, <3>6
    <3>9. \A i, j \in 1..Len(kept[m]) : more[i] = more[j] => i = j
      BY <3>3, <3>4, <3>5, <3>6
    <3>10. Placed(m, more)
      BY <3>3, <3>7, <3>8, <3>9
    <3> QED
      BY <3>10 DEF m
  <2> QED
    BY <2>4, <2>5
<1> HIDE DEF Good
<1>4. \A n \in Nat : n \in G
  <2>1. \A n \in Nat : n \in G => n + 1 \in G
    BY <1>3
  <2> HIDE DEF G
  <2> QED
    BY <1>2, <2>1, NatSetInduction
<1>5. Good(Len(list))
  BY <1>4
<1> QED
  BY <1>1, <1>5 DEF Good

-----------------------------------------------------------------------------
(* Lists joined *)

(* What the function says that FlattenSeq() of the community modules       *)
(* defines, and one step of its recursion.                                 *)
Join(lists, before, i) == IF i = 1 THEN lists[i] ELSE before \o lists[i]

Joint(lists, n, joint) ==
    joint = [i \in 1..n |-> Join(lists, joint[i - 1], i)]

(* There is one such function: FlattenSeq() chooses it.                    *)
LEMMA JointExists ==
    ASSUME NEW lists
    PROVE  \A n \in Nat : \E joint : Joint(lists, n, joint)
<1> DEFINE G == {n \in Nat : \E joint : Joint(lists, n, joint)}
<1>1. 0 \in G
  <2>1. Joint(lists, 0, [i \in 1..0 |-> <<>>])
    BY DEF Joint
  <2> QED
    BY <2>1
<1>2. ASSUME NEW n \in Nat, n \in G
      PROVE  n + 1 \in G
  <2>1. PICK joint : Joint(lists, n, joint)
    BY <1>2
  <2> DEFINE more == [i \in 1..(n + 1) |-> Join(lists, joint[i - 1], i)]
  <2>2. \A i \in 1..n : joint[i] = Join(lists, joint[i - 1], i)
    BY <2>1, Zenon DEF Joint
  <2>3. /\ \A i \in 1..n : i \in 1..(n + 1)
        /\ \A i \in 1..(n + 1) : i # 1 => i - 1 \in 1..n
    OBVIOUS
  <2>4. \A i \in 1..n : more[i] = joint[i]
    BY <2>2, <2>3, Zenon
  <2>5. \A i \in 1..(n + 1) : Join(lists, more[i - 1], i) = Join(lists, joint[i - 1], i)
    <3>1. \A i \in 1..(n + 1) : i # 1 => more[i - 1] = joint[i - 1]
      BY <2>3, <2>4, Zenon
    <3> HIDE DEF more
    <3> QED
      BY <3>1, Zenon DEF Join
  <2>6. Joint(lists, n + 1, more)
    BY <2>5, Zenon DEF Joint
  <2> QED
    BY <2>6
<1> HIDE DEF G
<1>3. \A n \in Nat : n \in G
  BY <1>1, <1>2, NatSetInduction
<1> QED
  BY <1>3 DEF G

(* Lists of members of a set are joined to a list of such members. *)
LEMMA FlattenProperties ==
    ASSUME NEW S, NEW lists \in Seq(Seq(S))
    PROVE  FlattenSeq(lists) \in Seq(S)
<1> DEFINE joint == CHOOSE f : f = [i \in 1..Len(lists) |->
                        IF i = 1 THEN lists[i] ELSE f[i - 1] \o lists[i]]
<1>1. Len(lists) \in Nat
  OBVIOUS
<1>2. \E f : Joint(lists, Len(lists), f)
  BY <1>1, JointExists
<1>3. Joint(lists, Len(lists), joint)
  BY <1>2 DEF Joint, Join
<1>4. FlattenSeq(lists) = IF Len(lists) = 0 THEN lists ELSE joint[Len(lists)]
  BY DEF FlattenSeq
<1> HIDE DEF joint
<1>5. \A i \in 1..Len(lists) : joint[i] = Join(lists, joint[i - 1], i)
  BY <1>3, Zenon DEF Joint
<1> DEFINE G == {n \in Nat : n + 1 <= Len(lists) => joint[n + 1] \in Seq(S)}
<1>6. 0 \in G
  BY <1>1, <1>5 DEF Join
<1>7. ASSUME NEW n \in Nat, n \in G, (n + 1) + 1 <= Len(lists)
      PROVE  joint[(n + 1) + 1] \in Seq(S)
  <2>1. /\ n + 1 <= Len(lists)
        /\ (n + 1) + 1 \in 1..Len(lists) /\ (n + 1) + 1 # 1
        /\ ((n + 1) + 1) - 1 = n + 1
    BY <1>1, <1>7
  <2>2. joint[n + 1] \in Seq(S) /\ lists[(n + 1) + 1] \in Seq(S)
    BY <1>7, <2>1
  <2>3. joint[(n + 1) + 1] = joint[n + 1] \o lists[(n + 1) + 1]
    BY <1>5, <2>1 DEF Join
  <2> QED
    BY <2>2, <2>3
<1>8. \A n \in Nat : n \in G
  <2>1. \A n \in Nat : n \in G => n + 1 \in G
    BY <1>7
  <2> HIDE DEF G
  <2> QED
    BY <1>6, <2>1, NatSetInduction
<1>9. CASE Len(lists) = 0
  BY <1>4, <1>9
<1>10. CASE Len(lists) # 0
  <2>1. PICK n \in Nat : n + 1 = Len(lists)
    <3>1. Len(lists) - 1 \in Nat /\ (Len(lists) - 1) + 1 = Len(lists)
      BY <1>1, <1>10
    <3> QED
      BY <3>1
  <2>2. n + 1 <= Len(lists)
    BY <1>1, <2>1
  <2>3. joint[n + 1] \in Seq(S)
    BY <1>8, <2>2
  <2> QED
    BY <1>4, <1>10, <2>1, <2>3
<1> QED
  BY <1>9, <1>10

-----------------------------------------------------------------------------
(* The end of a list, which a walk still has to visit *)

Ends(end, list) ==
    /\ Len(end) <= Len(list)
    /\ \A i \in 1..Len(end) : end[i] = list[Len(list) - Len(end) + i]

(* IsSuffix() of the community modules compares the lists turned round. *)
LEMMA SuffixIsEnd ==
    ASSUME NEW S, NEW end \in Seq(S), NEW list \in Seq(S)
    PROVE  IsSuffix(end, list) <=> Ends(end, list)
<1> DEFINE m == Len(end)
           n == Len(list)
           d == SubSeq(Reverse(end), 1, Len(Reverse(end)))
           u == SubSeq(Reverse(list), 1, Len(Reverse(end)))
<1>1. m \in Nat /\ n \in Nat
  OBVIOUS
<1>2. /\ Reverse(end) \in Seq(S) /\ Len(Reverse(end)) = m
      /\ \A i \in 1..m : Reverse(end)[i] = end[m - i + 1]
  BY DEF Reverse
<1>3. /\ Reverse(list) \in Seq(S) /\ Len(Reverse(list)) = n
      /\ \A i \in 1..n : Reverse(list)[i] = list[n - i + 1]
  BY DEF Reverse
<1>4. SUFFICES ASSUME m <= n
               PROVE  d = u <=> Ends(end, list)
  BY <1>2, <1>3 DEF IsSuffix, IsPrefix, Ends
<1>5. /\ d \in Seq(S) /\ Len(d) = m
      /\ \A i \in 1..m : d[i] = end[m - i + 1]
  BY <1>1, <1>2
<1>6. /\ u \in Seq(S) /\ Len(u) = m
      /\ \A i \in 1..m : u[i] = list[n - i + 1]
  BY <1>1, <1>2, <1>3, <1>4
<1> HIDE DEF d, u
<1>7. d = u <=> \A i \in 1..m : d[i] = u[i]
  <2>1. (\A i \in 1..m : d[i] = u[i]) => d = u
    BY <1>5, <1>6, SeqEqual
  <2> QED
    BY <2>1
<1>8. (\A i \in 1..m : d[i] = u[i]) => \A i \in 1..m : end[i] = list[n - m + i]
  <2> SUFFICES ASSUME \A i \in 1..m : d[i] = u[i], NEW i \in 1..m
               PROVE  end[i] = list[n - m + i]
    OBVIOUS
  <2>1. /\ m - i + 1 \in 1..m
        /\ m - (m - i + 1) + 1 = i
        /\ n - (m - i + 1) + 1 = n - m + i
    BY <1>1
  <2> QED
    BY <1>5, <1>6, <2>1
<1>9. (\A i \in 1..m : end[i] = list[n - m + i]) => \A i \in 1..m : d[i] = u[i]
  <2> SUFFICES ASSUME \A i \in 1..m : end[i] = list[n - m + i], NEW i \in 1..m
               PROVE  d[i] = u[i]
    OBVIOUS
  <2>1. /\ m - i + 1 \in 1..m
        /\ n - m + (m - i + 1) = n - i + 1
    BY <1>1
  <2> QED
    BY <1>5, <1>6, <2>1
<1> QED
  BY <1>4, <1>7, <1>8, <1>9 DEF Ends

(* A list is its own end, and has the empty one. *)
LEMMA EndsOfList ==
    ASSUME NEW S, NEW list \in Seq(S)
    PROVE  Ends(list, list) /\ Ends(<<>>, list)
BY DEF Ends

(* What is visited is in the list, and is visited once. *)
LEMMA EndsIsPart ==
    ASSUME NEW S, NEW list \in Seq(S), NEW end \in Seq(S), Ends(end, list)
    PROVE  /\ ToSet(end) \subseteq ToSet(list)
           /\ IsInjective(list) => IsInjective(end)
<1>1. \A i \in 1..Len(end) : Len(list) - Len(end) + i \in 1..Len(list)
  BY DEF Ends
<1>2. DOMAIN end = 1..Len(end) /\ DOMAIN list = 1..Len(list)
  OBVIOUS
<1>3. ToSet(end) \subseteq ToSet(list)
  <2> SUFFICES ASSUME NEW i \in 1..Len(end)
               PROVE  end[i] \in ToSet(list)
    BY <1>2 DEF ToSet
  <2> QED
    BY <1>1, <1>2 DEF Ends, ToSet
<1>4. IsInjective(list) => IsInjective(end)
  <2> SUFFICES ASSUME IsInjective(list), NEW i \in 1..Len(end), NEW j \in 1..Len(end),
                      end[i] = end[j]
               PROVE  i = j
    BY <1>2 DEF IsInjective
  <2>1. Len(list) - Len(end) + i = Len(list) - Len(end) + j
    BY <1>1, <1>2 DEF Ends, IsInjective
  <2> QED
    BY <2>1
<1> QED
  BY <1>3, <1>4

(* A visit takes the head of the end and leaves an end. *)
LEMMA EndsTail ==
    ASSUME NEW S, NEW list \in Seq(S), NEW end \in Seq(S), end # <<>>
    PROVE  /\ Head(end) \in ToSet(end)
           /\ Tail(end) \in Seq(S)
           /\ ToSet(end) = ToSet(Tail(end)) \cup {Head(end)}
           /\ IsInjective(end) => Head(end) \notin ToSet(Tail(end))
           /\ Ends(end, list) => Ends(Tail(end), list)
<1>1. /\ Len(end) \in Nat /\ Len(end) > 0
      /\ DOMAIN end = 1..Len(end)
      /\ Head(end) = end[1]
  OBVIOUS
<1>2. /\ Tail(end) \in Seq(S)
      /\ Len(Tail(end)) = Len(end) - 1
      /\ DOMAIN Tail(end) = 1..(Len(end) - 1)
      /\ \A i \in 1..(Len(end) - 1) : Tail(end)[i] = end[i + 1]
  OBVIOUS
<1>3. Head(end) \in ToSet(end)
  BY <1>1 DEF ToSet
<1>4. /\ \A i \in 1..(Len(end) - 1) : i + 1 \in 1..Len(end) /\ i + 1 # 1
      /\ \A i \in 1..Len(end) : i # 1 => i - 1 \in 1..(Len(end) - 1) /\ (i - 1) + 1 = i
      /\ 1 \in 1..Len(end)
  BY <1>1
<1>5. ToSet(end) = ToSet(Tail(end)) \cup {Head(end)}
  <2>1. ASSUME NEW i \in 1..Len(end)
        PROVE  end[i] \in ToSet(Tail(end)) \cup {Head(end)}
    <3>1. i # 1 => end[i] = Tail(end)[i - 1]
      BY <1>2, <1>4
    <3> QED
      BY <1>1, <1>2, <1>4, <3>1 DEF ToSet
  <2>2. ASSUME NEW i \in 1..(Len(end) - 1)
        PROVE  Tail(end)[i] \in ToSet(end)
    BY <1>1, <1>2, <1>4 DEF ToSet
  <2> QED
    BY <1>1, <1>2, <1>3, <2>1, <2>2 DEF ToSet
<1>6. IsInjective(end) => Head(end) \notin ToSet(Tail(end))
  BY <1>1, <1>2, <1>4 DEF ToSet, IsInjective
<1>7. Ends(end, list) => Ends(Tail(end), list)
  <2> SUFFICES ASSUME Ends(end, list), NEW i \in 1..(Len(end) - 1)
               PROVE  Tail(end)[i] = list[Len(list) - (Len(end) - 1) + i]
    BY <1>1, <1>2 DEF Ends
  <2>1. Len(list) - Len(end) + (i + 1) = Len(list) - (Len(end) - 1) + i
    BY <1>1
  <2> QED
    BY <1>2, <1>4, <2>1 DEF Ends
<1> QED
  BY <1>2, <1>3, <1>5, <1>6, <1>7

(* A new head changes no end of the list. *)
LEMMA EndsOfLonger ==
    ASSUME NEW S, NEW list \in Seq(S), NEW x \in S
    PROVE  /\ <<x>> \o list \in Seq(S)
           /\ ToSet(<<x>> \o list) = ToSet(list) \cup {x}
           /\ IsInjective(list) /\ x \notin ToSet(list) => IsInjective(<<x>> \o list)
           /\ \A end \in Seq(S) : Ends(end, list) => Ends(end, <<x>> \o list)
<1> DEFINE more == <<x>> \o list
<1>1. /\ more \in Seq(S) /\ Len(more) = Len(list) + 1 /\ Len(list) \in Nat
      /\ more[1] = x
      /\ \A i \in 1..Len(list) : more[i + 1] = list[i]
      /\ DOMAIN more = 1..(Len(list) + 1) /\ DOMAIN list = 1..Len(list)
  OBVIOUS
<1> HIDE DEF more
<1>2. /\ \A i \in 1..(Len(list) + 1) : i # 1 => i - 1 \in 1..Len(list) /\ (i - 1) + 1 = i
      /\ \A i \in 1..Len(list) : i + 1 \in 1..(Len(list) + 1) /\ i + 1 # 1
      /\ 1 \in 1..(Len(list) + 1)
  BY <1>1
<1>3. \A i \in 1..(Len(list) + 1) : i # 1 => more[i] = list[i - 1]
  BY <1>1, <1>2
<1>4. ToSet(more) = ToSet(list) \cup {x}
  <2>1. ASSUME NEW i \in 1..(Len(list) + 1)
        PROVE  more[i] \in ToSet(list) \cup {x}
    <3>1. CASE i = 1
      BY <1>1, <3>1
    <3>2. CASE i # 1
      <4>1. i - 1 \in DOMAIN list /\ more[i] = list[i - 1]
        BY <1>1, <1>2, <1>3, <3>2
      <4> QED
        BY <4>1 DEF ToSet
    <3> QED
      BY <3>1, <3>2
  <2>2. ASSUME NEW i \in 1..Len(list)
        PROVE  list[i] \in ToSet(more)
    BY <1>1, <1>2 DEF ToSet
  <2>3. x \in ToSet(more)
    BY <1>1, <1>2 DEF ToSet
  <2> QED
    BY <1>1, <2>1, <2>2, <2>3 DEF ToSet
<1>5. IsInjective(list) /\ x \notin ToSet(list) => IsInjective(more)
  <2> SUFFICES ASSUME IsInjective(list), x \notin ToSet(list),
                      NEW i \in 1..(Len(list) + 1), NEW j \in 1..(Len(list) + 1),
                      more[i] = more[j]
               PROVE  i = j
    BY <1>1 DEF IsInjective
  <2>1. \A k \in 1..(Len(list) + 1) : k # 1 => more[k] # x
    BY <1>1, <1>2, <1>3 DEF ToSet
  <2>2. CASE i # 1 /\ j # 1
    <3> DEFINE a == i - 1
               b == j - 1
    <3>1. a \in DOMAIN list /\ b \in DOMAIN list /\ list[a] = list[b]
      BY <1>1, <1>2, <1>3, <2>2
    <3> HIDE DEF a, b
    <3>2. a = b
      BY <3>1 DEF IsInjective
    <3>3. i - 1 = j - 1
      BY <3>2 DEF a, b
    <3> QED
      BY <3>3
  <2> QED
    BY <1>1, <2>1, <2>2
<1>6. ASSUME NEW end \in Seq(S), Ends(end, list)
      PROVE  Ends(end, more)
  <2> SUFFICES ASSUME NEW i \in 1..Len(end)
               PROVE  end[i] = more[Len(list) + 1 - Len(end) + i]
    BY <1>1, <1>6 DEF Ends
  <2>1. /\ Len(list) - Len(end) + i \in 1..Len(list)
        /\ (Len(list) - Len(end) + i) + 1 = Len(list) + 1 - Len(end) + i
    BY <1>1, <1>6 DEF Ends
  <2> QED
    BY <1>1, <1>6, <2>1 DEF Ends
<1> QED
  BY <1>1, <1>4, <1>5, <1>6 DEF more

(* Removing others than those of an end leaves that end.                   *)
LEMMA EndsOfWithout ==
    ASSUME NEW S, NEW list \in Seq(S), NEW gone, NEW end \in Seq(S),
           Ends(end, list), ToSet(end) \cap gone = {}
    PROVE  Ends(end, Without(list, gone))
<1>1. PICK kept : /\ \A i \in 1..Len(list) : kept[i] = Step(list, gone, kept[i - 1], i)
                  /\ \A i \in 0..Len(list) : kept[i] \in Seq(S)
                  /\ Without(list, gone) = kept[Len(list)]
  BY WithoutIsWalk
<1> DEFINE m == Len(list) - Len(end)
           l == Len(kept[m])
           Good(k) == /\ Len(kept[m + k]) = l + k
                      /\ \A i \in 1..k : kept[m + k][l + i] = end[i]
           G == {k \in Nat : k <= Len(end) => Good(k)}
<1>2. /\ Len(list) \in Nat /\ Len(end) \in Nat
      /\ m \in 0..Len(list) /\ m + Len(end) = Len(list)
  BY DEF Ends
<1>3. l \in Nat
  BY <1>1, <1>2
<1>4. 0 \in G
  BY <1>2, <1>3
<1>5. ASSUME NEW k \in Nat, k \in G, k + 1 <= Len(end)
      PROVE  Good(k + 1)
  <2> DEFINE n == m + k
             old == kept[n]
  <2>1. /\ k \in 0..Len(end) /\ k + 1 \in 1..Len(end)
        /\ n \in 0..Len(list) /\ n + 1 \in 1..Len(list) /\ (n + 1) - 1 = n
        /\ m + (k + 1) = n + 1
    BY <1>2, <1>5
  <2>2. /\ old \in Seq(S) /\ Len(old) = l + k
        /\ \A i \in 1..k : old[l + i] = end[i]
    BY <1>1, <1>5, <2>1
  <2>3. list[n + 1] = end[k + 1]
    BY <1>2, <2>1 DEF Ends
  <2>4. end[k + 1] \in S /\ end[k + 1] \notin gone
    BY <2>1 DEF ToSet
  <2>5. kept[n + 1] = Append(old, end[k + 1])
    BY <1>1, <2>1, <2>3, <2>4 DEF Step
  <2> HIDE DEF n, old, m, l
  <2>6. /\ Len(kept[n + 1]) = l + (k + 1)
        /\ kept[n + 1][l + (k + 1)] = end[k + 1]
        /\ \A i \in 1..k : l + i \in 1..Len(old)
        /\ \A j \in 1..Len(old) : kept[n + 1][j] = old[j]
    BY <1>3, <2>2, <2>4, <2>5
  <2>7. \A i \in 1..k : kept[n + 1][l + i] = end[i]
    BY <2>2, <2>6
  <2>8. \A i \in 1..(k + 1) : i \in 1..k \/ i = k + 1
    OBVIOUS
  <2> QED
    BY <2>1, <2>6, <2>7, <2>8
<1> HIDE DEF Good, m, l
<1>6. \A k \in Nat : k \in G
  <2>1. \A k \in Nat : k \in G => k + 1 \in G
    BY <1>5
  <2> HIDE DEF G
  <2> QED
    BY <1>4, <2>1, NatSetInduction
<1>7. Good(Len(end))
  BY <1>2, <1>6
<1>8. /\ Len(Without(list, gone)) = l + Len(end)
      /\ \A i \in 1..Len(end) : Without(list, gone)[l + i] = end[i]
  BY <1>1, <1>2, <1>7 DEF Good
<1> QED
  BY <1>2, <1>3, <1>8 DEF Ends

-----------------------------------------------------------------------------
(* A list in two pieces *)

LEMMA Pieces ==
    ASSUME NEW S, NEW list \in Seq(S), NEW n \in 0..Len(list)
    PROVE  /\ SubSeq(list, 1, n) \in Seq(S)
           /\ Len(SubSeq(list, 1, n)) = n
           /\ \A i \in 1..n : SubSeq(list, 1, n)[i] = list[i]
           /\ SubSeq(list, n + 1, Len(list)) \in Seq(S)
           /\ Len(SubSeq(list, n + 1, Len(list))) = Len(list) - n
           /\ \A i \in 1..(Len(list) - n) : SubSeq(list, n + 1, Len(list))[i] = list[n + i]
           /\ SubSeq(list, 1, n) \o SubSeq(list, n + 1, Len(list)) = list
<1>1. Len(list) \in Nat /\ n \in Nat /\ n <= Len(list)
  OBVIOUS
<1>2. /\ SubSeq(list, 1, n) \in Seq(S)
      /\ Len(SubSeq(list, 1, n)) = n
      /\ \A i \in 1..n : SubSeq(list, 1, n)[i] = list[i]
  BY <1>1
<1>3. /\ SubSeq(list, n + 1, Len(list)) \in Seq(S)
      /\ Len(SubSeq(list, n + 1, Len(list))) = Len(list) - n
      /\ \A i \in 1..(Len(list) - n) : SubSeq(list, n + 1, Len(list))[i] = list[n + i]
  BY <1>1
<1>4. SubSeq(list, 1, n) \o SubSeq(list, n + 1, Len(list)) = list
  <2>1. /\ 1 \in 1..(Len(list) + 1) /\ n \in (1 - 1)..Len(list)
        /\ Len(list) \in n..Len(list)
    BY <1>1
  <2>2. SubSeq(list, 1, n) \o SubSeq(list, n + 1, Len(list)) = SubSeq(list, 1, Len(list))
    BY ONLY <2>1, list \in Seq(S), ConcatAdjacentSubSeq, Zenon
  <2>3. SubSeq(list, 1, Len(list)) = list
    BY SubSeqFull
  <2> QED
    BY <2>2, <2>3
<1> QED
  BY <1>2, <1>3, <1>4
=============================================================================

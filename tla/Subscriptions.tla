--------------------------- MODULE Subscriptions ---------------------------
(***************************************************************************)
(* What an agent promises the agents that subscribe to its messages: an    *)
(* identifier has one expression from the moment it is subscribed to until *)
(* it is given up or its owner is gone, and nobody else has a say in it.   *)
(* IvyDictionary keeps the promise with a list per client and a table of   *)
(* expressions that must agree.                                            *)
(***************************************************************************)
CONSTANTS Client, Id, Regexp

VARIABLE served     \* the <<client, id, expression>> that messages go to

Init == served = {}

Of(c) == {s \in served : s[1] = c}

Subscribe(c, i, r) ==
    /\ \A s \in Of(c) : s[2] # i
    /\ served' = served \cup {<<c, i, r>>}

Unsubscribe(c, i) ==
    \E s \in Of(c) : s[2] = i /\ served' = served \ {s}

Forget(c) == served' = served \ Of(c)

Next ==
    \E c \in Client :
        \/ \E i \in Id, r \in Regexp : Subscribe(c, i, r)
        \/ \E i \in Id : Unsubscribe(c, i)
        \/ Forget(c)

Spec == Init /\ [][Next]_served
=============================================================================

----------------------------- MODULE Rendezvous -----------------------------
(***************************************************************************)
(* Abstract channels without a buffer.  A sender offers a value and stays  *)
(* until somebody has taken it; it learns how much of it was taken.        *)
(***************************************************************************)
EXTENDS Naturals

CONSTANTS Chans, Values,
          Sizes      \* what a receiver may ask for, 0 for nothing of the value

VARIABLE slot

Idle        == [state |-> "idle"]
Offered(v)  == [state |-> "offered", value |-> v]
Taken(v, n) == [state |-> "taken", value |-> IF n = 0 THEN 0 ELSE v, size |-> n]

Init == slot = [c \in Chans |-> Idle]

Offer(c) == /\ slot[c] = Idle
            /\ slot'[c].state = "offered" /\ slot'[c].value \in Values
            /\ slot' = [slot EXCEPT ![c] = Offered(slot'[c].value)]

Take(c, n) == /\ slot[c].state = "offered"
              /\ slot' = [slot EXCEPT ![c] = Taken(@.value, n)]

Leave(c) == /\ slot[c].state = "taken"
            /\ slot' = [slot EXCEPT ![c] = Idle]

Next == \E c \in Chans : Offer(c) \/ Leave(c) \/ \E n \in Sizes : Take(c, n)

Spec == Init /\ [][Next]_slot
=============================================================================

----------------------------- MODULE BrokerBook -----------------------------
(***************************************************************************)
(* What the mock broker of the tests promises about the orders it holds:   *)
(* the size and the key of an order never change, a key is recorded for one *)
(* order, an order is filled once or not at all and never beyond its size,  *)
(* and one that ended neither fills nor opens again. It promises less than  *)
(* Alpaca: an order that ended may be relabelled canceled or rejected by a  *)
(* later poll, its fill kept.                                               *)
(***************************************************************************)
EXTENDS Integers

CONSTANTS
    Numbers,   \* the orders, by the order in which they were placed
    Keys,      \* client order ids
    NoKey,     \* an order recorded without one
    Amounts    \* quantities

VARIABLE book  \* book[n]: the n-th order

Unused == [key |-> NoKey, shares |-> 0, filled |-> 0, state |-> "unused"]

Init == book = [n \in Numbers |-> Unused]

\* An order is recorded, under a key no other order has: open, or, without a
\* key, filled at once.
Record(n) ==
    /\ book[n] = Unused
    /\ \E k \in Keys \cup {NoKey}, size \in Amounts :
          /\ k # NoKey => \A m \in Numbers : book[m].key # k
          /\ \/ book' = [book EXCEPT ![n] =
                   [key |-> k, shares |-> size, filled |-> 0, state |-> "open"]]
             \/ k = NoKey /\ book' = [book EXCEPT ![n] =
                   [key |-> k, shares |-> size, filled |-> size, state |-> "filled"]]

\* An open order fills once, wholly or in part, or ends with what was filled.
Advance(n) ==
    /\ book[n].state = "open"
    /\ \/ \E f \in Amounts :
             /\ book[n].filled = 0 /\ f <= book[n].shares
             /\ book' = [book EXCEPT
                   ![n].filled = f,
                   ![n].state = IF f = book[n].shares THEN "filled" ELSE "open"]
       \/ \E s \in {"canceled", "rejected"} : book' = [book EXCEPT ![n].state = s]

\* A poll gives an ended order another label.
Relabel(n) ==
    /\ book[n].state \in {"filled", "canceled", "rejected"}
    /\ \E s \in {"canceled", "rejected"} : book' = [book EXCEPT ![n].state = s]

Next == \E n \in Numbers : Record(n) \/ Advance(n) \/ Relabel(n)

Spec == Init /\ [][Next]_book
=============================================================================

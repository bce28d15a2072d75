---------------------------- MODULE BrokerProofs ----------------------------
(***************************************************************************)
(* Proofs about the two ends of the broker's API the client is tested      *)
(* between. MockBroker, for any symbols, keys, sizes, prices, delays and   *)
(* bounds: however a test's settings, placements and polls interleave, the *)
(* account is the sum of what its orders report, a key names one order,    *)
(* every executed fill has one fee row and planned outcomes hold; and its  *)
(* orders are a BrokerBook: none fills twice or opens again after its end. *)
(* BrokerReads, for any readers, page sizes, bounds and timeouts: each     *)
(* read was true of what it was asked about, and pages give every row once. *)
(***************************************************************************)
EXTENDS MockBroker, BrokerReads, Sums

-----------------------------------------------------------------------------
(* The mock *)


Outcomes == {"Filled", "Rejected", "CancelledAfterPartialFill", NoOutcome}
Statuses == {"filled", "canceled", "rejected", "new", "partially_filled"}
Traded == Symbols \cup {Crypto}

OrderSet ==
    [symbol : Traded, quantity : Nat, side : {"buy", "sell"}, notional : BOOLEAN,
     status : Statuses, filled : Nat, polls : Nat, price : Prices \cup {NoPrice, 1},
     key : Keys \cup {NoKey}, planned : Outcomes]

\* What MockMode::RotatingOutcomes promises of one order.
AsPlanned(o) ==
    /\ o.planned = "Filled" => o.status \in {"new", "filled"}
    /\ o.planned = "Rejected" => o.status \in {"new", "rejected"} /\ o.filled = 0
    /\ o.planned = "CancelledAfterPartialFill" =>
          /\ o.status \in {"new", "partially_filled", "canceled"}
          /\ o.status # "new" <=> o.filled = o.quantity \div 2

\* One order of the book: nothing fills before the order leaves "new", and a
\* crypto order is born filled, without key and without plan.
OrderOk(o) ==
    /\ o \in OrderSet
    /\ o.symbol = Crypto =>
          /\ o.key = NoKey /\ o.planned = NoOutcome /\ o.status # "new"
          /\ o.quantity \in Sizes
    /\ o.symbol # Crypto => o.quantity \in Quantities
    /\ o.status = "new" => o.filled = 0
    /\ o.filled \in {0, o.quantity \div 2, o.quantity}
    /\ AsPlanned(o)

\* What a poll leaves of an order, whatever else it does.
Kept(o, p) ==
    /\ p.symbol = o.symbol /\ p.quantity = o.quantity /\ p.side = o.side
    /\ p.key = o.key /\ p.planned = o.planned
    /\ o.status \in Ended => p.status \in Ended

Quiet(o, p) ==
    /\ Kept(o, p) /\ p.filled = o.filled /\ p.price = o.price
    /\ p.status \in {o.status, "canceled", "rejected"}

\* The one fill an order may have, at the price at.
Fills(o, p, at) ==
    /\ Kept(o, p)
    /\ o.symbol \in Symbols /\ o.status = "new" /\ p.status # "new"
    /\ p.filled \in {o.quantity, o.quantity \div 2} /\ p.filled > 0
    /\ p.status = IF p.filled = o.quantity THEN "filled" ELSE "partially_filled"
    /\ p.price = at /\ at \in Prices

(* Truncation to a unit is a number, and leaves nothing of nothing. *)
LEMMA Truncated ==
    ASSUME NEW n \in Int, NEW unit \in Nat \ {0}
    PROVE  truncate(n, unit) \in Int /\ truncate(0, unit) = 0
BY DEF truncate

(* One more term adds its value to a sum over a sequence. *)
LEMMA SumAppend ==
    ASSUME NEW n \in Nat, NEW f \in [1..n -> Int], NEW g \in [1..(n + 1) -> Int],
           \A i \in 1..n : g[i] = f[i]
    PROVE  SumFunction(f) \in Int /\ SumFunction(g) = SumFunction(f) + g[n + 1]
<1> DEFINE D == 1..(n + 1)
           S == 1..n
<1>1. IsFiniteSet(D) /\ S \in SUBSET D /\ n + 1 \in D /\ D \ {n + 1} = S
    <2>1. IsFiniteSet(D)
        BY FS_Interval
    <2>2. S \in SUBSET D /\ n + 1 \in D /\ D \ {n + 1} = S
        OBVIOUS
    <2> QED BY <2>1, <2>2
<1>2. SumFunction(g) = SumFunctionOnSet(g, D) /\ SumFunction(f) = SumFunctionOnSet(f, S)
    BY DEF SumFunction
<1>3. g \in [D -> Int] /\ f \in [S -> Int] /\ \A x \in S : f[x] = g[x]
    OBVIOUS
<1>4. IsFiniteSet(S)
    BY FS_Interval
<1> HIDE DEF D, S
<1>5. SumFunctionOnSet(g, D) = g[n + 1] + SumFunctionOnSet(g, S)
    BY <1>1, <1>3, SumRemove
<1>6. SumFunctionOnSet(f, S) = SumFunctionOnSet(g, S) /\ SumFunctionOnSet(g, S) \in Int
    BY <1>1, <1>3, <1>4, SumAgree, SumType
<1>7. g[n + 1] \in Int
    BY <1>1, <1>3
<1> QED BY <1>2, <1>5, <1>6, <1>7

-----------------------------------------------------------------------------
(* The invariant *)

Account ==
    /\ given \in [Traded -> Int]
    /\ positions \in [Symbols -> [quantity : Int, market_value : Int]]
    /\ cash \in Int /\ usdc \in Nat

Settings ==
    /\ mode \in Modes /\ rotating \in 1..3
    /\ delay \in [Symbols -> 0..MaxDelay]
    /\ price \in [Symbols -> Prices \cup {NoPrice}]
    /\ unauthorized \in 0..MaxFaults /\ transient \in 0..MaxFaults

Orders ==
    /\ orders \in Seq(OrderSet) /\ Len(orders) <= MaxOrders
    /\ \A i \in DOMAIN orders : OrderOk(orders[i])

Ledger == activities \in Seq({"FEE", "DIV"}) /\ OneFeePerFill

(* A poll that only sets a status the plan allows keeps the order in shape. *)
LEMMA OrderStatusOk ==
    ASSUME NEW o, OrderOk(o), NEW n \in Nat, NEW s \in Statuses, s # "new" \/ s = o.status,
           o.planned = "Filled" => s = o.status,
           o.planned = "Rejected" => s \in {o.status, "rejected"},
           o.planned = "CancelledAfterPartialFill" =>
              s = o.status \/ (o.status # "new" /\ s = "canceled"),
           s \in {o.status, "canceled", "rejected"}
    PROVE  LET p == [[o EXCEPT !.polls = n] EXCEPT !.status = s]
           IN  OrderOk(p) /\ Quiet(o, p)
<1> DEFINE p == [[o EXCEPT !.polls = n] EXCEPT !.status = s]
<1>1. o \in OrderSet
    BY DEF OrderOk
<1>2. PICK q : q = p
    OBVIOUS
<1>3. /\ q \in OrderSet /\ q.status = s /\ q.symbol = o.symbol /\ q.quantity = o.quantity
      /\ q.side = o.side /\ q.key = o.key /\ q.planned = o.planned /\ q.filled = o.filled
      /\ q.price = o.price
    BY <1>1, <1>2 DEF OrderSet
<1>4. AsPlanned(o) /\ o.status \in Statuses
    BY <1>1 DEF OrderOk, OrderSet
<1>5. AsPlanned(q)
    BY <1>3, <1>4 DEF AsPlanned
<1>6. OrderOk(q)
    BY <1>3, <1>5 DEF OrderOk
<1>7. Quiet(o, q)
    BY <1>3 DEF Quiet, Kept, Ended
<1> QED BY <1>2, <1>6, <1>7

(* So does a poll that is only counted. *)
LEMMA OrderPolled ==
    ASSUME NEW o, OrderOk(o), NEW n \in Nat
    PROVE  OrderOk([o EXCEPT !.polls = n]) /\ Quiet(o, [o EXCEPT !.polls = n])
<1>1. o \in OrderSet
    BY DEF OrderOk
<1>2. PICK q : q = [o EXCEPT !.polls = n]
    OBVIOUS
<1>3. /\ q \in OrderSet /\ q.status = o.status /\ q.symbol = o.symbol /\ q.quantity = o.quantity
      /\ q.side = o.side /\ q.key = o.key /\ q.planned = o.planned /\ q.filled = o.filled
      /\ q.price = o.price
    BY <1>1, <1>2 DEF OrderSet
<1>4. AsPlanned(q)
    BY <1>3 DEF AsPlanned, OrderOk
<1>5. OrderOk(q) /\ Quiet(o, q)
    BY <1>3, <1>4 DEF OrderOk, Quiet, Kept
<1> QED BY <1>2, <1>5

\* The order u after a fill at the price at.
FilledAt(u, extent, at) ==
    [u EXCEPT !.status = IF extent = "full" THEN "filled" ELSE "partially_filled",
              !.filled = IF extent = "full" THEN u.quantity ELSE u.quantity \div 2,
              !.price = at]

(* A fill as the plan allows leaves an order with a positive amount, the whole *)
(* or half of its even size.                                                   *)
LEMMA OrderFills ==
    ASSUME NEW o, OrderOk(o), NEW n \in Nat, o.status = "new", o.symbol \in Symbols,
           NEW extent \in {"full", "half"}, NEW at \in Prices, o.planned # "Rejected",
           o.planned = "Filled" => extent = "full",
           o.planned = "CancelledAfterPartialFill" => extent = "half",
           NEW p, p = FilledAt([o EXCEPT !.polls = n], extent, at)
    PROVE  /\ OrderOk(p) /\ Fills(o, p, at)
           /\ p.filled = IF extent = "full" THEN o.quantity ELSE o.quantity \div 2
<1> USE DEF FilledAt
<1> DEFINE half == o.quantity \div 2
<1>1. o \in OrderSet
    BY DEF OrderOk
<1>2. o.symbol # Crypto /\ o.quantity \in Quantities /\ o.quantity \in Nat
    BY MockAssumption DEF OrderOk, OrderSet
<1>3. o.quantity > 0 /\ half \in Nat /\ half > 0 /\ half # o.quantity
    <2>1. o.quantity \in Nat \ {0} /\ o.quantity % 2 = 0
        BY <1>2, MockAssumption
    <2> QED BY <2>1
<1> HIDE DEF half
<1>4. PICK q : q = p
    OBVIOUS
<1>5. /\ q \in OrderSet /\ q.symbol = o.symbol /\ q.quantity = o.quantity
      /\ q.side = o.side /\ q.key = o.key /\ q.planned = o.planned /\ q.price = at
      /\ q.status = (IF extent = "full" THEN "filled" ELSE "partially_filled")
      /\ q.filled = (IF extent = "full" THEN o.quantity ELSE half)
    BY <1>1, <1>3, <1>4 DEF OrderSet, Statuses, half
<1>6. AsPlanned(q)
    BY <1>3, <1>5 DEF AsPlanned, half
<1>7. OrderOk(q)
    BY <1>2, <1>3, <1>5, <1>6 DEF OrderOk, half
<1>8. Fills(o, q, at)
    BY <1>3, <1>5 DEF Fills, Kept, Ended, half
<1> QED BY <1>4, <1>5, <1>7, <1>8 DEF half

\* What a fill books: the account moves by what the order reports after it.
Booked(o, p) ==
    /\ cash' = cash + Moved(p)
    /\ positions' = [positions EXCEPT ![o.symbol].quantity = @ + Signed(p),
                                      ![o.symbol].market_value = @ - Moved(p)]
    /\ usdc' = usdc
    /\ activities' = Append(activities, "FEE")

\* What a poll may do to the order o and the account.
Polled(o, p) ==
    /\ OrderOk(p)
    /\ \/ Quiet(o, p) /\ UNCHANGED <<mock_account, activities>>
       \/ Fills(o, p, price[o.symbol]) /\ Booked(o, p)

(* apply_fill: nothing without a price or for an order that is no longer new, *)
(* else one fill, booked as the order reports it.                             *)
LEMMA FillStep ==
    ASSUME Settings, Orders, Account, NEW i \in DOMAIN orders, NEW n \in Nat,
           NEW extent \in {"full", "half"},
           orders[i].planned # "Rejected",
           orders[i].planned = "Filled" => extent = "full",
           orders[i].planned = "CancelledAfterPartialFill" => extent = "half",
           fill(i, [orders[i] EXCEPT !.polls = n], extent)
    PROVE  \E p : orders' = [orders EXCEPT ![i] = p] /\ Polled(orders[i], p)
<1>1. PICK o : o = orders[i]
    OBVIOUS
<1>2. OrderOk(o) /\ o \in OrderSet
    BY <1>1 DEF Orders, OrderOk
<1> DEFINE u == [o EXCEPT !.polls = n]
<1>3. OrderOk(u) /\ Quiet(o, u)
    BY <1>2, OrderPolled
<1>4. u.symbol = o.symbol /\ u.status = o.status
    BY <1>2 DEF OrderSet
<1>5. fill(i, u, extent)
    BY <1>1
<1>6. CASE fill_price(o.symbol) = NoPrice
    <2>1. orders' = [orders EXCEPT ![i] = u] /\ UNCHANGED <<mock_account, activities>>
        BY <1>4, <1>5, <1>6 DEF fill
    <2> QED BY <1>1, <1>3, <2>1 DEF Polled
<1>7. CASE fill_price(o.symbol) # NoPrice /\ o.status # "new"
    <2>1. orders' = [orders EXCEPT ![i] = u] /\ UNCHANGED <<mock_account, activities>>
        BY <1>1, <1>4, <1>5, <1>7 DEF fill, filledOrder, apply_fill
    <2> QED BY <1>1, <1>3, <2>1 DEF Polled
<1>8. CASE fill_price(o.symbol) # NoPrice /\ o.status = "new"
    <2> DEFINE at == price[o.symbol]
               p == filledOrder(u, extent)
    <2>1. o.symbol \in Symbols /\ at \in Prices
        BY <1>8 DEF fill_price, Settings
    <2>2. u.status = "new" /\ price[u.symbol] = at
        BY <1>4, <1>8
    <2>3. p = FilledAt(u, extent, at)
        BY <2>2 DEF filledOrder, FilledAt
    <2> HIDE DEF at, p
    <2>4. /\ OrderOk(p) /\ Fills(o, p, at)
          /\ p.filled = IF extent = "full" THEN o.quantity ELSE o.quantity \div 2
        BY <1>1, <1>2, <1>8, <2>1, <2>3, OrderFills
    <2>5. orders' = [orders EXCEPT ![i] = p] /\ apply_fill(i, extent)
        BY <1>4, <1>5, <1>8 DEF fill, p
    <2>6. p.side = o.side /\ o.side \in {"buy", "sell"} /\ p.price = at /\ at # NoPrice
        BY <1>2, <2>1, <2>4, MockAssumption DEF Fills, Kept, OrderSet
    <2> DEFINE cost == truncate(p.filled * at, Cent)
               sign == IF o.side = "buy" THEN 1 ELSE -1
    <2> HIDE DEF p
    <2>7. /\ cash' = cash - sign * cost
          /\ positions' = [positions EXCEPT ![o.symbol].quantity = @ + sign * p.filled,
                                            ![o.symbol].market_value = @ + sign * cost]
          /\ activities' = Append(activities, "FEE") /\ usdc' = usdc
        BY <1>1, <1>8, <2>4, <2>5 DEF apply_fill, at, push_state_activity
    <2>8. cost \in Int /\ p.filled \in Nat
        <3>1. p.filled \in Nat /\ at \in Nat /\ Cent \in Nat \ {0}
            BY <2>1, <2>4, MockAssumption DEF OrderOk, OrderSet
        <3>2. p.filled * at \in Int
            BY <3>1
        <3> QED BY <3>1, <3>2, Truncated
    <2>9. Moved(p) = -(sign * cost) /\ Signed(p) = sign * p.filled
        <3> DEFINE c == cost
        <3>1. Moved(p) = IF o.side = "buy" THEN -c ELSE c
            BY <2>6 DEF Moved
        <3>2. c \in Int
            BY <2>8
        <3> HIDE DEF c
        <3>3. -(sign * c) = IF o.side = "buy" THEN -c ELSE c
            BY <3>2
        <3>4. Signed(p) = sign * p.filled
            BY <2>6, <2>8 DEF Signed
        <3> QED BY <3>1, <3>3, <3>4 DEF c
    <2>10. sign * cost \in Int
        BY <2>8
    <2> DEFINE move == sign * cost
    <2>11. Booked(o, p)
        <3>1. cash - move = cash + Moved(p)
            <4>1. cash \in Int /\ move \in Int /\ Moved(p) = -move
                BY <2>9, <2>10 DEF Account
            <4> HIDE DEF move
            <4> QED BY <4>1
        <3>2. positions[o.symbol].market_value + move
                 = positions[o.symbol].market_value - Moved(p)
            <4>1. /\ positions[o.symbol].market_value \in Int /\ move \in Int
                  /\ Moved(p) = -move
                BY <2>1, <2>9, <2>10 DEF Account
            <4> HIDE DEF move
            <4> QED BY <4>1
        <3> HIDE DEF sign, cost
        <3> QED BY <2>7, <2>9, <3>1, <3>2 DEF Booked, move
    <2> QED BY <1>1, <2>4, <2>5, <2>11 DEF Polled, p, at
<1> QED BY <1>6, <1>7, <1>8

(* A poll that sets a status books nothing. *)
LEMMA StatusStep ==
    ASSUME Orders, NEW i \in DOMAIN orders, NEW n \in Nat, NEW s \in Statuses,
           s # "new" \/ s = orders[i].status,
           orders[i].planned = "Filled" => s = orders[i].status,
           orders[i].planned = "Rejected" => s \in {orders[i].status, "rejected"},
           orders[i].planned = "CancelledAfterPartialFill" =>
              s = orders[i].status \/ (orders[i].status # "new" /\ s = "canceled"),
           s \in {orders[i].status, "canceled", "rejected"},
           setStatus(i, [orders[i] EXCEPT !.polls = n], s)
    PROVE  \E p : orders' = [orders EXCEPT ![i] = p] /\ Polled(orders[i], p)
<1>1. PICK o : o = orders[i]
    OBVIOUS
<1>2. OrderOk(o)
    BY <1>1 DEF Orders
<1>3. PICK p : p = [[o EXCEPT !.polls = n] EXCEPT !.status = s]
    OBVIOUS
<1>4. OrderOk(p) /\ Quiet(o, p)
    BY <1>1, <1>2, <1>3, OrderStatusOk
<1>5. orders' = [orders EXCEPT ![i] = p] /\ UNCHANGED <<mock_account, activities>>
    BY <1>1, <1>3 DEF setStatus
<1> QED BY <1>1, <1>4, <1>5 DEF Polled

(* advance_polled_order changes the polled order in one of these ways, whatever *)
(* the mode and the plan.                                                      *)
LEMMA PollStep ==
    ASSUME Settings, Orders, Account, NEW i, Poll(i)
    PROVE  /\ i \in DOMAIN orders
           /\ \E p : orders' = [orders EXCEPT ![i] = p] /\ Polled(orders[i], p)
<1>1. i \in DOMAIN orders
    BY DEF Poll
<1>2. SUFFICES \E p : orders' = [orders EXCEPT ![i] = p] /\ Polled(orders[i], p)
    BY <1>1
<1>3. PICK o : o = orders[i]
    OBVIOUS
<1>4. OrderOk(o) /\ o \in OrderSet
    BY <1>1, <1>3 DEF Orders, OrderOk
<1>5. /\ o.polls \in Nat /\ o.status \in Statuses /\ o.planned \in Outcomes
    BY <1>4 DEF OrderSet
<1>6. PICK n \in Nat : n = IF o.status = "new" /\ o.polls < MaxDelay THEN o.polls + 1 ELSE o.polls
    BY <1>5
<1>7. PICK u : u = [o EXCEPT !.polls = n]
    OBVIOUS
<1>8. u.planned = o.planned /\ u.status = o.status
    BY <1>4, <1>7 DEF OrderSet
<1>9. advance_polled_order(i, u)
    BY <1>3, <1>4, <1>6, <1>7 DEF Poll, OrderSet
<1> DEFINE governing == poll_mode(mode, o.planned)
<1>10. /\ o.planned = "Filled" => governing = "HappyPath"
       /\ o.planned = "Rejected" => governing = "OrderRejected"
       /\ o.planned = "CancelledAfterPartialFill" => governing = "PartialFillThenCancel"
    BY DEF poll_mode
<1>11. governing = poll_mode(mode, u.planned)
    BY <1>8
<1>12. /\ o.planned = "Filled" => o.status \in {"new", "filled"}
       /\ o.planned = "Rejected" => o.status \in {"new", "rejected"}
    BY <1>4 DEF OrderOk, AsPlanned
<1> HIDE DEF governing
<1>13. \/ governing \in {"HappyPath", "DelayedFill"} /\ fill(i, u, "full")
       \/ setStatus(i, u, o.status)
       \/ governing = "OrderRejected" /\ setStatus(i, u, "rejected")
       \/ governing = "PartialFillThenCancel" /\ o.status = "new" /\ fill(i, u, "half")
       \/ governing = "PartialFillThenCancel" /\ o.status # "new" /\ setStatus(i, u, "canceled")
    BY <1>8, <1>9, <1>11 DEF advance_polled_order
<1>14. CASE governing \in {"HappyPath", "DelayedFill"} /\ fill(i, u, "full")
    BY <1>1, <1>3, <1>7, <1>10, <1>14, FillStep
<1>15. CASE setStatus(i, u, o.status)
    BY <1>1, <1>3, <1>5, <1>7, <1>15, StatusStep
<1>16. CASE governing = "OrderRejected" /\ setStatus(i, u, "rejected")
    <2>1. /\ "rejected" \in Statuses /\ "rejected" \in Ended
          /\ o.planned # "Filled" /\ o.planned # "CancelledAfterPartialFill"
        BY <1>10, <1>16 DEF Statuses, Ended
    <2> QED BY <1>1, <1>3, <1>7, <1>16, <2>1, StatusStep
<1>17. CASE governing = "PartialFillThenCancel" /\ o.status = "new" /\ fill(i, u, "half")
    BY <1>1, <1>3, <1>7, <1>10, <1>17, FillStep
<1>18. CASE governing = "PartialFillThenCancel" /\ o.status # "new" /\ setStatus(i, u, "canceled")
    <2>1. /\ "canceled" \in Statuses /\ "canceled" \in Ended
          /\ o.planned # "Filled" /\ o.planned # "Rejected"
        BY <1>10, <1>18 DEF Statuses, Ended
    <2> QED BY <1>1, <1>3, <1>7, <1>18, <2>1, StatusStep
<1> QED BY <1>13, <1>14, <1>15, <1>16, <1>17, <1>18

\* What recording an order books: USDC and cash of a crypto order, nothing else.
Recorded(p) ==
    /\ orders' = Append(orders, p)
    /\ OrderOk(p)
    /\ p.key # NoKey => ~recorded(p.key)
    /\ UNCHANGED <<positions, activities>>
    /\ cash' = cash + Moved(p)
    /\ usdc' = usdc + (IF p.symbol = Crypto THEN Signed(p) ELSE 0)
    /\ usdc' \in Nat
    /\ p.symbol \in Symbols => p.filled = 0 /\ p.status = "new"
    /\ p.symbol = Crypto => p.filled = p.quantity /\ p.status = "filled"

(* An equity order is recorded new, unfilled, under the key it was sent with. *)
LEMMA EquityOk ==
    ASSUME NEW r \in Requests, r.symbol # Crypto,
           NEW plan \in {"Filled", "Rejected", "CancelledAfterPartialFill", NoOutcome},
           NEW p, p = [MockOrder(r, r.amount) EXCEPT !.planned = plan]
    PROVE  /\ OrderOk(p) /\ p.filled = 0 /\ p.status = "new" /\ p.key = r.key
           /\ p.symbol \in Symbols /\ p.price = NoPrice
<1>1. /\ r.symbol \in Symbols /\ r.amount \in Quantities /\ r.side \in {"buy", "sell"}
      /\ r.key \in Keys \cup {NoKey}
    BY DEF Requests
<1>2. r.amount \in Nat /\ r.amount > 0 /\ r.amount % 2 = 0
    BY <1>1, MockAssumption
<1>3. PICK b \in BOOLEAN : b <=> r.sizing = "notional"
    OBVIOUS
<1>4. p = [symbol |-> r.symbol, quantity |-> r.amount, side |-> r.side,
           notional |-> b, status |-> "new", filled |-> 0, polls |-> 0,
           price |-> NoPrice, key |-> r.key, planned |-> plan]
    BY <1>3 DEF MockOrder
<1>5. /\ p \in OrderSet /\ p.symbol = r.symbol /\ p.status = "new" /\ p.filled = 0
      /\ p.quantity = r.amount /\ p.key = r.key /\ p.planned = plan /\ p.price = NoPrice
    BY <1>1, <1>2, <1>4 DEF OrderSet, Traded, Statuses, Outcomes
<1>6. 0 # r.amount \div 2
    BY <1>2
<1>7. AsPlanned(p)
    BY <1>5, <1>6 DEF AsPlanned
<1> QED BY <1>1, <1>5, <1>7 DEF OrderOk

(* A crypto order is recorded filled at 1, without its key. *)
LEMMA CryptoOk ==
    ASSUME NEW r \in Requests, r.symbol = Crypto,
           NEW p, p = [MockOrder(r, r.amount) EXCEPT !.status = "filled", !.filled = r.amount,
                                                     !.price = 1, !.key = NoKey]
    PROVE  /\ OrderOk(p) /\ p.filled = r.amount /\ p.status = "filled" /\ p.key = NoKey
           /\ p.quantity = r.amount
           /\ p.symbol = Crypto /\ p.price = 1 /\ p.side = r.side
           /\ r.side \in {"buy", "sell"} /\ r.amount \in Nat
<1>1. /\ r.amount \in Sizes /\ r.side \in {"buy", "sell"}
    BY MockAssumption DEF Requests
<1>2. r.amount \in Nat /\ r.amount > 0
    BY <1>1, MockAssumption
<1>3. PICK b \in BOOLEAN : b <=> r.sizing = "notional"
    OBVIOUS
<1>4. PICK m : m = MockOrder(r, r.amount)
    OBVIOUS
<1>5. m = [symbol |-> Crypto, quantity |-> r.amount, side |-> r.side,
           notional |-> b, status |-> "new", filled |-> 0, polls |-> 0,
           price |-> NoPrice, key |-> r.key, planned |-> NoOutcome]
    BY <1>3, <1>4 DEF MockOrder
<1>6. /\ m \in OrderSet /\ m.symbol = Crypto /\ m.quantity = r.amount /\ m.side = r.side
      /\ m.planned = NoOutcome
    <2>1. r.key \in Keys \cup {NoKey}
        BY DEF Requests
    <2> QED BY ONLY <1>1, <1>2, <1>5, <2>1 DEF OrderSet, Traded, Statuses, Outcomes
<1>7. p = [m EXCEPT !.status = "filled", !.filled = r.amount, !.price = 1, !.key = NoKey]
    BY <1>4
<1>8. /\ p \in OrderSet /\ p.symbol = Crypto /\ p.status = "filled" /\ p.filled = r.amount
      /\ p.quantity = r.amount /\ p.key = NoKey /\ p.planned = NoOutcome /\ p.price = 1
      /\ p.side = r.side
    BY ONLY <1>2, <1>6, <1>7 DEF OrderSet, Statuses
<1>9. AsPlanned(p)
    BY <1>8 DEF AsPlanned, NoOutcome
<1> QED BY <1>1, <1>2, <1>8, <1>9 DEF OrderOk

(* Nothing is nothing on either side of the account. *)
LEMMA NoSign == ASSUME NEW n \in Int, n <= 0, n >= 0 PROVE n = 0 /\ -n = 0
<1>1. n = 0
    OBVIOUS
<1>2. -n <= 0 /\ -n >= 0 /\ -n \in Int
    OBVIOUS
<1>3. PICK m \in Int : m = -n
    BY <1>2
<1>4. m = 0
    BY <1>2, <1>3
<1> QED BY <1>1, <1>3, <1>4

(* An order without a fill moved nothing. *)
LEMMA MovedNothing ==
    ASSUME NEW p, p.filled \in Nat, p.filled <= 0, p.price \in Prices \cup {NoPrice, 1}
    PROVE  Moved(p) = 0 /\ Signed(p) = 0
<1>1. Cent \in Nat \ {0} /\ \A q \in Prices : q \in Nat
    BY MockAssumption
<1> DEFINE at == IF p.price = NoPrice THEN 0 ELSE p.price
<1>2. at \in Nat
    BY <1>1
<1> HIDE DEF at
<1> DEFINE c == truncate(p.filled * at, Cent)
<1>3. c \in Int /\ c <= 0 /\ c >= 0
    <2>1. p.filled * at = 0
        BY <1>2
    <2> QED BY <1>1, <2>1, Truncated
<1>4. Moved(p) = IF p.side = "buy" THEN -c ELSE c
    BY DEF Moved, at
<1> HIDE DEF c
<1>5. c = 0 /\ -c = 0
    BY <1>3, NoSign
<1>6. p.filled = 0 /\ -p.filled = 0
    BY NoSign
<1>7. Moved(p) = 0
    BY <1>4, <1>5
<1>8. Signed(p) = 0
    BY <1>6 DEF Signed
<1> QED BY <1>7, <1>8

LEMMA MovedType ==
    ASSUME NEW p, OrderOk(p)
    PROVE  Moved(p) \in Int /\ Signed(p) \in Int
<1>1. Cent \in Nat \ {0} /\ \A q \in Prices : q \in Nat
    BY MockAssumption
<1>2. p.filled \in Nat /\ p.price \in Prices \cup {NoPrice, 1}
    BY DEF OrderOk, OrderSet
<1> DEFINE at == IF p.price = NoPrice THEN 0 ELSE p.price
<1>3. at \in Nat
    BY <1>1, <1>2
<1> HIDE DEF at
<1>4. p.filled * at \in Int
    BY <1>2, <1>3
<1>5. truncate(p.filled * at, Cent) \in Int
    BY <1>1, <1>4, Truncated
<1> QED BY <1>2, <1>5 DEF Moved, Signed, at

(* POST orders: refused without a trace, or one order recorded and booked. *)
LEMMA PlaceStep ==
    ASSUME Settings, Orders, Account, NEW r \in Requests, Place(r)
    PROVE  /\ Settings' /\ given' = given /\ Len(orders) < MaxOrders
           /\ \/ UNCHANGED <<orders, mock_account, activities>>
              \/ \E p : Recorded(p)
<1>1. Len(orders) < MaxOrders /\ UNCHANGED <<settings, changes, given>>
    BY DEF Place
<1>2. CASE unauthorized > 0
    <2>1. /\ UNCHANGED <<rotating, transient, orders, mock_account, activities>>
          /\ unauthorized' = unauthorized - 1
        BY <1>2 DEF Place, Refuse
    <2>2. unauthorized' \in 0..MaxFaults
        BY <1>2, <2>1, MockAssumption DEF Settings
    <2> QED BY <1>1, <2>1, <2>2 DEF Settings, settings
<1>3. CASE ~(unauthorized > 0)
    <2>1. unauthorized' = unauthorized
        BY <1>3 DEF Place
    <2>2. CASE Refuse
        BY <1>1, <2>1, <2>2 DEF Refuse, Settings, settings
    <2>3. CASE r.symbol = Crypto /\ handle_crypto_order(r) /\ ~Refuse
        <3>1. /\ apply_crypto_balances(r)
              /\ UNCHANGED <<rotating, transient, positions, activities>>
            BY <2>3 DEF handle_crypto_order
        <3>2. PICK p : p = [MockOrder(r, r.amount) EXCEPT !.status = "filled",
                               !.filled = r.amount, !.price = 1, !.key = NoKey]
            OBVIOUS
        <3>3. orders' = Append(orders, p)
            BY <2>3, <3>2 DEF handle_crypto_order
        <3>4. /\ OrderOk(p) /\ p.filled = r.amount /\ p.status = "filled" /\ p.key = NoKey
              /\ p.quantity = r.amount
              /\ p.symbol = Crypto /\ p.price = 1 /\ p.side = r.side
              /\ r.side \in {"buy", "sell"} /\ r.amount \in Nat
            BY <2>3, <3>2, CryptoOk
        <3>5. Crypto \notin Symbols /\ 1 # NoPrice /\ Cent \in Nat \ {0}
            BY MockAssumption
        <3> DEFINE c == truncate(r.amount, Cent)
        <3>6. c \in Int
            BY <3>4, <3>5, Truncated
        <3>7. p.filled * 1 = r.amount
            BY <3>4
        <3>8. Moved(p) = IF r.side = "buy" THEN -c ELSE c
            BY <3>4, <3>5, <3>7 DEF Moved
        <3>9. cash' = IF r.side = "buy" THEN cash - c ELSE cash + c
            BY <3>1 DEF apply_crypto_balances
        <3> HIDE DEF c
        <3>10. cash' = cash + Moved(p)
            BY <3>6, <3>8, <3>9 DEF Account
        <3>11. usdc' = usdc + Signed(p)
            BY <3>1, <3>4 DEF apply_crypto_balances, Signed, signedAmount
        <3>12. usdc' \in Nat
            BY <3>1, <3>4 DEF apply_crypto_balances, signedAmount, Account
        <3>13. Recorded(p)
            BY <3>1, <3>3, <3>4, <3>5, <3>10, <3>11, <3>12 DEF Recorded
        <3>14. Settings'
            BY <1>1, <2>1, <3>1 DEF Settings, settings
        <3> QED BY <1>1, <3>13, <3>14
    <2>4. CASE r.symbol # Crypto /\ record_equity_order(r) /\ ~Refuse
        <3> DEFINE rotate == mode = "RotatingOutcomes"
        <3>1. PICK plan : plan = IF rotate THEN ROTATING_OUTCOMES[rotating] ELSE NoOutcome
            OBVIOUS
        <3>2. plan \in {"Filled", "Rejected", "CancelledAfterPartialFill", NoOutcome}
            BY <3>1 DEF ROTATING_OUTCOMES, Settings
        <3>3. PICK p : p = [MockOrder(r, r.amount) EXCEPT !.planned = plan]
            OBVIOUS
        <3>4. /\ orders' = Append(orders, p) /\ UNCHANGED <<mock_account, activities>>
              /\ rotating' = IF rotate THEN (rotating % 3) + 1 ELSE rotating
              /\ transient' = IF transient > 0 THEN transient - 1 ELSE 0
              /\ r.key = NoKey \/ ~recorded(r.key)
            BY <2>4, <3>1, <3>3 DEF record_equity_order
        <3>5. /\ OrderOk(p) /\ p.filled = 0 /\ p.status = "new" /\ p.key = r.key
              /\ p.symbol \in Symbols /\ p.price = NoPrice
            BY <2>4, <3>2, <3>3, EquityOk
        <3>6. Moved(p) = 0
            BY <3>5, MovedNothing
        <3>7. p.symbol # Crypto
            BY <3>5, MockAssumption
        <3>8. Recorded(p)
            BY <3>4, <3>5, <3>6, <3>7 DEF Recorded, Account, mock_account
        <3>9. rotating' \in 1..3
            BY <3>4 DEF Settings
        <3>10. transient' \in 0..MaxFaults
            BY <3>4, MockAssumption DEF Settings
        <3> QED BY <1>1, <2>1, <3>8, <3>9, <3>10 DEF Settings, settings
    <2> QED BY <1>3, <2>2, <2>3, <2>4 DEF Place
<1> QED BY <1>2, <1>3

-----------------------------------------------------------------------------
LEMMA Domains ==
    ASSUME Orders
    PROVE  /\ Len(orders) \in Nat /\ DOMAIN orders = 1..Len(orders)
           /\ IsFiniteSet(DOMAIN orders)
<1>1. Len(orders) \in Nat /\ DOMAIN orders = 1..Len(orders)
    BY DEF Orders
<1>2. IsFiniteSet(1..Len(orders))
    BY <1>1, FS_Interval
<1> QED BY <1>1, <1>2

(* Recording an order, and updating one, keep the book in shape. *)
LEMMA Appended ==
    ASSUME Orders, NEW p, OrderOk(p), orders' = Append(orders, p), Len(orders) < MaxOrders
    PROVE  /\ Orders'
           /\ DOMAIN orders' = 1..(Len(orders) + 1)
           /\ \A i \in DOMAIN orders : orders'[i] = orders[i]
           /\ orders'[Len(orders) + 1] = p
<1>1. orders \in Seq(OrderSet) /\ p \in OrderSet /\ Len(orders) \in Nat
    BY DEF Orders, OrderOk
<1>2. /\ orders' \in Seq(OrderSet) /\ Len(orders') = Len(orders) + 1
      /\ DOMAIN orders' = 1..(Len(orders) + 1)
      /\ \A i \in DOMAIN orders : orders'[i] = orders[i]
      /\ orders'[Len(orders) + 1] = p
    BY <1>1
<1>3. ASSUME NEW i \in DOMAIN orders' PROVE OrderOk(orders'[i])
    <2>1. i \in DOMAIN orders \/ i = Len(orders) + 1
        BY <1>1, <1>2
    <2> QED BY <1>2, <2>1 DEF Orders
<1>4. Len(orders') <= MaxOrders
    BY <1>1, <1>2, MockAssumption
<1> QED BY <1>2, <1>3, <1>4 DEF Orders

LEMMA Updated ==
    ASSUME Orders, NEW i \in DOMAIN orders, NEW p, OrderOk(p),
           orders' = [orders EXCEPT ![i] = p]
    PROVE  /\ Orders'
           /\ DOMAIN orders' = DOMAIN orders
           /\ \A j \in DOMAIN orders : j # i => orders'[j] = orders[j]
           /\ orders'[i] = p
<1>1. orders \in Seq(OrderSet) /\ p \in OrderSet /\ Len(orders) \in Nat
    BY DEF Orders, OrderOk
<1>2. /\ orders' \in Seq(OrderSet) /\ Len(orders') = Len(orders)
      /\ DOMAIN orders' = DOMAIN orders
      /\ \A j \in DOMAIN orders : j # i => orders'[j] = orders[j]
      /\ orders'[i] = p
    BY <1>1
<1>3. ASSUME NEW j \in DOMAIN orders' PROVE OrderOk(orders'[j])
    BY <1>2 DEF Orders
<1> QED BY <1>2, <1>3 DEF Orders

\* The cash all orders moved, and what an order brought of the symbol s.
Paid == SumFunction([i \in DOMAIN orders |-> Moved(orders[i])])
Part(o, s) == IF o.symbol = s THEN Signed(o) ELSE 0

LEMMA PartType == ASSUME NEW o, OrderOk(o) PROVE \A s : Part(o, s) \in Int
BY MovedType DEF Part

(* The totals after an order was recorded, *)
LEMMA AppendSums ==
    ASSUME Orders, NEW p, OrderOk(p), orders' = Append(orders, p), Len(orders) < MaxOrders
    PROVE  /\ Paid \in Int /\ Paid' = Paid + Moved(p)
           /\ \A s : Brought(s) \in Int /\ Brought(s)' = Brought(s) + Part(p, s)
<1> DEFINE n == Len(orders)
<1>1. /\ DOMAIN orders' = 1..(n + 1)
      /\ \A i \in DOMAIN orders : orders'[i] = orders[i]
      /\ orders'[n + 1] = p
      /\ \A i \in DOMAIN orders' : OrderOk(orders'[i])
    BY Appended DEF Orders
<1>2. n \in Nat /\ DOMAIN orders = 1..n /\ \A i \in DOMAIN orders : OrderOk(orders[i])
    BY Domains DEF Orders
<1> HIDE DEF n
<1>3. n + 1 \in 1..(n + 1)
    BY <1>2
<1>4. Paid \in Int /\ Paid' = Paid + Moved(p)
    <2> DEFINE f == [i \in 1..n |-> Moved(orders[i])]
               g == [i \in 1..(n + 1) |-> Moved(orders'[i])]
    <2>1. f \in [1..n -> Int] /\ g \in [1..(n + 1) -> Int]
        BY <1>1, <1>2, MovedType
    <2>2. \A i \in 1..n : g[i] = f[i]
        BY <1>1, <1>2
    <2>3. g[n + 1] = Moved(p)
        BY <1>1, <1>3
    <2>4. Paid = SumFunction(f) /\ Paid' = SumFunction(g)
        BY <1>1, <1>2 DEF Paid
    <2> HIDE DEF f, g
    <2> QED BY <1>2, <2>1, <2>2, <2>3, <2>4, SumAppend
<1>5. ASSUME NEW s PROVE Brought(s) \in Int /\ Brought(s)' = Brought(s) + Part(p, s)
    <2> DEFINE f == [i \in 1..n |-> Part(orders[i], s)]
               g == [i \in 1..(n + 1) |-> Part(orders'[i], s)]
    <2>1. f \in [1..n -> Int] /\ g \in [1..(n + 1) -> Int]
        BY <1>1, <1>2, PartType
    <2>2. \A i \in 1..n : g[i] = f[i]
        BY <1>1, <1>2
    <2>3. g[n + 1] = Part(p, s)
        BY <1>1, <1>3
    <2>4. Brought(s) = SumFunction(f) /\ Brought(s)' = SumFunction(g)
        BY <1>1, <1>2 DEF Brought, Part
    <2> HIDE DEF f, g
    <2> QED BY <1>2, <2>1, <2>2, <2>3, <2>4, SumAppend
<1> QED BY <1>4, <1>5

(* and after one was polled. *)
LEMMA UpdateSums ==
    ASSUME Orders, NEW k \in DOMAIN orders, NEW p, OrderOk(p),
           orders' = [orders EXCEPT ![k] = p]
    PROVE  /\ Paid \in Int /\ Paid' = Paid - Moved(orders[k]) + Moved(p)
           /\ \A s : /\ Brought(s) \in Int
                     /\ Brought(s)' = Brought(s) - Part(orders[k], s) + Part(p, s)
<1> DEFINE D == DOMAIN orders
<1>1. /\ DOMAIN orders' = D /\ orders'[k] = p
      /\ \A i \in D \ {k} : orders'[i] = orders[i]
      /\ \A i \in D : OrderOk(orders'[i])
    BY Updated DEF Orders
<1>2. IsFiniteSet(D) /\ k \in D /\ \A i \in D : OrderOk(orders[i])
    BY Domains DEF Orders
<1> HIDE DEF D
<1>3. Paid \in Int /\ Paid' = Paid - Moved(orders[k]) + Moved(p)
    <2> DEFINE f == [i \in D |-> Moved(orders[i])]
               g == [i \in D |-> Moved(orders'[i])]
    <2>1. f \in [D -> Int] /\ g \in [D -> Int]
        BY <1>1, <1>2, MovedType
    <2>2. \A i \in D \ {k} : g[i] = f[i]
        BY <1>1
    <2>3. g[k] = Moved(p) /\ f[k] = Moved(orders[k])
        BY <1>1, <1>2
    <2>4. Paid = SumFunction(f) /\ Paid' = SumFunction(g)
        BY <1>1 DEF Paid, D
    <2> HIDE DEF f, g
    <2> QED BY <1>2, <2>1, <2>2, <2>3, <2>4, TotalUpdate
<1>4. ASSUME NEW s
      PROVE  Brought(s) \in Int /\ Brought(s)' = Brought(s) - Part(orders[k], s) + Part(p, s)
    <2> DEFINE f == [i \in D |-> Part(orders[i], s)]
               g == [i \in D |-> Part(orders'[i], s)]
    <2>1. f \in [D -> Int] /\ g \in [D -> Int]
        BY <1>1, <1>2, PartType
    <2>2. \A i \in D \ {k} : g[i] = f[i]
        BY <1>1
    <2>3. g[k] = Part(p, s) /\ f[k] = Part(orders[k], s)
        BY <1>1, <1>2
    <2>4. Brought(s) = SumFunction(f) /\ Brought(s)' = SumFunction(g)
        BY <1>1 DEF Brought, Part, D
    <2> HIDE DEF f, g
    <2> QED BY <1>2, <2>1, <2>2, <2>3, <2>4, TotalUpdate
<1> QED BY <1>3, <1>4

\* The rows of the ledger that are fees, and the equity orders that filled.
Fees == {i \in DOMAIN activities : activities[i] = "FEE"}
Executed == {i \in DOMAIN orders : orders[i].symbol # Crypto /\ orders[i].filled > 0}

(* Both sides of the fee count are finite. *)
LEMMA LedgerSets ==
    ASSUME Orders, Ledger
    PROVE  /\ Cardinality(Fees) = Cardinality(Executed)
           /\ IsFiniteSet(Fees) /\ IsFiniteSet(Executed)
           /\ Len(activities) \in Nat /\ DOMAIN activities = 1..Len(activities)
<1>1. Len(activities) \in Nat /\ DOMAIN activities = 1..Len(activities)
    BY DEF Ledger
<1>2. IsFiniteSet(DOMAIN activities)
    <2>1. IsFiniteSet(1..Len(activities))
        BY <1>1, FS_Interval
    <2> QED BY <1>1, <2>1
<1>3. Fees \in SUBSET DOMAIN activities /\ Executed \in SUBSET DOMAIN orders
    BY DEF Fees, Executed
<1>4. IsFiniteSet(Fees) /\ IsFiniteSet(Executed)
    BY <1>2, <1>3, Domains, FS_Subset
<1> QED BY <1>1, <1>4 DEF Ledger, OneFeePerFill, Fees, Executed

(* The ledger agrees when neither side changes, *)
LEMMA QuietLedger ==
    ASSUME Orders, Ledger, activities' = activities, Executed' = Executed
    PROVE  Ledger'
BY DEF Ledger, OneFeePerFill, Executed

(* when a fill adds a fee to one and an order to the other, *)
LEMMA FeeLedger ==
    ASSUME Orders, Ledger, activities' = Append(activities, "FEE"),
           NEW i, i \notin Executed, Executed' = Executed \cup {i}
    PROVE  Ledger'
<1> DEFINE n == Len(activities)
<1>1. /\ Cardinality(Fees) = Cardinality(Executed)
      /\ IsFiniteSet(Fees) /\ IsFiniteSet(Executed)
      /\ n \in Nat /\ DOMAIN activities = 1..n
    BY LedgerSets
<1>2. /\ activities' \in Seq({"FEE", "DIV"})
      /\ DOMAIN activities' = 1..(n + 1)
      /\ \A j \in 1..n : activities'[j] = activities[j]
      /\ activities'[n + 1] = "FEE"
    BY <1>1 DEF Ledger
<1> HIDE DEF n
<1>3. Fees' = Fees \cup {n + 1} /\ n + 1 \notin Fees
    BY <1>1, <1>2 DEF Fees
<1>4. Cardinality(Fees') = Cardinality(Fees) + 1
        /\ Cardinality(Executed') = Cardinality(Executed) + 1
    BY <1>1, <1>3, FS_AddElement
<1>5. OneFeePerFill'
    BY <1>1, <1>4 DEF OneFeePerFill, Fees, Executed
<1> QED BY <1>2, <1>5 DEF Ledger

(* and when a test pushes a row that is no fee. *)
LEMMA RowLedger ==
    ASSUME Orders, Ledger, activities' = Append(activities, "DIV"), orders' = orders
    PROVE  Ledger'
<1> DEFINE n == Len(activities)
<1>1. n \in Nat /\ DOMAIN activities = 1..n
    BY LedgerSets
<1>2. /\ activities' \in Seq({"FEE", "DIV"})
      /\ DOMAIN activities' = 1..(n + 1)
      /\ \A j \in 1..n : activities'[j] = activities[j]
      /\ activities'[n + 1] = "DIV"
    BY <1>1 DEF Ledger
<1> HIDE DEF n
<1>3. Fees' = Fees
    BY <1>1, <1>2 DEF Fees
<1>4. OneFeePerFill'
    BY <1>3 DEF Ledger, OneFeePerFill, Fees
<1> QED BY <1>2, <1>4 DEF Ledger

\* What a step that leaves the settings alone must keep.
Books == Orders /\ Account /\ AccountIsItsOrders /\ KeyNamesOneOrder /\ Ledger

(* Recording an order keeps the books. *)
LEMMA PlaceBooks ==
    ASSUME Books, NEW p, Recorded(p), given' = given, Len(orders) < MaxOrders
    PROVE  Books'
<1>1. /\ Orders /\ Account /\ AccountIsItsOrders /\ KeyNamesOneOrder /\ Ledger
      /\ OrderOk(p) /\ orders' = Append(orders, p)
    BY DEF Books, Recorded
<1> DEFINE n == Len(orders)
<1>2. /\ Orders'
      /\ DOMAIN orders' = 1..(n + 1)
      /\ \A i \in DOMAIN orders : orders'[i] = orders[i]
      /\ orders'[n + 1] = p
    BY <1>1, Appended
<1>3. n \in Nat /\ DOMAIN orders = 1..n
    BY <1>1, Domains
<1> HIDE DEF n
<1>4. /\ Paid \in Int /\ Paid' = Paid + Moved(p)
      /\ \A s : Brought(s) \in Int /\ Brought(s)' = Brought(s) + Part(p, s)
    BY <1>1, AppendSums
<1>5. Moved(p) \in Int /\ \A s : Part(p, s) \in Int
    BY <1>1, MovedType, PartType
<1>6. /\ cash' = cash + Moved(p) /\ positions' = positions /\ activities' = activities
      /\ usdc' = usdc + Part(p, Crypto) /\ usdc' \in Nat
    BY DEF Recorded, Part
<1>7. Account'
    BY <1>1, <1>5, <1>6 DEF Account
<1>8. ASSUME NEW s \in Symbols PROVE Part(p, s) = 0
    <2>1. CASE p.symbol = s
        <3>1. p.filled \in Nat /\ p.filled <= 0 /\ p.price \in Prices \cup {NoPrice, 1}
            BY <1>1, <2>1 DEF Recorded, OrderOk, OrderSet
        <3> QED BY <3>1, MovedNothing DEF Part
    <2>2. CASE p.symbol # s
        BY <2>2 DEF Part
    <2> QED BY <2>1, <2>2
<1>9. AccountIsItsOrders'
    <2>1. cash = Paid /\ cash' = Paid'
        BY <1>1, <1>4, <1>6 DEF AccountIsItsOrders, Paid
    <2>2. usdc' = given[Crypto] + Brought(Crypto)'
        <3>1. usdc = given[Crypto] + Brought(Crypto) /\ given[Crypto] \in Int
            BY <1>1 DEF AccountIsItsOrders, Account, Traded
        <3> QED BY <1>4, <1>5, <1>6, <3>1
    <2>3. ASSUME NEW s \in Symbols PROVE positions[s].quantity = given[s] + Brought(s)'
        <3>1. Brought(s)' = Brought(s)
            BY <1>4, <1>8
        <3> QED BY <1>1, <3>1 DEF AccountIsItsOrders
    <2> QED BY <1>6, <2>1, <2>2, <2>3 DEF AccountIsItsOrders, Paid
<1>10. KeyNamesOneOrder'
    <2>1. \A i \in DOMAIN orders : orders[i].key = p.key => p.key = NoKey
        BY DEF Recorded, recorded
    <2> SUFFICES ASSUME NEW i \in DOMAIN orders', NEW j \in DOMAIN orders',
                        orders'[i].key = orders'[j].key, i # j
                 PROVE  orders'[i].key = NoKey
        BY DEF KeyNamesOneOrder
    <2>2. (i \in DOMAIN orders \/ i = n + 1) /\ (j \in DOMAIN orders \/ j = n + 1)
        BY <1>2, <1>3
    <2> QED BY <1>1, <1>2, <2>1, <2>2 DEF KeyNamesOneOrder
<1>11. Executed' = Executed
    <2>1. p.symbol # Crypto => ~(p.filled > 0)
        BY <1>1 DEF Recorded, OrderOk, OrderSet, Traded
    <2> QED BY <1>2, <1>3, <2>1 DEF Executed
<1>12. Ledger'
    BY <1>1, <1>6, <1>11, QuietLedger
<1> QED BY <1>2, <1>7, <1>9, <1>10, <1>12 DEF Books

LEMMA BroughtType == ASSUME Orders PROVE \A s : Brought(s) \in Int
<1> SUFFICES ASSUME NEW s PROVE Brought(s) \in Int
    OBVIOUS
<1> DEFINE D == DOMAIN orders
           f == [i \in D |-> Part(orders[i], s)]
<1>1. IsFiniteSet(D) /\ f \in [D -> Int]
    BY Domains, PartType DEF Orders
<1>2. Brought(s) = SumFunctionOnSet(f, D)
    BY DEF Brought, Part, SumFunction
<1> HIDE DEF D, f
<1> QED BY <1>1, <1>2, SumType

(* So does a poll: a quiet one changes no amount, a fill moves the account by *)
(* what the order reports after it.                                           *)
LEMMA PollBooks ==
    ASSUME Books, NEW i \in DOMAIN orders, NEW p, orders' = [orders EXCEPT ![i] = p],
           Polled(orders[i], p), given' = given
    PROVE  Books'
<1>1. /\ Orders /\ Account /\ AccountIsItsOrders /\ KeyNamesOneOrder /\ Ledger /\ OrderOk(p)
    BY DEF Books, Polled
<1>2. PICK o : o = orders[i]
    OBVIOUS
<1>3. OrderOk(o) /\ Polled(o, p) /\ Kept(o, p)
    BY <1>1, <1>2 DEF Orders, Polled, Quiet, Fills
<1>4. /\ Orders' /\ DOMAIN orders' = DOMAIN orders /\ orders'[i] = p
      /\ \A j \in DOMAIN orders : j # i => orders'[j] = orders[j]
    BY <1>1, Updated
<1>5. /\ Paid \in Int /\ Paid' = Paid - Moved(o) + Moved(p)
      /\ \A s : Brought(s) \in Int /\ Brought(s)' = Brought(s) - Part(o, s) + Part(p, s)
    BY <1>1, <1>2, UpdateSums
<1>6. Moved(p) \in Int /\ Moved(o) \in Int /\ \A s : Part(p, s) \in Int /\ Part(o, s) \in Int
    BY <1>1, <1>3, MovedType, PartType
<1>7. KeyNamesOneOrder'
    <2>1. \A j \in DOMAIN orders : orders'[j].key = orders[j].key
        BY <1>2, <1>3, <1>4 DEF Kept
    <2> QED BY <1>1, <1>4, <2>1 DEF KeyNamesOneOrder
<1>8. /\ cash = Paid /\ usdc = given[Crypto] + Brought(Crypto) /\ given[Crypto] \in Int
      /\ \A s \in Symbols : positions[s].quantity = given[s] + Brought(s) /\ given[s] \in Int
    BY <1>1 DEF AccountIsItsOrders, Paid, Account, Traded
<1>9. CASE Quiet(o, p) /\ UNCHANGED <<mock_account, activities>>
    <2>1. Moved(p) = Moved(o) /\ \A s : Part(p, s) = Part(o, s)
        BY <1>9 DEF Quiet, Kept, Moved, Part, Signed
    <2>2. Paid' = Paid /\ \A s : Brought(s)' = Brought(s)
        BY <1>5, <1>6, <2>1
    <2>3. Executed' = Executed
        <3>1. p.symbol = o.symbol /\ p.filled = o.filled
            BY <1>9 DEF Quiet, Kept
        <3> QED BY <1>2, <1>4, <3>1 DEF Executed
    <2>4. Ledger'
        BY <1>1, <1>9, <2>3, QuietLedger
    <2>5. Account' /\ AccountIsItsOrders'
        BY <1>1, <1>8, <1>9, <2>2 DEF Account, AccountIsItsOrders, Paid, mock_account
    <2> QED BY <1>4, <1>7, <2>4, <2>5 DEF Books
<1>10. CASE Fills(o, p, price[o.symbol]) /\ Booked(o, p)
    <2>1. /\ o.symbol \in Symbols /\ o.symbol # Crypto /\ p.symbol = o.symbol
          /\ o.filled \in Nat /\ o.filled <= 0 /\ o.price \in Prices \cup {NoPrice, 1}
          /\ p.filled > 0
        BY <1>3, <1>10, MockAssumption DEF Fills, Kept, OrderOk, OrderSet
    <2>2. Moved(o) = 0 /\ Signed(o) = 0
        BY <2>1, MovedNothing
    <2>3. /\ Part(p, o.symbol) = Signed(p)
          /\ \A s : Part(o, s) = 0
          /\ \A s : s # o.symbol => Part(p, s) = 0
        BY <2>1, <2>2 DEF Part
    <2>4. cash' = Paid'
        BY <1>5, <1>6, <1>8, <1>10, <2>2 DEF Booked
    <2>5. usdc' = usdc /\ Brought(Crypto)' = Brought(Crypto)
        BY <1>5, <1>10, <2>1, <2>3 DEF Booked
    <2>6. PICK m, q : m = positions[o.symbol].market_value - Moved(p)
                      /\ q = positions[o.symbol].quantity + Signed(p)
        OBVIOUS
    <2>7. /\ positions \in [Symbols -> [quantity : Int, market_value : Int]]
          /\ positions[o.symbol] \in [quantity : Int, market_value : Int]
        BY <1>1, <2>1 DEF Account
    <2>8. m \in Int /\ q \in Int /\ Signed(p) \in Int
        BY <1>1, <1>6, <2>6, <2>7, MovedType
    <2>9. positions' = [positions EXCEPT ![o.symbol].quantity = @ + Signed(p),
                                         ![o.symbol].market_value = @ - Moved(p)]
        BY <1>10 DEF Booked
    <2>10. /\ positions' \in [Symbols -> [quantity : Int, market_value : Int]]
           /\ positions'[o.symbol].quantity = q
           /\ \A s \in Symbols : s # o.symbol => positions'[s] = positions[s]
        <3>1. PICK a, b : a = Signed(p) /\ b = Moved(p)
            OBVIOUS
        <3>2. positions' = [positions EXCEPT ![o.symbol].quantity = @ + a,
                                             ![o.symbol].market_value = @ - b]
            BY <2>9, <3>1
        <3>3. a \in Int /\ b \in Int /\ q = positions[o.symbol].quantity + a
            BY <1>1, <2>6, <3>1, MovedType
        <3> QED BY ONLY <2>1, <2>7, <3>2, <3>3
    <2>11. ASSUME NEW s \in Symbols PROVE positions'[s].quantity = given[s] + Brought(s)'
        <3>1. CASE s = o.symbol
            <4>1. Brought(s)' = Brought(s) + Signed(p)
                BY <1>5, <2>3, <2>8, <3>1
            <4> QED BY <1>5, <1>8, <2>6, <2>8, <2>10, <3>1, <4>1
        <3>2. CASE s # o.symbol
            <4>1. Brought(s)' = Brought(s)
                BY <1>5, <2>3, <3>2
            <4> QED BY <1>8, <2>10, <3>2, <4>1
        <3> QED BY <3>1, <3>2
    <2>12. cash' \in Int
        BY <1>5, <1>6, <2>4
    <2>13. Account'
        BY <1>1, <2>5, <2>10, <2>12 DEF Account
    <2>14. AccountIsItsOrders'
        BY <1>8, <2>4, <2>5, <2>11 DEF AccountIsItsOrders, Paid
    <2>15. i \notin Executed /\ Executed' = Executed \cup {i}
        BY <1>2, <1>4, <2>1 DEF Executed
    <2>16. Ledger'
        BY <1>1, <1>10, <2>15, FeeLedger DEF Booked
    <2> QED BY <1>4, <1>7, <2>13, <2>14, <2>16 DEF Books
<1> QED BY <1>3, <1>9, <1>10 DEF Polled

(* What the orders alone determine stays while they do. *)
LEMMA SameOrders ==
    ASSUME Books, orders' = orders
    PROVE  /\ Orders' /\ KeyNamesOneOrder' /\ Paid' = Paid /\ \A s : Brought(s)' = Brought(s)
           /\ activities' = activities => Ledger'
BY DEF Books, Orders, KeyNamesOneOrder, Paid, Brought, Ledger, OneFeePerFill

LEMMA SameBooks ==
    ASSUME Books, UNCHANGED <<orders, mock_account, activities, given>>
    PROVE  Books'
BY SameOrders DEF Books, Account, AccountIsItsOrders, Paid, mock_account

(* The books balance at the start, *)
LEMMA InitBooks == Init => Settings /\ Books
<1> SUFFICES ASSUME Init PROVE Settings /\ Books
    OBVIOUS
<1>1. orders = <<>> /\ activities = <<>> /\ DOMAIN orders = {} /\ DOMAIN activities = {}
    BY DEF Init
<1>2. Settings
    BY MockAssumption DEF Init, Settings, Modes
<1>3. Orders
    BY <1>1, MockAssumption DEF Orders
<1>4. Account
    BY DEF Init, Account, Traded, NoPosition
<1>5. \A f : DOMAIN f = {} => SumFunction(f) = 0
    BY SumUnfolds DEF SumFunction
<1>6. Paid = 0 /\ \A s : Brought(s) = 0
    BY <1>1, <1>5 DEF Paid, Brought
<1>7. AccountIsItsOrders
    BY <1>6 DEF Init, AccountIsItsOrders, Paid, NoPosition
<1>8. KeyNamesOneOrder /\ Ledger
    <2>1. Fees = {} /\ Executed = {}
        BY <1>1 DEF Fees, Executed
    <2>2. OneFeePerFill
        BY <2>1 DEF OneFeePerFill, Fees, Executed
    <2> QED BY <1>1, <2>2 DEF KeyNamesOneOrder, Ledger
<1> QED BY <1>2, <1>3, <1>4, <1>7, <1>8 DEF Books

(* and every step keeps them, the test's own changes included. *)
LEMMA NextBooks == Settings /\ Books /\ [Next]_vars => Settings' /\ Books'
<1> SUFFICES ASSUME Settings, Books, [Next]_vars PROVE Settings' /\ Books'
    OBVIOUS
<1>1. /\ Orders /\ Account /\ AccountIsItsOrders /\ KeyNamesOneOrder /\ Ledger
    BY DEF Books
<1> USE DEF settings, faults, mock_account
<1>2. CASE Configure
    <2>1. Settings'
        BY <1>2, MockAssumption DEF Configure, Settings
    <2>2. UNCHANGED <<orders, mock_account, activities, given>>
        BY <1>2 DEF Configure
    <2> QED BY <2>1, <2>2, SameBooks
<1>3. CASE SetWalletBalance
    <2>1. PICK n \in Sizes : usdc' = n /\ given' = [given EXCEPT ![Crypto] = @ + n - usdc]
        BY <1>3 DEF SetWalletBalance
    <2>2. n \in Nat /\ usdc \in Nat /\ given \in [Traded -> Int] /\ Crypto \in Traded
        BY <1>1, MockAssumption DEF Account, Traded
    <2>3. UNCHANGED <<settings, faults, rotating, orders, cash, positions, activities>>
        BY <1>3 DEF SetWalletBalance
    <2>4. given[Crypto] \in Int /\ given[Crypto] + n - usdc \in Int
        BY <2>2
    <2>5. /\ given' \in [Traded -> Int] /\ given'[Crypto] = given[Crypto] + n - usdc
          /\ \A s \in Symbols : given'[s] = given[s]
        <3>1. Crypto \notin Symbols /\ Symbols \subseteq Traded
            BY MockAssumption DEF Traded
        <3> QED BY <2>1, <2>2, <2>4, <3>1
    <2>6. Account'
        BY <1>1, <2>1, <2>2, <2>3, <2>5 DEF Account
    <2>7. Brought(Crypto) \in Int /\ usdc' = given'[Crypto] + Brought(Crypto)
        <3>1. usdc = given[Crypto] + Brought(Crypto)
            BY <1>1 DEF AccountIsItsOrders
        <3>2. Brought(Crypto) \in Int
            BY <1>1, BroughtType
        <3> QED BY <2>1, <2>2, <2>4, <2>5, <3>1, <3>2
    <2>8. AccountIsItsOrders'
        BY <1>1, <2>3, <2>5, <2>7, SameOrders DEF AccountIsItsOrders, Paid
    <2>9. Settings'
        BY <2>3 DEF Settings
    <2> QED BY <2>3, <2>6, <2>8, <2>9, SameOrders DEF Books
<1>4. CASE PushActivity
    <2>1. /\ UNCHANGED <<settings, faults, rotating, orders, mock_account, given>>
          /\ activities' = Append(activities, "DIV")
        BY <1>4 DEF PushActivity, push_state_activity
    <2>2. Ledger'
        BY <1>1, <2>1, RowLedger
    <2>3. Settings' /\ Account' /\ AccountIsItsOrders'
        BY <1>1, <2>1, SameOrders DEF Settings, Account, AccountIsItsOrders, Paid
    <2> QED BY <2>1, <2>2, <2>3, SameOrders DEF Books
<1>5. ASSUME NEW s \in Symbols, AdjustPosition(s) PROVE Settings' /\ Books'
    <2>1. PICK d \in Quantities \cup {-q : q \in Quantities} :
             LET quantity == positions[s].quantity + d IN
             /\ positions' = [positions EXCEPT
                   ![s] = [quantity |-> quantity,
                           market_value |-> IF price[s] = NoPrice THEN @.market_value
                                            ELSE quantity * price[s]]]
             /\ given' = [given EXCEPT ![s] = @ + d]
        BY <1>5 DEF AdjustPosition
    <2>2. UNCHANGED <<settings, faults, rotating, orders, cash, usdc, activities>>
        BY <1>5 DEF AdjustPosition
    <2>3. PICK n : n = positions[s].quantity + d
        OBVIOUS
    <2>4. PICK m : m = IF price[s] = NoPrice THEN positions[s].market_value ELSE n * price[s]
        OBVIOUS
    <2>5. d \in Int
        BY MockAssumption
    <2>6. /\ positions \in [Symbols -> [quantity : Int, market_value : Int]]
          /\ positions[s].quantity \in Int /\ positions[s].market_value \in Int
        BY <1>1 DEF Account
    <2>7. n \in Int
        BY <2>3, <2>5, <2>6
    <2>8. m \in Int
        <3>1. price[s] # NoPrice => price[s] \in Nat
            BY MockAssumption DEF Settings
        <3> QED BY <2>4, <2>6, <2>7, <3>1
    <2>9. positions' = [positions EXCEPT ![s] = [quantity |-> n, market_value |-> m]]
        BY <2>1, <2>3, <2>4
    <2>10. /\ positions' \in [Symbols -> [quantity : Int, market_value : Int]]
           /\ positions'[s].quantity = n
           /\ \A t \in Symbols : t # s => positions'[t] = positions[t]
        BY <2>6, <2>7, <2>8, <2>9
    <2>11. given \in [Traded -> Int] /\ s \in Traded /\ s # Crypto /\ Crypto \in Traded
           /\ Symbols \subseteq Traded
        BY <1>1, MockAssumption DEF Account, Traded
    <2>12. /\ given' \in [Traded -> Int] /\ given'[s] = given[s] + d
           /\ given'[Crypto] = given[Crypto]
           /\ \A t \in Symbols : t # s => given'[t] = given[t]
        BY <2>1, <2>5, <2>11
    <2>13. Account'
        BY <1>1, <2>2, <2>10, <2>12 DEF Account
    <2>14. positions'[s].quantity = given'[s] + Brought(s)
        <3>1. positions[s].quantity = given[s] + Brought(s) /\ given[s] \in Int
            BY <1>1, <2>11 DEF AccountIsItsOrders
        <3>2. Brought(s) \in Int
            BY <1>1, BroughtType
        <3> QED BY <2>3, <2>5, <2>10, <2>12, <3>1, <3>2
    <2>15. \A t \in Symbols : positions'[t].quantity = given'[t] + Brought(t)'
        BY <1>1, <2>2, <2>10, <2>12, <2>14, SameOrders DEF AccountIsItsOrders
    <2>16. AccountIsItsOrders'
        BY <1>1, <2>2, <2>12, <2>15, SameOrders DEF AccountIsItsOrders, Paid
    <2>17. Settings'
        BY <2>2 DEF Settings
    <2> QED BY <2>2, <2>13, <2>16, <2>17, SameOrders DEF Books
<1>6. ASSUME NEW r \in Requests, Place(r) PROVE Settings' /\ Books'
    <2>1. /\ Settings' /\ given' = given /\ Len(orders) < MaxOrders
          /\ \/ UNCHANGED <<orders, mock_account, activities>>
             \/ \E p : Recorded(p)
        BY <1>1, <1>6, PlaceStep
    <2>2. CASE UNCHANGED <<orders, mock_account, activities>>
        BY <2>1, <2>2, SameBooks
    <2>3. CASE \E p : Recorded(p)
        BY <2>1, <2>3, PlaceBooks
    <2> QED BY <2>1, <2>2, <2>3
<1>7. ASSUME NEW i, Poll(i) PROVE Settings' /\ Books'
    <2>1. PICK p : i \in DOMAIN orders /\ orders' = [orders EXCEPT ![i] = p]
                   /\ Polled(orders[i], p)
        BY <1>1, <1>7, PollStep
    <2>2. UNCHANGED <<settings, faults, rotating, given>>
        BY <1>7 DEF Poll
    <2>3. Settings'
        BY <2>2 DEF Settings
    <2> QED BY <2>1, <2>2, <2>3, PollBooks
<1>8. CASE UNCHANGED vars
    <2>1. Settings' /\ UNCHANGED <<orders, mock_account, activities, given>>
        BY <1>8 DEF Settings, vars
    <2> QED BY <2>1, SameBooks
<1> QED BY <1>2, <1>3, <1>4, <1>5, <1>6, <1>7, <1>8 DEF Next

LEMMA SpecBooks == Spec => [](Settings /\ Books)
<1>1. Init => Settings /\ Books
    BY InitBooks
<1>2. Settings /\ Books /\ [Next]_vars => (Settings /\ Books)'
    BY NextBooks
<1> QED BY <1>1, <1>2, PTL DEF Spec

(* BooksBalance of every reachable state: cash, positions and USDC are the sum *)
(* of what the orders report and of what the test gave, keys name one order,   *)
(* fees count the fills and an order ends as it was planned.                   *)
THEOREM BooksBalanceHolds == Spec => []BooksBalance
<1>1. Settings /\ Books => BooksBalance
    <2> SUFFICES ASSUME Settings, Books PROVE BooksBalance
        OBVIOUS
    <2>1. ASSUME NEW i \in DOMAIN orders
          PROVE  /\ orders[i].status \in Ended \cup {"new", "partially_filled"}
                 /\ orders[i].filled \in {0, orders[i].quantity \div 2, orders[i].quantity}
                 /\ orders[i].key \in Keys \cup {NoKey}
                 /\ AsPlanned(orders[i])
        <3>1. PICK o : o = orders[i]
            OBVIOUS
        <3>2. OrderOk(o) /\ o \in OrderSet
            BY <3>1 DEF Books, Orders, OrderOk
        <3>3. o.status \in Statuses /\ o.key \in Keys \cup {NoKey}
            BY <3>2 DEF OrderSet
        <3> QED BY <3>1, <3>2, <3>3 DEF OrderOk, Statuses, Ended
    <2>2. TypeOK
        BY <2>1 DEF TypeOK, Settings, Books, Account, Orders
    <2>3. PlannedOutcomeHolds
        BY <2>1 DEF PlannedOutcomeHolds, AsPlanned
    <2> QED BY <2>2, <2>3 DEF BooksBalance, Books, Ledger
<1> QED BY <1>1, SpecBooks, PTL

-----------------------------------------------------------------------------
(* The book shows every order as it is, and a number not yet given as unused. *)
LEMMA ShownAt ==
    ASSUME NEW n \in 1..MaxOrders
    PROVE  /\ n \in DOMAIN orders => Shown[n] = Entry(orders[n])
           /\ n \notin DOMAIN orders => Shown[n] = Book!Unused
           /\ n \in DOMAIN orders' => Shown'[n] = Entry(orders'[n])
           /\ n \notin DOMAIN orders' => Shown'[n] = Book!Unused
BY DEF Shown, Entry, Book!Unused

(* Its entries are records of these fields. *)
LEMMA EntryIs ==
    ASSUME NEW o, OrderOk(o)
    PROVE  /\ Entry(o).key = o.key /\ Entry(o).shares = o.quantity
           /\ Entry(o).filled = o.filled
           /\ Entry(o).state = IF o.status \in Ended THEN o.status ELSE "open"
BY DEF Entry

(* The sizes of orders and their halves are amounts of the book. *)
LEMMA AmountsOf ==
    ASSUME NEW o, OrderOk(o)
    PROVE  /\ o.quantity \in Quantities \cup {q \div 2 : q \in Quantities} \cup Sizes
           /\ o.symbol \in Symbols =>
                 o.quantity \div 2 \in Quantities \cup {q \div 2 : q \in Quantities} \cup Sizes
<1>1. o.symbol \in Symbols => o.symbol # Crypto
    BY MockAssumption
<1>2. o.symbol = Crypto => o.quantity \in Sizes
    BY DEF OrderOk
<1>3. o.symbol # Crypto => o.quantity \in Quantities
    BY DEF OrderOk
<1>4. o.quantity \in Quantities => o.quantity \div 2 \in {q \div 2 : q \in Quantities}
    OBVIOUS
<1> QED BY <1>1, <1>2, <1>3, <1>4

(* An order is recorded under the next number, its key, if it has one, used by no *)
(* order before it.                                                              *)
LEMMA PlaceShows ==
    ASSUME Books, NEW p, Recorded(p), Len(orders) < MaxOrders
    PROVE  [Book!Next]_Shown
<1>1. Orders /\ OrderOk(p) /\ orders' = Append(orders, p)
    BY DEF Books, Recorded
<1> DEFINE n == Len(orders) + 1
<1>2. /\ DOMAIN orders' = 1..n /\ n \in Nat \ {0} /\ DOMAIN orders = 1..(n - 1)
      /\ n <= MaxOrders /\ MaxOrders \in Nat
      /\ \A i \in DOMAIN orders : orders'[i] = orders[i]
      /\ orders'[n] = p
    <2>1. Len(orders) \in Nat /\ MaxOrders \in Nat
        BY <1>1, Domains, MockAssumption
    <2> QED BY <1>1, <2>1, Appended, Domains
<1> HIDE DEF n
<1>3. n \in 1..MaxOrders /\ n \notin DOMAIN orders /\ n \in DOMAIN orders'
    BY <1>2
<1>4. \A m \in 1..MaxOrders : m # n => Shown'[m] = Shown[m]
    <2>1. ASSUME NEW m \in 1..MaxOrders, m # n PROVE Shown'[m] = Shown[m]
        <3>1. m \in DOMAIN orders' <=> m \in DOMAIN orders
            BY <1>2, <2>1
        <3>2. m \in DOMAIN orders => orders'[m] = orders[m]
            BY <1>2
        <3> QED BY <3>1, <3>2, ShownAt
    <2> QED BY <2>1
<1>5. Shown[n] = Book!Unused /\ Shown'[n] = Entry(p)
    BY <1>2, <1>3, ShownAt
<1>6. Shown' = [Shown EXCEPT ![n] = Entry(p)]
    BY <1>3, <1>4, <1>5 DEF Shown
<1>7. p.key \in Keys \cup {NoKey}
      /\ p.quantity \in Quantities \cup {q \div 2 : q \in Quantities} \cup Sizes
    BY <1>1, AmountsOf DEF OrderOk, OrderSet
<1>8. ASSUME p.key # NoKey, NEW m \in 1..MaxOrders PROVE Shown[m].key # p.key
    <2>1. CASE m \in DOMAIN orders
        <3>1. orders[m].key # p.key
            BY <1>8, <2>1 DEF Recorded, recorded
        <3>2. Shown[m] = Entry(orders[m]) /\ OrderOk(orders[m])
            BY <1>1, <2>1, ShownAt DEF Orders
        <3> QED BY <3>1, <3>2, EntryIs
    <2>2. CASE m \notin DOMAIN orders
        <3>1. Shown[m].key = NoKey
            BY <2>2, ShownAt DEF Book!Unused
        <3> QED BY <1>8, <3>1
    <2> QED BY <2>1, <2>2
<1>9. CASE p.symbol = Crypto
    <2>1. /\ p.status = "filled" /\ p.filled = p.quantity /\ p.key = NoKey
        BY <1>1, <1>9 DEF Recorded, OrderOk
    <2>2. Entry(p) = [key |-> NoKey, shares |-> p.quantity, filled |-> p.quantity,
                      state |-> "filled"]
        BY <2>1 DEF Entry, Ended
    <2>3. Book!Record(n)
        BY <1>5, <1>6, <1>7, <2>2 DEF Book!Record
    <2> QED BY <1>3, <2>3 DEF Book!Next
<1>10. CASE p.symbol # Crypto
    <2>1. p.symbol \in Symbols
        BY <1>1, <1>10 DEF OrderOk, OrderSet, Traded
    <2>2. p.filled = 0 /\ p.status = "new"
        BY <2>1 DEF Recorded
    <2>3. Entry(p) = [key |-> p.key, shares |-> p.quantity, filled |-> 0, state |-> "open"]
        BY <2>2 DEF Entry, Ended
    <2>4. Book!Record(n)
        BY <1>5, <1>6, <1>7, <1>8, <2>3 DEF Book!Record
    <2> QED BY <1>3, <2>4 DEF Book!Next
<1> QED BY <1>9, <1>10

(* A poll fills an open order once, ends it, or gives an end another label. *)
LEMMA PollShows ==
    ASSUME Books, NEW i \in DOMAIN orders, NEW p, orders' = [orders EXCEPT ![i] = p],
           Polled(orders[i], p)
    PROVE  [Book!Next]_Shown
<1>1. Orders /\ OrderOk(p)
    BY DEF Books, Polled
<1>2. PICK o : o = orders[i]
    OBVIOUS
<1>3. OrderOk(o) /\ Kept(o, p)
    BY <1>1, <1>2 DEF Orders, Polled, Quiet, Fills
<1>4. /\ DOMAIN orders' = DOMAIN orders /\ orders'[i] = p
      /\ \A j \in DOMAIN orders : j # i => orders'[j] = orders[j]
    BY <1>1, Updated
<1>5. i \in 1..MaxOrders
    BY <1>1, Domains, MockAssumption DEF Orders
<1>6. \A j \in 1..MaxOrders : j # i => Shown'[j] = Shown[j]
    BY <1>4, ShownAt
<1>7. Shown[i] = Entry(o) /\ Shown'[i] = Entry(p)
    BY <1>2, <1>4, <1>5, ShownAt
<1>8. /\ p.key = o.key /\ p.quantity = o.quantity
      /\ o.status \in Statuses /\ p.status \in Statuses
    BY <1>1, <1>3 DEF Kept, OrderOk, OrderSet
<1>9. CASE Quiet(o, p)
    <2>1. p.filled = o.filled /\ p.status \in {o.status, "canceled", "rejected"}
        BY <1>9 DEF Quiet
    <2>2. CASE p.status = o.status
        <3>1. Entry(p) = Entry(o)
            BY <1>8, <2>1, <2>2 DEF Entry
        <3>2. Shown' = Shown
            BY <1>6, <1>7, <3>1 DEF Shown
        <3> QED BY <3>2
    <2>3. CASE p.status \in {"canceled", "rejected"}
        <3>1. PICK s \in {"canceled", "rejected"} : s = p.status
            BY <2>3
        <3>2. Entry(p) = [Entry(o) EXCEPT !.state = s]
            BY <1>8, <2>1, <3>1 DEF Entry, Ended
        <3>3. Shown' = [Shown EXCEPT ![i].state = s]
            BY <1>5, <1>6, <1>7, <3>2 DEF Shown
        <3>4. Shown[i].state \in {"open", "filled", "canceled", "rejected"}
            BY <1>3, <1>7, EntryIs DEF Ended
        <3>5. Book!Advance(i) \/ Book!Relabel(i)
            BY <3>3, <3>4 DEF Book!Advance, Book!Relabel
        <3> QED BY <1>5, <3>5 DEF Book!Next
    <2> QED BY <2>1, <2>2, <2>3
<1>10. CASE Fills(o, p, price[o.symbol])
    <2>1. /\ o.symbol \in Symbols /\ o.status = "new" /\ o.filled = 0
          /\ p.filled \in {o.quantity, o.quantity \div 2}
          /\ p.status = IF p.filled = o.quantity THEN "filled" ELSE "partially_filled"
        BY <1>3, <1>10 DEF Fills, OrderOk
    <2>2. PICK f : f = p.filled
        OBVIOUS
    <2>3. /\ f \in Quantities \cup {q \div 2 : q \in Quantities} \cup Sizes
        BY <1>3, <2>1, <2>2, AmountsOf
    <2>4. f <= o.quantity
        <3>1. o.quantity \in Nat
            BY <1>3 DEF OrderOk, OrderSet
        <3> QED BY <2>1, <2>2, <3>1
    <2>5. PICK s : s = IF f = o.quantity THEN "filled" ELSE "open"
        OBVIOUS
    <2>6. Entry(p) = [[Entry(o) EXCEPT !.filled = f] EXCEPT !.state = s]
        <3>1. PICK e : e = Entry(o)
            OBVIOUS
        <3>2. e = [key |-> o.key, shares |-> o.quantity, filled |-> o.filled, state |-> "open"]
            BY <2>1, <3>1 DEF Entry, Ended
        <3>3. Entry(p) = [key |-> o.key, shares |-> o.quantity, filled |-> f, state |-> s]
            BY <1>8, <2>1, <2>2, <2>5 DEF Entry, Ended
        <3>4. [[e EXCEPT !.filled = f] EXCEPT !.state = s]
                 = [key |-> o.key, shares |-> o.quantity, filled |-> f, state |-> s]
            <4>1. PICK w : w = [[e EXCEPT !.filled = f] EXCEPT !.state = s]
                OBVIOUS
            <4>2. PICK k, q, g : k = o.key /\ q = o.quantity /\ g = o.filled
                OBVIOUS
            <4>3. e \in [key : {k}, shares : {q}, filled : {f, g}, state : {"open", s}]
                BY ONLY <3>2, <4>2
            <4>4. /\ w \in [key : {k}, shares : {q}, filled : {f, g}, state : {"open", s}]
                  /\ w.filled = f /\ w.state = s
                BY ONLY <4>1, <4>3
            <4>5. w = [key |-> k, shares |-> q, filled |-> f, state |-> s]
                BY ONLY <4>4
            <4> QED BY ONLY <4>1, <4>2, <4>5
        <3> QED BY <3>1, <3>3, <3>4
    <2>7. Shown[i].state = "open" /\ Shown[i].filled = 0 /\ Shown[i].shares = o.quantity
        BY <1>3, <1>7, <2>1, EntryIs DEF Ended
    <2>8. Shown' = [Shown EXCEPT ![i].filled = f, ![i].state = s]
        BY <1>5, <1>6, <1>7, <2>6 DEF Shown
    <2>9. Book!Advance(i)
        BY <2>3, <2>4, <2>5, <2>7, <2>8 DEF Book!Advance
    <2> QED BY <1>5, <2>9 DEF Book!Next
<1> QED BY <1>2, <1>9, <1>10 DEF Polled

(* Every step is a step of the book, or leaves it alone. *)
LEMMA NextShows == Settings /\ Books /\ [Next]_vars => [Book!Next]_Shown
<1> SUFFICES ASSUME Settings, Books, [Next]_vars PROVE [Book!Next]_Shown
    OBVIOUS
<1>1. Orders /\ Account
    BY DEF Books
<1>2. ASSUME orders' = orders PROVE [Book!Next]_Shown
    BY <1>2 DEF Shown, Entry
<1>3. ASSUME NEW r \in Requests, Place(r) PROVE [Book!Next]_Shown
    <2>1. Len(orders) < MaxOrders /\ (orders' = orders \/ \E p : Recorded(p))
        BY <1>1, <1>3, PlaceStep
    <2>2. CASE \E p : Recorded(p)
        BY <2>1, <2>2, PlaceShows
    <2> QED BY <1>2, <2>1, <2>2
<1>4. ASSUME NEW i, Poll(i) PROVE [Book!Next]_Shown
    <2>1. PICK p : i \in DOMAIN orders /\ orders' = [orders EXCEPT ![i] = p]
                   /\ Polled(orders[i], p)
        BY <1>1, <1>4, PollStep
    <2> QED BY <2>1, PollShows
<1>5. CASE \/ Configure \/ SetWalletBalance \/ PushActivity \/ UNCHANGED vars
           \/ \E s \in Symbols : AdjustPosition(s)
    <2>1. orders' = orders
        BY <1>5 DEF Configure, SetWalletBalance, PushActivity, AdjustPosition, vars
    <2> QED BY <1>2, <2>1
<1> QED BY <1>3, <1>4, <1>5 DEF Next

(* MockBroker implements BrokerBook: whichever modes, prices and delays are set *)
(* between its polls, an order keeps its size and key, fills once and within its *)
(* size, and never fills, opens or counts as filled again after it ended.        *)
THEOREM MockIsABook == Spec => IsBrokerBook
<1>1. Init => Book!Init
    <2> SUFFICES ASSUME Init PROVE Book!Init
        OBVIOUS
    <2>1. DOMAIN orders = {}
        BY DEF Init
    <2> QED BY <2>1 DEF Book!Init, Book!Unused, Shown
<1>2. Spec => [][Book!Next]_Shown
    BY SpecBooks, NextShows, PTL DEF Spec
<1> QED BY <1>1, <1>2, PTL DEF Spec, IsBrokerBook, Book!Spec

-----------------------------------------------------------------------------
(* The reads: what a step of one reader does to its record *)


\* What a reader remembers is a record of these fields.
IsRead(x) ==
    x \in [stage : {x.stage}, asked : {x.asked}, token : {x.token}, pages : {x.pages},
           found : {x.found}, start : {x.start}, answer : {x.answer}]

Shape == read = [r \in Readers |-> read[r]] /\ \A r \in Readers : IsRead(read[r])

\* A step of reader r alone: its record becomes y.
Moves(r, y) ==
    /\ read' = [read EXCEPT ![r] = y]
    /\ read'[r] = y /\ \A q \in Readers : q # r => read'[q] = read[q]
    /\ IsRead(y)

\* Reader r goes to stage s.
Goes(r, s) == read' = [read EXCEPT ![r].stage = s]

LEMMA StageStep ==
    ASSUME Shape, NEW r \in Readers, NEW s, Goes(r, s)
    PROVE  \E y : /\ Moves(r, y)
                  /\ y.stage = s /\ y.asked = read[r].asked /\ y.start = read[r].start
                  /\ y.found = read[r].found /\ y.answer = read[r].answer
<1>1. PICK x : x = read[r] /\ IsRead(x)
    BY DEF Shape
<1>2. PICK y : y = [x EXCEPT !.stage = s]
    OBVIOUS
<1>3. /\ IsRead(y) /\ y.stage = s /\ y.asked = x.asked
      /\ y.start = x.start /\ y.found = x.found /\ y.answer = x.answer
    BY ONLY <1>1, <1>2 DEF IsRead
<1>4. Moves(r, y)
    BY <1>1, <1>2, <1>3 DEF Moves, Shape, Goes
<1> QED BY <1>1, <1>3, <1>4

\* Reader r asks at t.
Asks(r, s, t) == read' = [read EXCEPT ![r].stage = s, ![r].asked = t]

LEMMA AskStep ==
    ASSUME Shape, NEW r \in Readers, NEW s, NEW t, Asks(r, s, t)
    PROVE  \E y : /\ Moves(r, y)
                  /\ y.stage = s /\ y.asked = t /\ y.start = read[r].start
                  /\ y.found = read[r].found /\ y.answer = read[r].answer
<1>1. PICK x : x = read[r] /\ IsRead(x)
    BY DEF Shape
<1>2. PICK y : y = [x EXCEPT !.stage = s, !.asked = t]
    OBVIOUS
<1>3. /\ IsRead(y) /\ y.stage = s /\ y.asked = t
      /\ y.start = x.start /\ y.found = x.found /\ y.answer = x.answer
    BY ONLY <1>1, <1>2 DEF IsRead
<1>4. Moves(r, y)
    BY <1>1, <1>2, <1>3 DEF Moves, Shape, Asks
<1> QED BY <1>1, <1>3, <1>4

\* Reader r finds f.
Finds(r, s, f) == read' = [read EXCEPT ![r].stage = s, ![r].found = f]

LEMMA FindStep ==
    ASSUME Shape, NEW r \in Readers, NEW s, NEW f, Finds(r, s, f)
    PROVE  \E y : /\ Moves(r, y)
                  /\ y.stage = s /\ y.asked = read[r].asked /\ y.start = read[r].start
                  /\ y.found = f /\ y.answer = read[r].answer
<1>1. PICK x : x = read[r] /\ IsRead(x)
    BY DEF Shape
<1>2. PICK y : y = [x EXCEPT !.stage = s, !.found = f]
    OBVIOUS
<1>3. /\ IsRead(y) /\ y.stage = s /\ y.asked = x.asked
      /\ y.start = x.start /\ y.found = f /\ y.answer = x.answer
    BY ONLY <1>1, <1>2 DEF IsRead
<1>4. Moves(r, y)
    BY <1>1, <1>2, <1>3 DEF Moves, Shape, Finds
<1> QED BY <1>1, <1>3, <1>4

\* Reader r is served f at u.
Serves(r, s, u, f) == read' = [read EXCEPT ![r].stage = s, ![r].start = u, ![r].found = f]

LEMMA ServeStep ==
    ASSUME Shape, NEW r \in Readers, NEW s, NEW u, NEW f, Serves(r, s, u, f)
    PROVE  \E y : /\ Moves(r, y)
                  /\ y.stage = s /\ y.asked = read[r].asked /\ y.start = u
                  /\ y.found = f /\ y.answer = read[r].answer
<1>1. PICK x : x = read[r] /\ IsRead(x)
    BY DEF Shape
<1>2. PICK y : y = [x EXCEPT !.stage = s, !.start = u, !.found = f]
    OBVIOUS
<1>3. /\ IsRead(y) /\ y.stage = s /\ y.asked = x.asked
      /\ y.start = u /\ y.found = f /\ y.answer = x.answer
    BY ONLY <1>1, <1>2 DEF IsRead
<1>4. Moves(r, y)
    BY <1>1, <1>2, <1>3 DEF Moves, Shape, Serves
<1> QED BY <1>1, <1>3, <1>4

\* Reader r is answered from the cache.
FromCache(r, s, u, t, a) ==
    read' = [read EXCEPT ![r].stage = s, ![r].start = u, ![r].asked = t, ![r].answer = a]

LEMMA CacheStep ==
    ASSUME Shape, NEW r \in Readers, NEW s, NEW u, NEW t, NEW a, FromCache(r, s, u, t, a)
    PROVE  \E y : /\ Moves(r, y)
                  /\ y.stage = s /\ y.asked = t /\ y.start = u
                  /\ y.found = read[r].found /\ y.answer = a
<1>1. PICK x : x = read[r] /\ IsRead(x)
    BY DEF Shape
<1>2. PICK y : y = [x EXCEPT !.stage = s, !.start = u, !.asked = t, !.answer = a]
    OBVIOUS
<1>3. /\ IsRead(y) /\ y.stage = s /\ y.asked = t
      /\ y.start = u /\ y.found = x.found /\ y.answer = a
    BY ONLY <1>1, <1>2 DEF IsRead
<1>4. Moves(r, y)
    BY <1>1, <1>2, <1>3 DEF Moves, Shape, FromCache
<1> QED BY <1>1, <1>3, <1>4

LEMMA DoneStep ==
    ASSUME Shape, NEW r \in Readers, NEW a, Answer(r, a)
    PROVE  \E y : /\ Moves(r, y)
                  /\ y.stage = "done" /\ y.asked = read[r].asked /\ y.start = read[r].start
                  /\ y.found = read[r].found /\ y.answer = a
<1>1. PICK x : x = read[r] /\ IsRead(x)
    BY DEF Shape
<1>2. PICK y : y = [x EXCEPT !.stage = "done", !.answer = a]
    OBVIOUS
<1>3. /\ IsRead(y) /\ y.stage = "done" /\ y.asked = x.asked
      /\ y.start = x.start /\ y.found = x.found /\ y.answer = a
    BY ONLY <1>1, <1>2 DEF IsRead
<1>4. Moves(r, y)
    BY <1>1, <1>2, <1>3 DEF Moves, Shape, Answer
<1> QED BY <1>1, <1>3, <1>4


LEMMA PageStep ==
    ASSUME Shape, NEW r \in Readers, FetchPage(r)
    PROVE  LET x == read[r]
               page == Page(x.token)
               next == after_page(page, x.token, x.pages + 1)
           IN  \E y : /\ Moves(r, y)
                      /\ y.asked = x.asked /\ y.found = x.found \o page
                      /\ y.start = IF x.stage = "idle" THEN Len(rows) ELSE x.start
                      /\ next = "complete" =>
                            /\ y.stage = "done"
                            /\ y.answer = [kind |-> "rows", rows |-> x.found \o page]
                      /\ next = "more" =>
                            /\ y.stage = "paging" /\ y.token = last_id(page)
                            /\ y.answer = x.answer
                      /\ next \notin {"complete", "more"} => y.stage = "done" /\ y.answer = Error
<1>1. PICK x : x = read[r] /\ IsRead(x)
    BY DEF Shape
<1>2. PICK page : page = Page(x.token)
    OBVIOUS
<1>3. PICK next : next = after_page(page, x.token, x.pages + 1)
    OBVIOUS
<1>4. PICK found : found = x.found \o page
    OBVIOUS
<1>5. PICK start : start = IF x.stage = "idle" THEN Len(rows) ELSE x.start
    OBVIOUS
<1>6. PICK z : z = [x EXCEPT !.found = found, !.pages = @ + 1, !.start = start]
    OBVIOUS
<1>7. /\ IsRead(z) /\ z.asked = x.asked /\ z.found = found /\ z.start = start
      /\ z.answer = x.answer
    BY ONLY <1>1, <1>6 DEF IsRead
<1>8. PICK a : a = [kind |-> "rows", rows |-> found]
    OBVIOUS
<1>9. PICK y : y = CASE next = "complete" -> [z EXCEPT !.stage = "done", !.answer = a]
                     [] next = "more" -> [z EXCEPT !.stage = "paging", !.token = last_id(page)]
                     [] OTHER -> [z EXCEPT !.stage = "done", !.answer = Error]
    OBVIOUS
<1>10. read' = [read EXCEPT ![r] = y]
    BY <1>1, <1>2, <1>3, <1>4, <1>5, <1>6, <1>8, <1>9 DEF FetchPage
<1>11. /\ IsRead(y) /\ y.asked = z.asked /\ y.found = z.found /\ y.start = z.start
       /\ next = "complete" => y.stage = "done" /\ y.answer = a
       /\ next = "more" => y.stage = "paging" /\ y.token = last_id(page) /\ y.answer = z.answer
       /\ next \notin {"complete", "more"} => y.stage = "done" /\ y.answer = Error
    <2>1. CASE next = "complete"
        <3>1. y = [z EXCEPT !.stage = "done", !.answer = a]
            BY ONLY <1>9, <2>1
        <3> QED BY ONLY <3>1, <1>7, <2>1 DEF IsRead
    <2>2. CASE next = "more"
        <3>1. y = [z EXCEPT !.stage = "paging", !.token = last_id(page)]
            BY ONLY <1>9, <2>2
        <3> QED BY ONLY <3>1, <1>7, <2>2 DEF IsRead
    <2>3. CASE next \notin {"complete", "more"}
        <3>1. y = [z EXCEPT !.stage = "done", !.answer = Error]
            BY ONLY <1>9, <2>3
        <3> QED BY ONLY <3>1, <1>7, <2>3 DEF IsRead
    <2> QED BY <2>1, <2>2, <2>3
<1>12. Moves(r, y)
    BY <1>1, <1>10, <1>11 DEF Moves, Shape
<1> QED BY <1>1, <1>2, <1>3, <1>4, <1>5, <1>7, <1>8, <1>11, <1>12

-----------------------------------------------------------------------------
(* The session *)

(* A moment is its day and its minute. *)
LEMMA Clock ==
    ASSUME NEW t \in Nat
    PROVE  Day(t) \in Nat /\ Minute(t) \in 0..1439 /\ t = Day(t) * 1440 + Minute(t)
BY DEF Day, Minute, DAY

(* A set of the calendar's days has a first and a last one. *)
LEMMA EndDays ==
    ASSUME NEW S, \A d \in S : d \in 1..MaxDay, S # {}
    PROVE  /\ Min(S) \in S /\ \A d \in S : Min(S) <= d
           /\ Max(S) \in S /\ \A d \in S : Max(S) >= d
<1>1. \E x \in S : \A y \in S : x <= y
    BY DEF MaxDay
<1>2. \E x \in S : \A y \in S : x >= y
    BY DEF MaxDay
<1> QED BY <1>1, <1>2 DEF Min, Max

Trading == \A d \in trading : d \in 1..MaxDay

(* What get_calendar answers: the trading days of the range, or none of them *)
(* and at most one day of another time.                                      *)
LEMMA Calendars ==
    ASSUME Trading, NEW start \in Nat, NEW end \in Nat,
           NEW calendar \in get_calendar(start, end)
    PROVE  /\ \A d \in calendar : d \in trading
           /\ \A d \in trading : start <= d /\ d <= end => d \in calendar
           /\ \A d, e \in calendar : d = e \/ (start <= d /\ d <= end)
<1> DEFINE in == {d \in trading : start <= d /\ d <= end}
           after == {d \in trading : d > end}
           before == {d \in trading : d < start}
<1>1. after # {} => Min(after) \in after
    <2> HIDE DEF after
    <2>1. \A d \in after : d \in 1..MaxDay
        BY DEF after, Trading
    <2> QED BY <2>1, EndDays
<1>2. before # {} => Max(before) \in before
    <2> HIDE DEF before
    <2>1. \A d \in before : d \in 1..MaxDay
        BY DEF before, Trading
    <2> QED BY <2>1, EndDays
<1>3. \/ calendar = in
      \/ in = {} /\ calendar = {}
      \/ in = {} /\ after # {} /\ calendar = {Min(after)}
      \/ in = {} /\ before # {} /\ calendar = {Max(before)}
    BY DEF get_calendar
<1> QED BY <1>1, <1>2, <1>3

(* The session read from such a calendar is the exchange's. *)
LEMMA SessionFound ==
    ASSUME Trading, NEW t \in Nat, NEW calendar \in get_calendar(Day(t), Day(t) + 1),
           \A d \in calendar : ~(d < Day(t))
    PROVE  session_at(t, calendar) = Exchange(t)
<1> DEFINE D == Day(t)
           m == Minute(t)
<1>1. D \in Nat /\ m \in 0..1439 /\ t = D * 1440 + m
    BY Clock
<1> HIDE DEF D, m
<1>2. (D \in calendar <=> D \in trading) /\ (D + 1 \in calendar <=> D + 1 \in trading)
    BY <1>1, Calendars DEF D
<1>3. close(D) \in {780, 960} /\ session_close(D) \in {1020, 1200}
    BY DEF close, session_close
<1>4. ASSUME NEW n \in trading
      PROVE  (n - 1) * DAY + 1200 <= t /\ t < n * DAY + 240
                 <=> (n = D /\ m < 240) \/ (n = D + 1 /\ m >= 1200)
    BY <1>1, <1>4 DEF Trading, DAY, MaxDay
<1>5. (\E n \in trading : (n - 1) * DAY + 1200 <= t /\ t < n * DAY + 240)
          <=> (D \in trading /\ m < 240) \/ (D + 1 \in trading /\ m >= 1200)
    BY <1>4
<1> QED BY <1>1, <1>2, <1>3, <1>5 DEF session_at, Exchange, D, m, OPEN, SESSION_OPEN

\* What a session's answer must be, by the gap.
GapIsRight(t, gap) ==
    /\ gap = "OrdinaryOvernight" => Day(t) + 1 \in trading
    /\ gap = "MultiDayClosure" => Day(t) + 1 \notin trading

(* The answer made of the session found is right. *)
LEMMA SessionAnswer ==
    ASSUME NEW t \in Nat, NEW gap, GapIsRight(t, gap)
    PROVE  SessionIsRight(Session(t, Exchange(t), gap))
<1> DEFINE D == Day(t)
           m == Minute(t)
<1>1. D \in Nat /\ m \in 0..1439 /\ t = D * 1440 + m
    BY Clock
<1> HIDE DEF D, m
<1>2. PICK s : s = Exchange(t)
    OBVIOUS
<1>3. /\ s = "Regular" => t < D * 1440 + close(D)
      /\ s = "Extended" => t < D * 1440 + session_close(D) /\ D * 1440 + 240 <= t
    <2>1. close(D) \in {780, 960} /\ session_close(D) \in {1020, 1200}
        BY DEF close, session_close
    <2>2. s = "Regular" => m < close(D)
        BY <1>2 DEF Exchange, D, m
    <2>3. s = "Extended" => SESSION_OPEN <= m /\ m < session_close(D)
        BY <1>2 DEF Exchange, D, m
    <2> QED BY <1>1, <2>1, <2>2, <2>3 DEF SESSION_OPEN
<1>4. /\ s = "Regular" => session_closes_at(t, s) = D * 1440 + close(D)
        /\ session_opens_at(t, s) = 0
      /\ s = "Extended" => /\ session_closes_at(t, s) = D * 1440 + session_close(D)
                           /\ session_opens_at(t, s) = D * 1440 + 240
    BY DEF session_closes_at, session_opens_at, D, DAY, SESSION_OPEN
<1>5. s \in {"Regular", "Extended"} => t < session_closes_at(t, s) /\ session_opens_at(t, s) <= t
    BY <1>1, <1>3, <1>4
<1> QED BY <1>2, <1>5 DEF Session, SessionIsRight, GapIsRight

(* The gap a failed or an answered calendar leaves is right. *)
LEMMA GapFound ==
    ASSUME Trading, NEW t \in Nat, NEW calendar \in {{}} \cup get_calendar(Day(t) + 1, MaxDay)
    PROVE  GapIsRight(t, classify_post_close_gap(Day(t), calendar))
<1> DEFINE D == Day(t)
           next == {d \in calendar : d > D}
<1>1. D \in Nat
    BY Clock
<1>2. CASE next = {}
    BY <1>2 DEF classify_post_close_gap, GapIsRight
<1>3. CASE next # {}
    <2>1. /\ \A d \in calendar : d \in trading
          /\ \A d \in trading : D + 1 <= d => d \in calendar
        <3>1. calendar \in get_calendar(D + 1, MaxDay)
            BY <1>3
        <3> QED BY <1>1, <3>1, Calendars DEF Trading, MaxDay
    <2> HIDE DEF D
    <2>2. \A d \in next : d \in 1..MaxDay
        BY <2>1 DEF Trading
    <2>3. Min(next) \in next /\ \A d \in next : Min(next) <= d
        <3> HIDE DEF next
        <3> QED BY <1>3, <2>2, EndDays
    <2>4. D + 1 \in trading => D + 1 \in next
        BY <1>1, <2>1
    <2>5. D + 1 \in trading <=> Min(next) = D + 1
        BY <1>1, <2>1, <2>2, <2>3, <2>4 DEF MaxDay
    <2> HIDE DEF next
    <2>6. classify_post_close_gap(D, calendar)
              = IF Min(next) = D + 1 THEN "OrdinaryOvernight" ELSE "MultiDayClosure"
        BY <1>3 DEF classify_post_close_gap, next
    <2> QED BY <2>5, <2>6 DEF GapIsRight, D
<1> QED BY <1>2, <1>3


-----------------------------------------------------------------------------
(* ReadIsRight *)

\* The cached asset was read at most a request before it was cached.
CacheOk ==
    /\ cache.since \in Int /\ cache.at \in Int
    /\ cache.since >= cache.at - FetchTimeout

\* Between its two requests, an inventory has the USDC and the one equity of
\* the account as it was listed.
PositionsOk(found) ==
    /\ \E p \in found[1] : p.symbol = "USDCUSD"
    /\ \A p \in found[1] : p.symbol = "USDCUSD" => p.total = found[2].usdc
    /\ {p.symbol : p \in {q \in found[1] : ~is_non_equity(q)}} = {"EQ"}

ReaderOk(x) ==
    /\ x.asked \in Nat
    /\ x.stage = "gap" => Exchange(x.asked) = "Extended"
    /\ x.stage \in {"sent", "served"} =>
          op = "asset" /\ x.asked <= now /\ now - x.asked <= FetchTimeout
    /\ x.stage = "served" => x.start \in Int /\ x.start >= x.asked
    /\ x.stage = "funds" => PositionsOk(x.found)
    /\ x.stage = "done" => AnswerIsRight(x)

RightInv == Shape /\ Trading /\ now \in Nat /\ CacheOk /\ \A r \in Readers : ReaderOk(read[r])

(* A reader stays in order while what it read about stands still. *)
LEMMA SameWorld ==
    ASSUME NEW z, ReaderOk(z), UNCHANGED <<op, now, trading, early>>
    PROVE  ReaderOk(z)'
<1>1. Exchange(z.asked)' = Exchange(z.asked)
    BY DEF Exchange, close, session_close
<1>2. AnswerIsRight(z)' <=> AnswerIsRight(z)
    <2>1. SessionIsRight(z.answer)' <=> SessionIsRight(z.answer)
        BY DEF SessionIsRight, Exchange, close, session_close
    <2> QED BY <2>1 DEF AnswerIsRight
<1>3. PositionsOk(z.found)' <=> PositionsOk(z.found)
    BY DEF PositionsOk, is_non_equity
<1> QED BY <1>1, <1>2, <1>3 DEF ReaderOk

(* A step of one reader that leaves it in order keeps the invariant. *)
LEMMA ReaderKeeps ==
    ASSUME RightInv, NEW r \in Readers, NEW y, Moves(r, y), ReaderOk(y),
           UNCHANGED <<op, now, world>>, CacheOk'
    PROVE  RightInv'
<1>1. UNCHANGED <<op, now, trading, early>>
    BY DEF world
<1>2. Shape'
    BY DEF RightInv, Shape, Moves
<1>3. ASSUME NEW q \in Readers PROVE ReaderOk(read[q])'
    <2>1. PICK z : z = read'[q] /\ ReaderOk(z)
        BY DEF Moves, RightInv
    <2>2. ReaderOk(z)'
        BY <1>1, <2>1, SameWorld
    <2> QED BY <2>1, <2>2 DEF ReaderOk, AnswerIsRight
<1> QED BY <1>1, <1>2, <1>3 DEF RightInv, Trading

(* A reader that is answered rightly is in order. *)
LEMMA Answered ==
    ASSUME RightInv, NEW r \in Readers, NEW a, Answer(r, a), UNCHANGED <<op, now, world>>, CacheOk',
           \A y : y.answer = a /\ y.start = read[r].start => AnswerIsRight(y)
    PROVE  RightInv'
<1>1. PICK y : /\ Moves(r, y) /\ y.stage = "done" /\ y.answer = a
               /\ y.asked = read[r].asked /\ y.start = read[r].start
    BY DoneStep DEF RightInv
<1>2. ReaderOk(y)
    BY <1>1 DEF ReaderOk, RightInv
<1> QED BY <1>1, <1>2, ReaderKeeps

LEMMA ErrorIsRight ==
    ASSUME NEW y, y.answer = Error PROVE AnswerIsRight(y)
BY DEF AnswerIsRight, Error

LEMMA PreparedIsRight ==
    ASSUME NEW a, NEW shares, NEW extended, NEW y,
           y.answer = Prepared(a, shares, extended), y.start >= now - TTL - FetchTimeout
    PROVE  AnswerIsRight(y)
<1>1. CASE a.status # "active" \/ ~a.tradable
    BY <1>1, ErrorIsRight DEF Prepared
<1>2. CASE ~(a.status # "active" \/ ~a.tradable)
    <2>1. y.answer.kind = "prepared" /\ y.answer.of = a
        BY <1>2 DEF Prepared
    <2> QED BY <1>2, <2>1 DEF AnswerIsRight
<1> QED BY <1>1, <1>2

LEMMA SessionAnswerIsRight ==
    ASSUME NEW y, NEW t \in Nat, NEW gap, GapIsRight(t, gap),
           y.answer = Session(t, Exchange(t), gap)
    PROVE  AnswerIsRight(y)
<1>1. y.answer.kind = "session"
    BY DEF Session
<1> QED BY <1>1, SessionAnswer DEF AnswerIsRight


(* The session: the calendar answers for the day and the next, then for the gap. *)
LEMMA SessionSteps ==
    ASSUME RightInv, NEW r \in Readers,
           AskSession(r) \/ CalendarAnswers(r) \/ GapAnswers(r)
    PROVE  RightInv'
<1>1. UNCHANGED <<op, now, world>> /\ CacheOk'
    BY DEF AskSession, CalendarAnswers, GapAnswers, RightInv, CacheOk
<1>2. PICK t : t = read[r].asked /\ t \in Nat
    BY DEF RightInv, ReaderOk
<1>3. CASE AskSession(r)
    <2>1. Asks(r, "calendar", now)
        BY <1>3 DEF AskSession, Asks
    <2>2. PICK y : Moves(r, y) /\ y.stage = "calendar" /\ y.asked = now
        BY <2>1, AskStep DEF RightInv
    <2>3. ReaderOk(y)
        BY <2>2 DEF ReaderOk, RightInv
    <2> QED BY <1>1, <2>2, <2>3, ReaderKeeps
<1>4. CASE CalendarAnswers(r)
    <2>1. PICK calendar \in get_calendar(Day(t), Day(t) + 1) :
             IF \E d \in calendar : d < Day(t) THEN Answer(r, Error)
             ELSE IF session_at(t, calendar) = "Extended" THEN Goes(r, "gap")
             ELSE Answer(r, Session(t, session_at(t, calendar), "Unknown"))
        BY <1>2, <1>4 DEF CalendarAnswers, Goes
    <2>2. CASE \E d \in calendar : d < Day(t)
        BY <1>1, <2>1, <2>2, Answered, ErrorIsRight
    <2>3. CASE ~\E d \in calendar : d < Day(t)
        <3>1. session_at(t, calendar) = Exchange(t)
            BY <1>2, <2>1, <2>3, SessionFound DEF RightInv
        <3>2. CASE Exchange(t) = "Extended"
            <4>1. PICK y : Moves(r, y) /\ y.stage = "gap" /\ y.asked = t
                BY <1>2, <2>1, <2>3, <3>1, <3>2, StageStep DEF RightInv
            <4>2. ReaderOk(y)
                BY <1>2, <3>2, <4>1 DEF ReaderOk
            <4> QED BY <1>1, <4>1, <4>2, ReaderKeeps
        <3>3. CASE Exchange(t) # "Extended"
            <4>1. Answer(r, Session(t, Exchange(t), "Unknown"))
                BY <2>1, <2>3, <3>1, <3>3
            <4>2. GapIsRight(t, "Unknown")
                BY DEF GapIsRight
            <4>3. ASSUME NEW y, y.answer = Session(t, Exchange(t), "Unknown")
                  PROVE  AnswerIsRight(y)
                BY <1>2, <4>2, <4>3, SessionAnswerIsRight
            <4> QED BY <1>1, <4>1, <4>3, Answered
        <3> QED BY <3>2, <3>3
    <2> QED BY <2>2, <2>3
<1>5. CASE GapAnswers(r)
    <2>1. PICK calendar \in {{}} \cup get_calendar(Day(t) + 1, MaxDay) :
             Answer(r, Session(t, "Extended", classify_post_close_gap(Day(t), calendar)))
        BY <1>2, <1>5 DEF GapAnswers
    <2>2. PICK gap : gap = classify_post_close_gap(Day(t), calendar)
        OBVIOUS
    <2>3. GapIsRight(t, gap)
        BY <1>2, <2>2, GapFound DEF RightInv
    <2>4. Exchange(t) = "Extended"
        BY <1>2, <1>5 DEF GapAnswers, RightInv, ReaderOk
    <2>5. ASSUME NEW y, y.answer = Session(t, "Extended", gap) PROVE AnswerIsRight(y)
        BY <1>2, <2>3, <2>4, <2>5, SessionAnswerIsRight
    <2>6. Answer(r, Session(t, "Extended", gap))
        BY <2>1, <2>2
    <2> QED BY <1>1, <2>5, <2>6, Answered
<1> QED BY <1>3, <1>4, <1>5

(* The asset: what is cached is at most a request old when it is cached. *)
LEMMA AssetSteps ==
    ASSUME RightInv, NEW r \in Readers, AskAsset(r) \/ AssetServed(r) \/ AssetReceived(r)
    PROVE  RightInv'
<1>1. UNCHANGED <<op, now, world>>
    BY DEF AskAsset, AssetServed, AssetReceived
<1>2. op = "asset" /\ now \in Nat /\ CacheOk /\ ReaderOk(read[r]) /\ Shape
    BY DEF AskAsset, AssetServed, AssetReceived, RightInv
<1>3. TTL \in Nat /\ FetchTimeout \in Nat
    BY ReadAssumption
<1>4. CASE AskAsset(r)
    <2>1. CacheOk'
        BY <1>2, <1>4 DEF AskAsset, CacheOk
    <2>2. CASE cache.at >= 0 /\ ~is_expired
        <3>1. PICK shares \in OrderShares, extended \in BOOLEAN :
                 FromCache(r, "done", cache.since, now, Prepared(cache.asset, shares, extended))
            BY <1>4, <2>2 DEF AskAsset, FromCache
        <3>2. PICK a : a = Prepared(cache.asset, shares, extended)
            OBVIOUS
        <3>3. PICK y : /\ Moves(r, y) /\ y.stage = "done" /\ y.start = cache.since
                       /\ y.asked = now /\ y.answer = a
            BY <1>2, <3>1, <3>2, CacheStep
        <3>4. y.start >= now - TTL - FetchTimeout
            BY <1>2, <1>3, <2>2, <3>3 DEF is_expired, CacheOk
        <3>5. ReaderOk(y)
            BY <1>2, <3>2, <3>3, <3>4, PreparedIsRight DEF ReaderOk
        <3> QED BY <1>1, <2>1, <3>3, <3>5, ReaderKeeps
    <2>3. CASE ~(cache.at >= 0 /\ ~is_expired)
        <3>1. Asks(r, "sent", now)
            BY <1>4, <2>3 DEF AskAsset, Asks
        <3>2. PICK y : Moves(r, y) /\ y.stage = "sent" /\ y.asked = now
            BY <1>2, <3>1, AskStep
        <3>3. ReaderOk(y)
            BY <1>2, <1>3, <3>2 DEF ReaderOk
        <3> QED BY <1>1, <2>1, <3>2, <3>3, ReaderKeeps
    <2> QED BY <2>2, <2>3
<1>5. CASE AssetServed(r)
    <2>1. CacheOk'
        BY <1>2, <1>5 DEF AssetServed, CacheOk
    <2>2. Serves(r, "served", now, <<asset>>) /\ read[r].stage = "sent"
        BY <1>5 DEF AssetServed, Serves
    <2>3. PICK y : /\ Moves(r, y) /\ y.stage = "served" /\ y.start = now
                   /\ y.asked = read[r].asked
        BY <1>2, <2>2, ServeStep
    <2>4. ReaderOk(y)
        BY <1>2, <2>2, <2>3 DEF ReaderOk
    <2> QED BY <1>1, <2>1, <2>3, <2>4, ReaderKeeps
<1>6. CASE AssetReceived(r)
    <2>1. /\ read[r].stage = "served" /\ read[r].start \in Int /\ read[r].asked \in Nat
          /\ read[r].start >= read[r].asked /\ now - read[r].asked <= FetchTimeout
        BY <1>2, <1>6 DEF AssetReceived, ReaderOk
    <2>2. CacheOk'
        BY <1>2, <1>3, <1>6, <2>1 DEF AssetReceived, insert, CacheOk
    <2>3. PICK shares \in OrderShares, extended \in BOOLEAN :
             Answer(r, Prepared(read[r].found[1], shares, extended))
        BY <1>6 DEF AssetReceived
    <2>4. PICK a : a = Prepared(read[r].found[1], shares, extended)
        OBVIOUS
    <2>5. read[r].start >= now - TTL - FetchTimeout
        BY <1>2, <1>3, <2>1
    <2>6. ASSUME NEW y, y.answer = a, y.start = read[r].start PROVE AnswerIsRight(y)
        BY <2>4, <2>5, <2>6, PreparedIsRight
    <2> QED BY <1>1, <2>2, <2>3, <2>4, <2>6, Answered
<1> QED BY <1>4, <1>5, <1>6


(* The inventory: positions and funds of two moments, each true of its own. *)
LEMMA InventorySteps ==
    ASSUME RightInv, NEW r \in Readers, ReadPositions(r) \/ ReadFunds(r)
    PROVE  RightInv'
<1>1. UNCHANGED <<op, now, world>> /\ CacheOk' /\ Shape /\ ReaderOk(read[r])
    BY DEF ReadPositions, ReadFunds, RightInv, CacheOk
<1>2. CASE ReadPositions(r)
    <2>1. PICK classed \in BOOLEAN : Finds(r, "funds", <<Listed(classed), account>>)
        BY <1>2 DEF ReadPositions, Finds
    <2>2. PICK f : f = <<Listed(classed), account>>
        OBVIOUS
    <2>3. PICK y : /\ Moves(r, y) /\ y.stage = "funds" /\ y.asked = read[r].asked
                   /\ y.found = f
        BY <1>1, <2>1, <2>2, FindStep
    <2>4. PositionsOk(f)
        <3>a. PICK e, u, b :
                 /\ f[1] = {e, u, b} /\ f[2] = account
                 /\ e = [symbol |-> "EQ", class |-> IF classed THEN "us_equity" ELSE "none",
                          exchange |-> "none", available |-> account.shares,
                          total |-> account.shares]
                 /\ u = [symbol |-> "USDCUSD", class |-> IF classed THEN "crypto" ELSE "none",
                            exchange |-> "none", available |-> account.usdc - account.locked,
                            total |-> account.usdc]
                 /\ b = [symbol |-> "BTCUSD", class |-> IF classed THEN "crypto" ELSE "none",
                           exchange |-> "CRYPTO", available |-> 1, total |-> 1]
            BY <2>2, Zenon DEF Listed
        <3>1. /\ f[1] = {e, u, b} /\ f[2] = account
                 /\ e.symbol = "EQ" /\ u.symbol = "USDCUSD" /\ b.symbol = "BTCUSD"
                 /\ e.class \in {"us_equity", "none"} /\ e.exchange = "none"
                 /\ b.class \in {"crypto", "none"} /\ b.exchange = "CRYPTO"
                 /\ u.total = account.usdc
            BY <3>a
        <3>2. ~is_non_equity(e) /\ is_non_equity(u) /\ is_non_equity(b)
            BY <3>1 DEF is_non_equity
        <3>3. {q \in f[1] : ~is_non_equity(q)} = {e}
            BY <3>1, <3>2
        <3> QED BY <3>1, <3>3 DEF PositionsOk
    <2>5. ReaderOk(y)
        BY <1>1, <2>3, <2>4 DEF ReaderOk
    <2> QED BY <1>1, <2>3, <2>5, ReaderKeeps
<1>3. CASE ReadFunds(r)
    <2>1. PICK found : found = read[r].found /\ PositionsOk(found)
        BY <1>1, <1>3 DEF ReadFunds, ReaderOk
    <2>2. PICK cents : cents = to_cash_value_cents(account.cash)
        OBVIOUS
    <2>3. PICK a : a = [kind |-> "inventory", usdc |-> alpaca_usdc_balance(found[1]),
                        equities |-> {p \in found[1] : ~is_non_equity(p)},
                        cents |-> cents, of |-> found[2]]
        OBVIOUS
    <2>4. Answer(r, IF cents < 0 THEN Error ELSE a)
        BY <1>3, <2>1, <2>2, <2>3 DEF ReadFunds
    <2>5. ASSUME NEW y, y.answer = a PROVE AnswerIsRight(y)
        <3>1. alpaca_usdc_balance(found[1]) = found[2].usdc
            BY <2>1 DEF PositionsOk, alpaca_usdc_balance
        <3>2. /\ a.kind = "inventory" /\ a.usdc = found[2].usdc /\ a.of = found[2]
              /\ a.equities = {p \in found[1] : ~is_non_equity(p)}
            BY <2>3, <3>1
        <3> QED BY <2>1, <2>5, <3>2 DEF AnswerIsRight, PositionsOk
    <2> QED BY <1>1, <2>4, <2>5, Answered, ErrorIsRight
<1> QED BY <1>2, <1>3

(* Prices: unusable ones are errors or no mark. *)
LEMMA PriceStep ==
    ASSUME RightInv, NEW r \in Readers, ReadPrice(r)
    PROVE  RightInv'
<1>1. UNCHANGED <<op, now, world>> /\ CacheOk'
    BY DEF ReadPrice, RightInv, CacheOk
<1>a. PICK p \in PriceAnswers, overnight \in BOOLEAN :
         \E a \in {Mark(p), Trade(p), Quote(p, overnight)} : Answer(r, a)
    BY DEF ReadPrice
<1>2. PICK a \in {Mark(p), Trade(p), Quote(p, overnight)} : Answer(r, a)
    BY <1>a
<1>3. ASSUME NEW y, y.answer = a PROVE AnswerIsRight(y)
    <2>1. /\ p.ask \in Int
          /\ \/ a = Error
             \/ a.kind = "no mark"
             \/ a.kind = "trade" /\ a.of.ask = p.ask /\ p.ask > 0
             \/ a.kind = "price" /\ a.of.symbol = "own" /\ a.of.ask = p.ask /\ p.ask > 0
             \/ /\ a.kind = "quote" /\ a.of.symbol = "own" /\ a.of.ask = p.ask /\ p.ask > 0
                /\ 0 < a.of.bid /\ a.of.bid <= a.of.ask /\ (a.overnight => a.of.dated)
        <3>1. p.ask \in Int /\ p.bid \in Int
            BY DEF PriceAnswers
        <3>2. CASE a = Mark(p)
            <4>1. \/ a = Error
                  \/ a = [kind |-> "no mark"]
                  \/ a = [kind |-> "price", of |-> p] /\ p.symbol = "own" /\ ~(p.ask <= 0)
                BY <3>2, Zenon DEF Mark
            <4>2. ASSUME a = [kind |-> "no mark"] PROVE a.kind = "no mark"
                BY ONLY <4>2
            <4>3. ASSUME a = [kind |-> "price", of |-> p] PROVE a.kind = "price" /\ a.of = p
                BY ONLY <4>3
            <4>4. ~(p.ask <= 0) => p.ask > 0
                BY <3>1
            <4> QED BY <3>1, <4>1, <4>2, <4>3, <4>4
        <3>3. CASE a = Trade(p)
            <4>1. a = Error \/ (a = [kind |-> "trade", of |-> p] /\ ~(p.ask <= 0))
                BY <3>3, Zenon DEF Trade
            <4>2. ASSUME a = [kind |-> "trade", of |-> p] PROVE a.kind = "trade" /\ a.of = p
                BY ONLY <4>2
            <4>3. ~(p.ask <= 0) => p.ask > 0
                BY <3>1
            <4> QED BY <4>1, <4>2, <4>3, <3>1
        <3>4. CASE a = Quote(p, overnight)
            BY <3>1, <3>4 DEF Quote
        <3> QED BY <1>2, <3>1, <3>2, <3>3, <3>4
    <2> QED BY <1>3, <2>1, ErrorIsRight DEF AnswerIsRight
<1> QED BY <1>1, <1>2, <1>3, Answered

(* An order: final states only from a status that fills no more. *)
LEMMA OrderStep ==
    ASSUME RightInv, NEW r \in Readers, ReadOrder(r)
    PROVE  RightInv'
<1>1. UNCHANGED <<op, now, world>> /\ CacheOk'
    BY DEF ReadOrder, RightInv, CacheOk
<1>a. PICK filled \in {-1, order.filled} : Answer(r, get_order_status(order, filled))
    BY DEF ReadOrder
<1>2. PICK a : Answer(r, a) /\ a = get_order_status(order, filled)
    BY <1>a
<1>3. ASSUME NEW y, y.answer = a PROVE AnswerIsRight(y)
    <2>1. PICK state : state = classify_broker_status(order.status)
        OBVIOUS
    <2>2. /\ state \in {"Filled", "Cancelled"} => order.status \in Over
          /\ terminality(order.status) = "Terminal" => order.status \in Over
          /\ terminality(order.status) \in {"Terminal", "NotTerminal"}
        BY <2>1 DEF classify_broker_status, terminality, Over
    <2>3. \/ a = Error
          \/ a.kind = "order" /\ a.of = order /\ a.state = "Submitted"
          \/ /\ a.kind = "order" /\ a.of = order /\ a.state = terminality(order.status)
          \/ /\ a.kind = "order" /\ a.of = order /\ a.state = state /\ a.filled = filled
             /\ ~(filled < 0)
        BY <1>2, <2>1 DEF get_order_status
    <2>4. filled = -1 \/ filled = order.filled
        OBVIOUS
    <2>5. state \in {"Submitted", "PartiallyFilled", "Filled", "Cancelled", "Failed"}
        BY <2>1 DEF classify_broker_status
    <2>6. ~(filled < 0) => filled = order.filled
        BY <2>4
    <2>7. CASE a = Error
        BY <1>3, <2>7, ErrorIsRight
    <2>8. CASE /\ a.kind = "order"
               /\ a.state \in {"Terminal", "Filled", "Cancelled"} => a.of.status \in Over
               /\ a.state \in {"PartiallyFilled", "Filled", "Cancelled"} => a.filled = a.of.filled
        BY <1>3, <2>8 DEF AnswerIsRight
    <2> QED BY <2>2, <2>3, <2>5, <2>6, <2>7, <2>8
<1> QED BY <1>1, <1>2, <1>3, Answered

LEMMA OtherSteps ==
    ASSUME RightInv, NEW r \in Readers, FetchPage(r) \/ ReadFails(r) \/ Return(r)
    PROVE  RightInv'
<1>1. UNCHANGED <<op, now, world>> /\ CacheOk' /\ Shape /\ ReaderOk(read[r])
    BY DEF FetchPage, ReadFails, Return, RightInv, CacheOk
<1>2. CASE FetchPage(r)
    <2>1. PICK y : /\ Moves(r, y) /\ y.asked = read[r].asked
                   /\ \/ y.stage = "paging"
                      \/ y.stage = "done" /\ (y.answer = Error \/ y.answer.kind = "rows")
        <3>1. PICK next : next = after_page(Page(read[r].token), read[r].token, read[r].pages + 1)
            OBVIOUS
        <3>2. PICK found : found = read[r].found \o Page(read[r].token)
            OBVIOUS
        <3>3. PICK y : /\ Moves(r, y) /\ y.asked = read[r].asked
                       /\ next = "complete" =>
                             y.stage = "done" /\ y.answer = [kind |-> "rows", rows |-> found]
                       /\ next = "more" => y.stage = "paging"
                       /\ next \notin {"complete", "more"} => y.stage = "done" /\ y.answer = Error
            BY <1>1, <1>2, <3>1, <3>2, PageStep
        <3>4. next = "complete" => y.answer.kind = "rows"
            BY <3>3
        <3> QED BY <3>3, <3>4
    <2>2. ReaderOk(y)
        BY <1>1, <2>1, ErrorIsRight DEF ReaderOk, AnswerIsRight
    <2> QED BY <1>1, <2>1, <2>2, ReaderKeeps
<1>3. CASE ReadFails(r)
    BY <1>1, <1>3, Answered, ErrorIsRight DEF ReadFails
<1>4. CASE Return(r)
    <2>1. read' = [read EXCEPT ![r] = Idle]
        BY <1>4 DEF Return
    <2>2. PICK y : y = Idle
        OBVIOUS
    <2>3. IsRead(y) /\ y.stage = "idle" /\ y.asked = 0
        BY <2>2 DEF Idle, IsRead
    <2>4. Moves(r, y)
        BY <1>1, <2>1, <2>2, <2>3 DEF Moves, Shape
    <2>5. ReaderOk(y)
        BY <2>3 DEF ReaderOk
    <2> QED BY <1>1, <2>4, <2>5, ReaderKeeps
<1> QED BY <1>2, <1>3, <1>4


(* The world moves, the clock and the calendar of a reader apart. *)
LEMMA WorldSteps ==
    ASSUME RightInv, RowArrives \/ AssetChanges \/ AccountMoves \/ OrderMoves
    PROVE  RightInv'
<1>1. UNCHANGED <<op, now, trading, early, cache, read>>
    BY DEF RowArrives, AssetChanges, AccountMoves, OrderMoves
<1>2. Shape' /\ Trading' /\ CacheOk' /\ now' \in Nat
    BY <1>1 DEF RightInv, Shape, Trading, CacheOk
<1>3. ASSUME NEW q \in Readers PROVE ReaderOk(read[q])'
    <2>1. PICK z : z = read[q] /\ ReaderOk(z)
        BY DEF RightInv
    <2>2. ReaderOk(z)'
        BY <1>1, <2>1, SameWorld
    <2> QED BY <1>1, <2>1, <2>2 DEF ReaderOk, AnswerIsRight
<1> QED BY <1>2, <1>3 DEF RightInv

(* A set of bounded naturals has a least member. *)
LEMMA FirstOf ==
    ASSUME NEW n \in Nat, NEW S \in SUBSET (0..n), S # {}
    PROVE  Min(S) \in S /\ Min(S) \in Nat /\ \A x \in S : Min(S) <= x
<1>1. \A x \in S : x \in Nat
    OBVIOUS
<1>2. IsFiniteSet(S)
    <2>1. IsFiniteSet(0..n)
        BY FS_Interval
    <2> QED BY <2>1, FS_Subset
<1>3. \E m \in S : \A x \in S : m <= x
    BY <1>1, <1>2, HasSmallest
<1> QED BY <1>1, <1>3 DEF Min

(* The clock moves only while no one holds an answer. *)
LEMMA TickStep ==
    ASSUME RightInv, Tick
    PROVE  RightInv'
<1>1. UNCHANGED <<op, trading, early, cache, read>>
    BY DEF Tick, world
<1>2. Shape' /\ Trading' /\ CacheOk' /\ now \in Nat
    BY <1>1 DEF RightInv, Shape, Trading, CacheOk
<1>3. /\ now' \in Nat
      /\ op = "asset" => now' = now + 1 /\ \A r \in Readers :
            read[r].stage \in {"sent", "served"} => now - read[r].asked < FetchTimeout
    <2>1. CASE op = "asset"
        BY <1>2, <2>1 DEF Tick
    <2>2. CASE op # "asset"
        <3>1. \A m \in Minutes : m \in Nat
            BY ReadAssumption
        <3>2. ASSUME NEW S \in SUBSET Minutes, S # {} PROVE Min(S) \in Nat
            <4>1. PICK n : n = 1439
                OBVIOUS
            <4>2. n \in Nat /\ S \in SUBSET (0..n)
                BY <4>1, ReadAssumption
            <4> QED BY <3>2, <4>2, FirstOf
        <3>3. Day(now) \in Nat
            BY <1>2, Clock
        <3>4. PICK later : later = {m \in Minutes : m > Minute(now)}
            OBVIOUS
        <3>5. IF later # {} THEN now' = Day(now) * DAY + Min(later)
              ELSE now' = (Day(now) + 1) * DAY + Min(Minutes)
            BY <2>2, <3>4 DEF Tick
        <3>6. CASE later # {}
            <4>1. Min(later) \in Nat
                BY <3>2, <3>4, <3>6
            <4> QED BY <2>2, <3>3, <3>5, <3>6, <4>1 DEF DAY
        <3>7. CASE later = {}
            <4>1. Min(Minutes) \in Nat
                BY <3>2, ReadAssumption
            <4> QED BY <2>2, <3>3, <3>5, <3>7, <4>1 DEF DAY
        <3> QED BY <3>6, <3>7
    <2> QED BY <2>1, <2>2
<1>4. ASSUME NEW q \in Readers PROVE ReaderOk(read[q])'
    <2>1. PICK z : z = read[q] /\ ReaderOk(z)
        BY DEF RightInv
    <2>2. z.stage # "done"
        BY <2>1 DEF Tick
    <2>3. Exchange(z.asked)' = Exchange(z.asked)
        BY <1>1 DEF Exchange, close, session_close
    <2>4. PositionsOk(z.found)' <=> PositionsOk(z.found)
        BY DEF PositionsOk, is_non_equity
    <2>5. FetchTimeout \in Nat
        BY ReadAssumption
    <2>6. ReaderOk(z)'
        BY <1>1, <1>2, <1>3, <2>1, <2>2, <2>3, <2>4, <2>5 DEF ReaderOk
    <2> QED BY <1>1, <2>1, <2>6 DEF ReaderOk, AnswerIsRight
<1> QED BY <1>2, <1>3, <1>4 DEF RightInv

LEMMA RightInit ==
    ASSUME ReadInit(Ops) PROVE RightInv
<1>1. now \in Nat /\ Trading
    BY DEF ReadInit, Trading, DAY
<1>2. CacheOk
    BY ReadAssumption DEF ReadInit, CacheOk
<1>3. PICK y : y = Idle
    OBVIOUS
<1>4. IsRead(y) /\ y.stage = "idle" /\ y.asked = 0
    BY <1>3 DEF Idle, IsRead
<1>5. ReaderOk(y)
    BY <1>4 DEF ReaderOk
<1>6. Shape /\ \A r \in Readers : read[r] = y
    BY <1>3, <1>4 DEF ReadInit, Shape
<1> QED BY <1>1, <1>2, <1>5, <1>6 DEF RightInv

LEMMA RightNext ==
    ASSUME RightInv, [ReadNext]_readVars PROVE RightInv'
<1>1. CASE UNCHANGED readVars
    <2>1. UNCHANGED <<op, now, trading, early, cache, read>>
        BY <1>1 DEF readVars
    <2>2. ASSUME NEW q \in Readers PROVE ReaderOk(read[q])'
        <3>1. PICK z : z = read[q] /\ ReaderOk(z)
            BY DEF RightInv
        <3>2. ReaderOk(z)'
            BY <2>1, <3>1, SameWorld
        <3> QED BY <2>1, <3>1, <3>2 DEF ReaderOk, AnswerIsRight
    <2> QED BY <2>1, <2>2 DEF RightInv, Shape, Trading, CacheOk
<1>2. CASE ReadNext
    BY <1>2, SessionSteps, AssetSteps, InventorySteps, PriceStep, OrderStep, OtherSteps,
       WorldSteps, TickStep DEF ReadNext
<1> QED BY <1>1, <1>2

(* ReadIsRight for any readers and bounds: whatever the session, asset,     *)
(* inventory, price and order reads of src/broker answer was true of what   *)
(* they were asked about, though calendar, cache and account move meanwhile. *)
THEOREM ReadsAreRight == ReadSpec => []ReadIsRight
<1>1. RightInv => ReadIsRight
    BY DEF RightInv, ReaderOk, ReadIsRight
<1> QED BY <1>1, RightInit, RightNext, PTL DEF ReadSpec


-----------------------------------------------------------------------------
(* EveryRowOnce *)

Increasing(s) == \A i, j \in DOMAIN s : i < j => s[i] < s[j]

(* Numbers in increasing order are all of a set as large as the sequence. *)
LEMMA IncreasingIsOnto ==
    ASSUME NEW n \in Nat, NEW S \in SUBSET Nat, IsFiniteSet(S), Cardinality(S) = n,
           NEW s \in [1..n -> S], Increasing(s)
    PROVE  \A x \in S : \E i \in 1..n : s[i] = x
<1>1. ASSUME NEW i \in 1..n, NEW j \in 1..n, s[i] = s[j] PROVE i = j
    <2>1. s[i] \in Nat /\ DOMAIN s = 1..n
        OBVIOUS
    <2>2. ~(i < j) /\ ~(j < i)
        BY <1>1, <2>1 DEF Increasing
    <2> QED BY <2>2
<1>2. s \in Injection(1..n, S)
    BY <1>1 DEF Injection, IsInjective
<1>3. Cardinality(1..n) = n
    BY FS_Interval
<1>4. s \in Surjection(1..n, S)
    BY <1>2, <1>3, FS_Injection
<1> QED BY <1>4 DEF Surjection

(* A finite set of numbers can be listed in increasing order, each number at *)
(* the place that counts the numbers up to it.                               *)
LEMMA CanBeListed ==
    ASSUME NEW S \in SUBSET Nat, IsFiniteSet(S)
    PROVE  \E s \in [1..Cardinality(S) -> S] : Increasing(s)
<1> DEFINE n == Cardinality(S)
           UpTo(x) == {y \in S : y <= x}
           rank == [x \in S |-> Cardinality(UpTo(x))]
<1>1. n \in Nat
    BY FS_CardinalityType
<1>2. ASSUME NEW x \in S
      PROVE  IsFiniteSet(UpTo(x)) /\ Cardinality(UpTo(x)) \in 1..n
    <2>1. UpTo(x) \in SUBSET S /\ x \in UpTo(x)
        OBVIOUS
    <2>2. IsFiniteSet(UpTo(x)) /\ Cardinality(UpTo(x)) <= n
        <3> HIDE DEF UpTo
        <3> QED BY <2>1, FS_Subset
    <2>3. Cardinality(UpTo(x)) \in Nat /\ Cardinality(UpTo(x)) # 0
        <3> HIDE DEF UpTo
        <3> QED BY <2>1, <2>2, FS_CardinalityType, FS_EmptySet
    <2> QED BY <1>1, <2>2, <2>3
<1>3. ASSUME NEW x \in S, NEW y \in S, x < y
      PROVE  Cardinality(UpTo(x)) < Cardinality(UpTo(y))
    <2>a. x \in Nat /\ y \in Nat /\ \A z \in S : z \in Nat
        OBVIOUS
    <2>b. (\A z \in S : z <= x => z <= y) /\ y <= y /\ ~(y <= x)
        BY <1>3, <2>a
    <2>1. UpTo(x) \in SUBSET UpTo(y) /\ y \in UpTo(y) /\ y \notin UpTo(x)
        BY <2>b
    <2>2. Cardinality(UpTo(x)) \in 1..n /\ Cardinality(UpTo(y)) \in 1..n /\ IsFiniteSet(UpTo(y))
        BY <1>2
    <2> HIDE DEF UpTo, n
    <2>3. /\ Cardinality(UpTo(x)) <= Cardinality(UpTo(y))
          /\ Cardinality(UpTo(y)) = Cardinality(UpTo(x)) => UpTo(y) = UpTo(x)
        BY <2>1, <2>2, FS_Subset
    <2> QED BY <1>1, <2>1, <2>2, <2>3
<1>4. rank \in [S -> 1..n] /\ \A x, y \in S : x < y => rank[x] < rank[y]
    BY <1>2, <1>3
<1> HIDE DEF rank
<1>5. \A x, y \in S : rank[x] = rank[y] => x = y
    BY <1>1, <1>4
<1>6. rank \in Injection(S, 1..n)
    BY <1>4, <1>5 DEF Injection, IsInjective
<1>7. IsFiniteSet(1..n) /\ Cardinality(1..n) = n
    <2> HIDE DEF n
    <2> QED BY <1>1, FS_Interval
<1>8. rank \in Surjection(S, 1..n)
    BY <1>6, <1>7, FS_Injection
<1>9. \A i \in 1..n : \E x \in S : rank[x] = i
    BY <1>8 DEF Surjection
<1> DEFINE s == [i \in 1..n |-> CHOOSE x \in S : rank[x] = i]
<1>10. s \in [1..n -> S] /\ \A i \in 1..n : rank[s[i]] = i
    BY <1>9
<1> HIDE DEF s
<1>11. ASSUME NEW i \in 1..n, NEW j \in 1..n, i < j PROVE s[i] < s[j]
    <2>1. s[i] \in S /\ s[j] \in S /\ rank[s[i]] = i /\ rank[s[j]] = j
        BY <1>10
    <2>a. i \in Int /\ j \in Int
        OBVIOUS
    <2>b. s[i] \in Nat /\ s[j] \in Nat
        BY <2>1
    <2>c. ~(j < i) /\ i # j
        BY <1>11, <2>a
    <2>3. ~(s[j] < s[i]) /\ s[i] # s[j]
        BY <1>4, <2>1, <2>c
    <2> QED BY ONLY <2>b, <2>3
<1>12. Increasing(s)
    BY <1>10, <1>11 DEF Increasing
<1> QED BY <1>10, <1>12

(* ascending lists a finite set, each member once. *)
LEMMA AscendingLists ==
    ASSUME NEW S \in SUBSET Nat, IsFiniteSet(S)
    PROVE  /\ ascending(S) \in Seq(S) /\ Len(ascending(S)) = Cardinality(S)
           /\ Increasing(ascending(S))
           /\ \A x \in S : \E i \in DOMAIN ascending(S) : ascending(S)[i] = x
<1>1. Cardinality(S) \in Nat
    BY FS_CardinalityType
<1>2. PICK s : s = ascending(S)
    OBVIOUS
<1>3. s \in [1..Cardinality(S) -> S] /\ Increasing(s)
    BY <1>2, CanBeListed DEF ascending, Increasing
<1>4. \A x \in S : \E i \in 1..Cardinality(S) : s[i] = x
    BY <1>1, <1>3, IncreasingIsOnto
<1> QED BY <1>1, <1>2, <1>3, <1>4


(* First takes the smallest ones. *)
LEMMA FirstIsBelow ==
    ASSUME NEW S \in SUBSET Nat, IsFiniteSet(S), NEW i \in First(S), NEW j \in S, j <= i
    PROVE  j \in First(S)
<1> DEFINE Below(x) == {y \in S : y < x}
<1>1. Below(j) \in SUBSET Below(i) /\ Below(i) \in SUBSET S
    <2>1. i \in Nat /\ j \in Nat /\ \A y \in S : y \in Nat
        BY DEF First
    <2>2. \A y \in S : y < j => y < i
        BY <2>1
    <2> QED BY <2>2
<1>2. Cardinality(Below(i)) < PAGE_SIZE
    BY DEF First
<1>3. j \in First(S) <=> Cardinality(Below(j)) < PAGE_SIZE
    BY DEF First
<1> HIDE DEF Below
<1>4. IsFiniteSet(Below(i)) /\ IsFiniteSet(Below(j))
    BY <1>1, FS_Subset
<1>5. /\ Cardinality(Below(j)) <= Cardinality(Below(i))
      /\ Cardinality(Below(j)) \in Nat /\ Cardinality(Below(i)) \in Nat
    BY <1>1, <1>4, FS_Subset, FS_CardinalityType
<1>6. PAGE_SIZE \in Nat
    BY ReadAssumption
<1> QED BY <1>2, <1>3, <1>5, <1>6

(* A page that is not full holds all there is after the token. *)
LEMMA ShortPageIsAll ==
    ASSUME NEW S \in SUBSET Nat, IsFiniteSet(S), Cardinality(First(S)) < PAGE_SIZE
    PROVE  First(S) = S
<1> DEFINE Below(x) == {y \in S : y < x}
           Rest == S \ First(S)
<1>1. First(S) \in SUBSET S
    BY DEF First
<1>2. SUFFICES ASSUME Rest # {} PROVE FALSE
    BY <1>1
<1>3. PICK m \in Rest : \A x \in Rest : m <= x
    <2>1. Rest \in SUBSET S /\ \A x \in Rest : x \in Nat
        OBVIOUS
    <2> HIDE DEF Rest
    <2>2. IsFiniteSet(Rest)
        BY <2>1, FS_Subset
    <2> QED BY <1>2, <2>1, <2>2, HasSmallest
<1>4. Below(m) \in SUBSET First(S)
    <2> SUFFICES ASSUME NEW y \in S, y < m PROVE y \in First(S)
        OBVIOUS
    <2>1. m \in Nat /\ y \in Nat
        OBVIOUS
    <2>2. y \notin Rest
        BY <1>3, <2>1
    <2> QED BY <2>2
<1>5. ~(Cardinality(Below(m)) < PAGE_SIZE)
    BY <1>3 DEF First
<1> HIDE DEF Below
<1>6. IsFiniteSet(First(S))
    BY <1>1, FS_Subset
<1>7. Cardinality(Below(m)) <= Cardinality(First(S)) /\ IsFiniteSet(Below(m))
    BY <1>4, <1>6, FS_Subset
<1>8. Cardinality(Below(m)) \in Nat /\ Cardinality(First(S)) \in Nat /\ PAGE_SIZE \in Nat
    BY <1>6, <1>7, FS_CardinalityType, ReadAssumption
<1> QED BY <1>5, <1>7, <1>8

(* A number above all of S does not change a full page. *)
LEMMA FullPageStays ==
    ASSUME NEW S \in SUBSET Nat, IsFiniteSet(S), ~(Cardinality(First(S)) < PAGE_SIZE),
           NEW n \in Nat, \A x \in S : x < n
    PROVE  First(S \cup {n}) = First(S)
<1> DEFINE T == S \cup {n}
<1>1. \A x \in S : x \in Nat /\ ~(n < x) /\ n # x
    OBVIOUS
<1>2. \A x \in S : {j \in T : j < x} = {j \in S : j < x}
    BY <1>1
<1>3. {j \in T : j < n} = S
    <2>1. ~(n < n)
        OBVIOUS
    <2> QED BY <2>1
<1>4. n \notin First(T)
    <2>1. First(S) \in SUBSET S
        BY DEF First
    <2>2. IsFiniteSet(First(S)) /\ Cardinality(First(S)) <= Cardinality(S)
        BY <2>1, FS_Subset
    <2>3. Cardinality(First(S)) \in Nat /\ Cardinality(S) \in Nat /\ PAGE_SIZE \in Nat
        BY <2>2, FS_CardinalityType, ReadAssumption
    <2>4. ~(Cardinality(S) < PAGE_SIZE)
        BY <2>2, <2>3
    <2> QED BY <1>3, <2>4 DEF First
<1>5. \A x \in S : x \in First(T) <=> x \in First(S)
    BY <1>2 DEF First
<1>6. First(T) \subseteq T /\ First(S) \subseteq S
    BY DEF First
<1> QED BY <1>4, <1>5, <1>6

\* h is f and then p: it holds what they hold, in order.
Joins(f, p, h) ==
    /\ h \in Seq(Nat) /\ Increasing(h)
    /\ \A k \in DOMAIN h :
          (\E i \in DOMAIN f : h[k] = f[i]) \/ (\E j \in DOMAIN p : h[k] = p[j])
    /\ \A i \in DOMAIN f : \E k \in DOMAIN h : h[k] = f[i]
    /\ \A j \in DOMAIN p : \E k \in DOMAIN h : h[k] = p[j]
    /\ Len(h) = Len(f) + Len(p)
    /\ Len(p) > 0 => h[Len(h)] = p[Len(p)]

(* One increasing sequence before another. *)
LEMMA Joined ==
    ASSUME NEW f \in Seq(Nat), NEW p \in Seq(Nat), Increasing(f), Increasing(p),
           \A i \in DOMAIN f, j \in DOMAIN p : f[i] < p[j],
           NEW h, h = f \o p
    PROVE  Joins(f, p, h)
<1>a. PICK m, n : m = Len(f) /\ n = Len(p)
    OBVIOUS
<1>1. /\ m \in Nat /\ n \in Nat /\ DOMAIN f = 1..m /\ DOMAIN p = 1..n
      /\ h \in Seq(Nat) /\ Len(h) = m + n /\ DOMAIN h = 1..(m + n)
      /\ \A i \in 1..m : h[i] = f[i]
      /\ \A j \in 1..n : h[m + j] = p[j]
    BY <1>a
<1>2. ASSUME NEW k \in 1..(m + n) PROVE k \in 1..m \/ k - m \in 1..n
    BY <1>1
<1>3. ASSUME NEW i \in 1..(m + n), NEW j \in 1..(m + n), i < j PROVE h[i] < h[j]
    <2>1. CASE i \in 1..m /\ j \in 1..m
        BY <1>1, <1>3, <2>1 DEF Increasing
    <2>2. CASE i \in 1..m /\ j - m \in 1..n
        <3>1. h[j] = p[j - m]
            <4>1. m + (j - m) = j
                BY <1>1
            <4> QED BY <1>1, <2>2, <4>1
        <3> QED BY <1>1, <2>2, <3>1
    <2>3. CASE i - m \in 1..n /\ j - m \in 1..n
        <3>1. m + (i - m) = i /\ m + (j - m) = j /\ i - m < j - m
            BY <1>1, <1>3
        <3>2. h[i] = p[i - m] /\ h[j] = p[j - m]
            BY <1>1, <2>3, <3>1
        <3>3. p[i - m] < p[j - m]
            BY ONLY <1>1, <2>3, <3>1, Increasing(p) DEF Increasing
        <3> QED BY ONLY <3>2, <3>3
    <2>4. ~(i - m \in 1..n /\ j \in 1..m)
        BY <1>1, <1>3
    <2> QED BY <1>2, <2>1, <2>2, <2>3, <2>4
<1>4. Increasing(h)
    BY <1>1, <1>3 DEF Increasing
<1>5. ASSUME NEW k \in 1..(m + n)
      PROVE  (\E i \in 1..m : h[k] = f[i]) \/ (\E j \in 1..n : h[k] = p[j])
    <2>1. m + (k - m) = k
        BY <1>1
    <2> QED BY <1>1, <1>2, <2>1
<1>6. (\A i \in 1..m : i \in 1..(m + n)) /\ (\A j \in 1..n : m + j \in 1..(m + n))
    BY <1>1
<1>7. n > 0 => h[m + n] = p[n]
    BY <1>1
<1>8. /\ \A i \in 1..m : \E k \in 1..(m + n) : h[k] = f[i]
      /\ \A j \in 1..n : \E k \in 1..(m + n) : h[k] = p[j]
    BY <1>1, <1>6
<1>9. /\ h \in Seq(Nat) /\ Increasing(h) /\ Len(h) = Len(f) + Len(p)
      /\ Len(p) > 0 => h[Len(h)] = p[Len(p)]
    BY ONLY <1>a, <1>1, <1>4, <1>7
<1>10. /\ \A k \in DOMAIN h :
             (\E i \in DOMAIN f : h[k] = f[i]) \/ (\E j \in DOMAIN p : h[k] = p[j])
       /\ \A i \in DOMAIN f : \E k \in DOMAIN h : h[k] = f[i]
       /\ \A j \in DOMAIN p : \E k \in DOMAIN h : h[k] = p[j]
    BY ONLY <1>1, <1>5, <1>8
<1> QED BY ONLY <1>9, <1>10 DEF Joins


\* Rows in order, each of the types asked for.
FoundOk(f) == f \in Seq(Nat) /\ Increasing(f) /\ \A k \in DOMAIN f : f[k] \in Matching

\* Between two pages: every row up to the token is in, and a server that does
\* not follow tokens has given the one page it always gives.
PagingOk(x) ==
    /\ FoundOk(x.found) /\ Len(x.found) > 0 /\ x.token = x.found[Len(x.found)]
    /\ x.start \in 0..Len(rows)
    /\ honest => \A i \in Matching : i <= x.token => \E k \in DOMAIN x.found : x.found[k] = i
    /\ ~honest => /\ x.found = ascending(First(Matching))
                  /\ ~(Cardinality(First(Matching)) < PAGE_SIZE)

\* An answer: nothing is missing below the start or below any of its rows.
RowsOk(f, start) ==
    /\ FoundOk(f) /\ start \in 0..Len(rows)
    /\ \A i \in Matching : i <= start \/ (\E k \in DOMAIN f : i <= f[k])
          => \E k \in DOMAIN f : f[k] = i

RowReader(x) ==
    /\ x.stage = "idle" => x.found = <<>> /\ x.token = 0
    /\ x.stage = "paging" => PagingOk(x)
    /\ x.answer.kind = "rows" => x.stage = "done" /\ RowsOk(x.answer.rows, x.start)

RowsInv ==
    /\ Shape /\ rows \in Seq(BOOLEAN) /\ honest \in BOOLEAN
    /\ \A r \in Readers : RowReader(read[r])

(* The rows that match are finitely many of the rows there are. *)
LEMMA MatchingSet ==
    ASSUME rows \in Seq(BOOLEAN)
    PROVE  /\ Matching \in SUBSET Nat /\ Matching \in SUBSET (1..Len(rows))
           /\ IsFiniteSet(Matching) /\ Len(rows) \in Nat
<1>1. Len(rows) \in Nat
    OBVIOUS
<1>2. Matching \in SUBSET (1..Len(rows))
    BY DEF Matching
<1>3. IsFiniteSet(1..Len(rows))
    BY <1>1, FS_Interval
<1>4. IsFiniteSet(Matching)
    BY <1>2, <1>3, FS_Subset
<1> QED BY <1>1, <1>2, <1>4

(* A page holds rows after the token in order: the first of them, and when it *)
(* is not full, all of them.                                                  *)
LEMMA PageHolds ==
    ASSUME rows \in Seq(BOOLEAN), NEW token
    PROVE  LET page == Page(token)
               after == After(token)
           IN  /\ page \in Seq(Nat) /\ Increasing(page) /\ Len(page) = Cardinality(First(after))
               /\ \A k \in DOMAIN page : page[k] \in after
               /\ \A i \in after, k \in DOMAIN page : i <= page[k] =>
                     \E j \in DOMAIN page : page[j] = i
               /\ Len(page) < PAGE_SIZE => \A i \in after : \E j \in DOMAIN page : page[j] = i
<1> DEFINE after == After(token)
           S == First(after)
           page == ascending(S)
<1>1. after \in SUBSET Matching /\ S \in SUBSET after
    BY DEF After, First
<1>2. after \in SUBSET Nat /\ IsFiniteSet(after)
    BY <1>1, MatchingSet, FS_Subset
<1>3. S \in SUBSET Nat /\ IsFiniteSet(S)
    BY <1>1, <1>2, FS_Subset
<1>4. /\ page \in Seq(S) /\ Len(page) = Cardinality(S) /\ Increasing(page)
      /\ \A x \in S : \E i \in DOMAIN page : page[i] = x
    <2> HIDE DEF S
    <2> QED BY <1>3, AscendingLists
<1> HIDE DEF page
<1>5. page \in Seq(Nat) /\ \A k \in DOMAIN page : page[k] \in S
    BY <1>3, <1>4
<1>6. ASSUME NEW i \in after, NEW k \in DOMAIN page, i <= page[k]
      PROVE  i \in S
    BY <1>2, <1>5, <1>6, FirstIsBelow
<1>7. Len(page) < PAGE_SIZE => after = S
    BY <1>2, <1>4, ShortPageIsAll
<1>8. Page(token) = page
    BY DEF Page, page
<1> HIDE DEF after, S
<1>9. \A k \in DOMAIN page : page[k] \in after
    BY <1>1, <1>5
<1>10. \A i \in after, k \in DOMAIN page : i <= page[k] => \E j \in DOMAIN page : page[j] = i
    BY <1>4, <1>6
<1>11. Len(page) < PAGE_SIZE => \A i \in after : \E j \in DOMAIN page : page[j] = i
    BY <1>4, <1>7
<1> QED BY <1>4, <1>5, <1>8, <1>9, <1>10, <1>11 DEF after, S


(* A step of one reader that leaves it in order keeps the invariant. *)
LEMMA RowsKeep ==
    ASSUME RowsInv, NEW r \in Readers, NEW y, Moves(r, y), RowReader(y), UNCHANGED <<rows, honest>>
    PROVE  RowsInv'
<1>1. Shape'
    BY DEF RowsInv, Shape, Moves
<1>2. ASSUME NEW q \in Readers PROVE RowReader(read[q])'
    <2>1. PICK z : z = read'[q] /\ RowReader(z)
        BY DEF Moves, RowsInv
    <2>2. RowReader(z)'
        BY <2>1 DEF RowReader, PagingOk, RowsOk, FoundOk, Matching
    <2> QED BY <2>1, <2>2 DEF RowReader, PagingOk
<1> QED BY <1>1, <1>2 DEF RowsInv

(* A full page that ends with the token it was asked with is refused. *)
LEMMA PageRefused ==
    ASSUME RowsInv, NEW r \in Readers, read[r].stage = "paging", ~honest
    PROVE  LET x == read[r] IN
           after_page(Page(x.token), x.token, x.pages + 1) = "PaginationInvariantViolation"
<1>1. PICK x : x = read[r] /\ PagingOk(x)
    BY DEF RowsInv, RowReader
<1>2. PICK page : page = Page(x.token)
    OBVIOUS
<1>3. page = x.found
    <2>1. \A i \in Matching : i > 0
        BY MatchingSet DEF RowsInv
    <2>2. After(x.token) = Matching
        BY <2>1 DEF After
    <2> QED BY <1>1, <1>2, <2>2 DEF Page, PagingOk
<1>4. /\ page \in Seq(Nat) /\ Len(page) = Cardinality(First(Matching))
      /\ Len(page) > 0 /\ page[Len(page)] = x.token
    <2>1. Len(page) = Cardinality(First(After(x.token)))
        BY <1>2, PageHolds DEF RowsInv
    <2>2. \A i \in Matching : i > 0
        BY MatchingSet DEF RowsInv
    <2>3. After(x.token) = Matching
        BY <2>2 DEF After
    <2> QED BY <1>1, <1>3, <2>1, <2>3 DEF PagingOk, FoundOk
<1>5. ~(Len(page) < PAGE_SIZE)
    BY <1>1, <1>4 DEF PagingOk
<1>6. page # <<>>
    BY <1>4
<1> QED BY <1>1, <1>2, <1>4, <1>5, <1>6 DEF after_page, last_id, Last

\* What a reader that is about to fetch has: all rows up to the token.
UpToToken(x) ==
    /\ FoundOk(x.found) /\ x.token \in Nat
    /\ \A k \in DOMAIN x.found : x.found[k] <= x.token
    /\ \A i \in Matching : i <= x.token => \E k \in DOMAIN x.found : x.found[k] = i
    /\ After(x.token) = {i \in Matching : i > x.token}

(* A reader about to fetch has all rows up to its token. *)
LEMMA FetchesFromToken ==
    ASSUME RowsInv, NEW r \in Readers,
           read[r].stage = "idle" \/ (read[r].stage = "paging" /\ honest)
    PROVE  UpToToken(read[r])
<1>1. PICK x : x = read[r] /\ RowReader(x)
    BY DEF RowsInv
<1>2. \A i \in Matching : i \in Nat /\ i > 0
    BY MatchingSet DEF RowsInv
<1>3. CASE x.stage = "idle"
    <2>1. x.found = <<>> /\ x.token = 0
        BY <1>1, <1>3 DEF RowReader
    <2>2. FoundOk(x.found)
        BY <2>1 DEF FoundOk, Increasing
    <2>3. After(0) = {i \in Matching : i > 0}
        BY <1>2 DEF After
    <2> QED BY <1>1, <1>2, <2>1, <2>2, <2>3 DEF UpToToken
<1>4. CASE x.stage = "paging" /\ honest
    <2>1. PagingOk(x)
        BY <1>1, <1>4 DEF RowReader
    <2>2. PICK f : f = x.found
        OBVIOUS
    <2>3. /\ f \in Seq(Nat) /\ Increasing(f) /\ Len(f) > 0 /\ x.token = f[Len(f)]
          /\ FoundOk(f)
        BY <2>1, <2>2 DEF PagingOk, FoundOk
    <2>4. x.token \in Nat
        BY <2>3
    <2>5. ASSUME NEW k \in DOMAIN f PROVE f[k] <= x.token
        <3>1. k \in 1..Len(f) /\ Len(f) \in DOMAIN f /\ Len(f) \in Nat /\ f[k] \in Nat
            BY <2>3
        <3>2. CASE k = Len(f)
            BY <2>3, <2>4, <3>2
        <3>3. CASE k < Len(f)
            BY <2>3, <2>4, <3>1, <3>3 DEF Increasing
        <3> QED BY <3>1, <3>2, <3>3
    <2>6. After(x.token) = {i \in Matching : i > x.token}
        BY <1>4 DEF After
    <2> QED BY <1>1, <1>4, <2>1, <2>2, <2>3, <2>4, <2>5, <2>6 DEF UpToToken, PagingOk
<1> QED BY <1>1, <1>3, <1>4

\* What it has with the page that follows.
Carries(x, page, h) ==
    /\ FoundOk(h) /\ page \in Seq(Nat)
    /\ Len(page) < PAGE_SIZE => \A i \in Matching : \E k \in DOMAIN h : h[k] = i
    /\ Len(page) > 0 =>
          /\ Len(h) > 0 /\ h[Len(h)] = page[Len(page)]
          /\ \A i \in Matching : i <= page[Len(page)] => \E k \in DOMAIN h : h[k] = i
    /\ Len(page) = Cardinality(First(After(x.token)))

(* The page that follows joins what it has, without a gap. *)
LEMMA PageJoins ==
    ASSUME rows \in Seq(BOOLEAN), NEW x, UpToToken(x), NEW page, page = Page(x.token),
           NEW h, h = x.found \o page
    PROVE  Carries(x, page, h)
<1> DEFINE f == x.found
           after == After(x.token)
<1>1. /\ page \in Seq(Nat) /\ Increasing(page) /\ Len(page) = Cardinality(First(after))
      /\ \A k \in DOMAIN page : page[k] \in after
      /\ \A i \in after, k \in DOMAIN page : i <= page[k] => \E j \in DOMAIN page : page[j] = i
      /\ Len(page) < PAGE_SIZE => \A i \in after : \E j \in DOMAIN page : page[j] = i
    BY PageHolds
<1>2. /\ f \in Seq(Nat) /\ Increasing(f) /\ x.token \in Nat
      /\ \A k \in DOMAIN f : f[k] \in Matching /\ f[k] <= x.token
      /\ \A i \in Matching : i <= x.token => \E k \in DOMAIN f : f[k] = i
      /\ after = {i \in Matching : i > x.token}
    BY DEF UpToToken, FoundOk
<1> HIDE DEF f, after
<1>3. \A i \in DOMAIN f, j \in DOMAIN page : f[i] < page[j]
    <2> SUFFICES ASSUME NEW i \in DOMAIN f, NEW j \in DOMAIN page PROVE f[i] < page[j]
        OBVIOUS
    <2>1. f[i] \in Nat /\ page[j] \in Nat /\ f[i] <= x.token /\ page[j] > x.token
        BY <1>1, <1>2
    <2> QED BY <1>2, <2>1
<1>4. h = f \o page
    BY DEF f
<1>5. /\ h \in Seq(Nat) /\ Increasing(h)
      /\ \A k \in DOMAIN h : (\E i \in DOMAIN f : h[k] = f[i])
              \/ (\E j \in DOMAIN page : h[k] = page[j])
      /\ \A i \in DOMAIN f : \E k \in DOMAIN h : h[k] = f[i]
      /\ \A j \in DOMAIN page : \E k \in DOMAIN h : h[k] = page[j]
      /\ Len(h) = Len(f) + Len(page)
      /\ Len(page) > 0 => h[Len(h)] = page[Len(page)]
    <2>1. Joins(f, page, h)
        BY ONLY <1>1, <1>2, <1>3, <1>4, Joined
    <2> QED BY ONLY <2>1 DEF Joins
<1>6. FoundOk(h)
    <2>1. \A k \in DOMAIN h : h[k] \in Matching
        <3>1. \A j \in DOMAIN page : page[j] \in Matching
            BY ONLY <1>1, <1>2
        <3> QED BY ONLY <1>2, <1>5, <3>1
    <2> QED BY <1>5, <2>1 DEF FoundOk
<1>7. ASSUME NEW i \in Matching,
             i <= x.token \/ (\E j \in DOMAIN page : page[j] = i)
      PROVE  \E k \in DOMAIN h : h[k] = i
    <2>1. CASE i <= x.token
        <3>1. PICK k \in DOMAIN f : f[k] = i
            BY <1>2, <2>1
        <3> QED BY <1>5, <3>1
    <2>2. CASE \E j \in DOMAIN page : page[j] = i
        BY ONLY <1>5, <2>2
    <2> QED BY <1>7, <2>1, <2>2
<1>8. \A i \in Matching : i \in Nat
    BY MatchingSet
<1>9. \A i \in Matching : i <= x.token \/ i \in after
    BY <1>2, <1>8
<1>10. Len(page) < PAGE_SIZE => \A i \in Matching : \E k \in DOMAIN h : h[k] = i
    BY <1>1, <1>7, <1>9
<1>11. ASSUME Len(page) > 0
       PROVE  /\ Len(h) > 0 /\ h[Len(h)] = page[Len(page)]
              /\ \A i \in Matching : i <= page[Len(page)] => \E k \in DOMAIN h : h[k] = i
    <2>1. Len(page) \in DOMAIN page /\ Len(f) \in Nat /\ Len(page) \in Nat
        BY <1>1, <1>2, <1>11
    <2>2. Len(h) > 0
        BY <1>5, <1>11, <2>1
    <2>3. \A i \in Matching : i <= page[Len(page)] => \E k \in DOMAIN h : h[k] = i
        BY <1>1, <1>7, <1>9, <2>1
    <2> QED BY <1>5, <1>11, <2>2, <2>3
<1> QED BY <1>1, <1>6, <1>10, <1>11 DEF after, Carries


(* A page fetched keeps the rows in order and whole. *)
LEMMA FetchKeeps ==
    ASSUME RowsInv, NEW r \in Readers, FetchPage(r)
    PROVE  RowsInv'
<1>1. UNCHANGED <<rows, honest>> /\ read[r].stage \in {"idle", "paging"} /\ Shape
    BY DEF FetchPage, world, RowsInv
<1>2. PICK x : x = read[r] /\ RowReader(x)
    BY DEF RowsInv
<1>3. PICK page : page = Page(x.token)
    OBVIOUS
<1>4. PICK h : h = x.found \o page
    OBVIOUS
<1>5. PICK next : next = after_page(page, x.token, x.pages + 1)
    OBVIOUS
<1>6. PICK y : /\ Moves(r, y)
               /\ y.found = h
               /\ y.start = IF x.stage = "idle" THEN Len(rows) ELSE x.start
               /\ next = "complete" => y.stage = "done" /\ y.answer = [kind |-> "rows", rows |-> h]
               /\ next = "more" =>
                     y.stage = "paging" /\ y.token = last_id(page) /\ y.answer = x.answer
               /\ next \notin {"complete", "more"} => y.stage = "done" /\ y.answer = Error
    BY <1>1, <1>2, <1>3, <1>4, <1>5, PageStep
<1>7. x.answer.kind # "rows"
    BY <1>1, <1>2 DEF RowReader
<1>8. y.start \in 0..Len(rows)
    <2>1. Len(rows) \in Nat
        BY MatchingSet DEF RowsInv
    <2> QED BY <1>1, <1>2, <1>6, <2>1 DEF RowReader, PagingOk
<1>9. RowReader(y)
    <2>1. CASE next \notin {"complete", "more"}
        <3>1. y.stage = "done" /\ y.answer.kind # "rows"
            BY <1>6, <2>1 DEF Error
        <3> QED BY <3>1 DEF RowReader
    <2>2. CASE next \in {"complete", "more"}
        <3>1. x.stage = "idle" \/ (x.stage = "paging" /\ honest)
            BY <1>1, <1>2, <1>3, <1>5, <2>2, PageRefused
        <3>2. UpToToken(x)
            BY <1>2, <3>1, FetchesFromToken
        <3>3. /\ FoundOk(h) /\ page \in Seq(Nat)
              /\ Len(page) < PAGE_SIZE => \A i \in Matching : \E k \in DOMAIN h : h[k] = i
              /\ Len(page) > 0 =>
                    /\ Len(h) > 0 /\ h[Len(h)] = page[Len(page)]
                    /\ \A i \in Matching : i <= page[Len(page)] => \E k \in DOMAIN h : h[k] = i
              /\ Len(page) = Cardinality(First(After(x.token)))
            <4>1. rows \in Seq(BOOLEAN)
                BY DEF RowsInv
            <4>2. Carries(x, page, h)
                BY ONLY <1>3, <1>4, <3>2, <4>1, PageJoins
            <4> QED BY <4>2 DEF Carries
        <3>4. PAGE_SIZE \in Nat \ {0} /\ Len(page) \in Nat
            BY <3>3, ReadAssumption
        <3>5. CASE next = "complete"
            <4>1. Len(page) < PAGE_SIZE
                BY <1>5, <3>3, <3>4, <3>5 DEF after_page
            <4>2. RowsOk(h, y.start)
                BY <1>8, <3>3, <4>1 DEF RowsOk
            <4>3. y.stage = "done" /\ y.answer.rows = h
                BY <1>6, <3>5
            <4> QED BY <4>2, <4>3 DEF RowReader
        <3>6. CASE next = "more"
            <4>1. ~(Len(page) < PAGE_SIZE)
                BY <1>5, <3>6 DEF after_page
            <4>2. Len(page) > 0
                BY <3>4, <4>1
            <4>3. y.stage = "paging" /\ y.token = page[Len(page)] /\ y.answer.kind # "rows"
                BY <1>6, <1>7, <3>6 DEF last_id, Last
            <4>4. ASSUME ~honest
                  PROVE  h = ascending(First(Matching))
                          /\ ~(Cardinality(First(Matching)) < PAGE_SIZE)
                <5>1. x.found = <<>>
                    BY <1>2, <3>1, <4>4 DEF RowReader
                <5>2. h = page
                    BY <1>4, <3>3, <5>1
                <5>3. After(x.token) = Matching
                    <6>1. \A i \in Matching : i > 0
                        BY MatchingSet DEF RowsInv
                    <6> QED BY <4>4, <6>1 DEF After
                <5> QED BY <1>3, <3>3, <4>1, <5>2, <5>3 DEF Page
            <4>5. PagingOk(y)
                BY <1>6, <1>8, <3>3, <4>2, <4>3, <4>4 DEF PagingOk
            <4> QED BY <4>3, <4>5 DEF RowReader
        <3> QED BY <2>2, <3>5, <3>6
    <2> QED BY <2>1, <2>2
<1> QED BY <1>1, <1>6, <1>9, RowsKeep

(* No other read answers with rows. *)
LEMMA OthersHaveNoRows ==
    ASSUME RowsInv, NEW r \in Readers, UNCHANGED <<rows, honest>>,
           NEW y, Moves(r, y), y.stage \notin {"idle", "paging"}, y.answer.kind # "rows"
    PROVE  RowsInv'
<1>1. RowReader(y)
    BY DEF RowReader
<1> QED BY <1>1, RowsKeep

LEMMA AnswersWithoutRows ==
    ASSUME RowsInv, NEW r \in Readers, UNCHANGED <<rows, honest>>,
           NEW a, Answer(r, a), a.kind # "rows"
    PROVE  RowsInv'
<1>1. PICK y : Moves(r, y) /\ y.stage = "done" /\ y.answer = a
    BY DoneStep DEF RowsInv
<1> QED BY <1>1, OthersHaveNoRows

(* Other reads answer with no rows. *)
LEMMA OtherReads ==
    ASSUME RowsInv, NEW r \in Readers,
           \/ AskSession(r) \/ CalendarAnswers(r) \/ GapAnswers(r)
           \/ AskAsset(r) \/ AssetServed(r) \/ AssetReceived(r)
           \/ ReadPositions(r) \/ ReadFunds(r) \/ ReadPrice(r) \/ ReadOrder(r)
           \/ ReadFails(r) \/ Return(r)
    PROVE  RowsInv'
<1>1. UNCHANGED <<rows, honest>> /\ Shape /\ RowReader(read[r])
    BY DEF AskSession, CalendarAnswers, GapAnswers, AskAsset, AssetServed, AssetReceived,
           ReadPositions, ReadFunds, ReadPrice, ReadOrder, ReadFails, Return, world, RowsInv
<1>2. read[r].stage # "done" => read[r].answer.kind # "rows"
    BY <1>1 DEF RowReader
<1>3. Error.kind # "rows"
    BY DEF Error
<1>4. CASE AskSession(r)
    <2>1. Asks(r, "calendar", now) /\ read[r].stage = "idle"
        BY <1>4 DEF AskSession, Asks
    <2>2. PICK y : Moves(r, y) /\ y.stage = "calendar" /\ y.answer = read[r].answer
        BY <1>1, <2>1, AskStep
    <2> QED BY <1>1, <1>2, <2>1, <2>2, OthersHaveNoRows
<1>5. CASE CalendarAnswers(r)
    <2>1. PICK t, s : Answer(r, Error) \/ Goes(r, "gap") \/ Answer(r, Session(t, s, "Unknown"))
        BY <1>5 DEF CalendarAnswers, Goes
    <2>2. Session(t, s, "Unknown").kind # "rows"
        BY DEF Session
    <2>3. CASE Goes(r, "gap")
        <3>1. PICK y : Moves(r, y) /\ y.stage = "gap" /\ y.answer = read[r].answer
            BY <1>1, <2>3, StageStep
        <3>2. read[r].stage = "calendar"
            BY <1>5 DEF CalendarAnswers
        <3> QED BY <1>1, <1>2, <3>1, <3>2, OthersHaveNoRows
    <2> QED BY <1>1, <1>3, <2>1, <2>2, <2>3, AnswersWithoutRows
<1>6. CASE GapAnswers(r)
    <2>1. PICK t, gap : Answer(r, Session(t, "Extended", gap))
        BY <1>6 DEF GapAnswers
    <2>2. Session(t, "Extended", gap).kind # "rows"
        BY DEF Session
    <2> QED BY <1>1, <2>1, <2>2, AnswersWithoutRows
<1>7. ASSUME NEW a, NEW shares, NEW extended PROVE Prepared(a, shares, extended).kind # "rows"
    BY <1>3 DEF Prepared
<1>8. CASE AskAsset(r)
    <2>1. \/ \E shares \in OrderShares, extended \in BOOLEAN :
                FromCache(r, "done", cache.since, now, Prepared(cache.asset, shares, extended))
          \/ Asks(r, "sent", now)
        BY <1>8 DEF AskAsset, FromCache, Asks
    <2>2. CASE Asks(r, "sent", now)
        <3>1. PICK y : Moves(r, y) /\ y.stage = "sent" /\ y.answer = read[r].answer
            BY <1>1, <2>2, AskStep
        <3>2. read[r].stage = "idle"
            BY <1>8 DEF AskAsset
        <3> QED BY <1>1, <1>2, <3>1, <3>2, OthersHaveNoRows
    <2>3. ASSUME NEW shares, NEW extended,
                 FromCache(r, "done", cache.since, now, Prepared(cache.asset, shares, extended))
          PROVE  RowsInv'
        <3>1. PICK a : a = Prepared(cache.asset, shares, extended) /\ a.kind # "rows"
            BY <1>7
        <3>2. PICK y : Moves(r, y) /\ y.stage = "done" /\ y.answer = a
            BY <1>1, <2>3, <3>1, CacheStep
        <3> QED BY <1>1, <3>1, <3>2, OthersHaveNoRows
    <2> QED BY <2>1, <2>2, <2>3
<1>9. CASE AssetServed(r)
    <2>1. Serves(r, "served", now, <<asset>>) /\ read[r].stage = "sent"
        BY <1>9 DEF AssetServed, Serves
    <2>2. PICK y : Moves(r, y) /\ y.stage = "served" /\ y.answer = read[r].answer
        BY <1>1, <2>1, ServeStep
    <2> QED BY <1>1, <1>2, <2>1, <2>2, OthersHaveNoRows
<1>10. CASE AssetReceived(r)
    BY <1>1, <1>7, <1>10, AnswersWithoutRows DEF AssetReceived
<1>11. CASE ReadPositions(r)
    <2>1. PICK f : Finds(r, "funds", f) /\ read[r].stage = "idle"
        BY <1>11 DEF ReadPositions, Finds
    <2>2. PICK y : Moves(r, y) /\ y.stage = "funds" /\ y.answer = read[r].answer
        BY <1>1, <2>1, FindStep
    <2> QED BY <1>1, <1>2, <2>1, <2>2, OthersHaveNoRows
<1>12. CASE ReadFunds(r)
    <2>1. PICK u, e, c, o, a :
             /\ a = [kind |-> "inventory", usdc |-> u, equities |-> e, cents |-> c, of |-> o]
             /\ Answer(r, Error) \/ Answer(r, a)
        BY <1>12 DEF ReadFunds
    <2>2. a.kind # "rows"
        BY <2>1
    <2> QED BY <1>1, <1>3, <2>1, <2>2, AnswersWithoutRows
<1>13. CASE ReadPrice(r)
    <2>a. PICK p \in PriceAnswers, overnight \in BOOLEAN :
             \E a \in {Mark(p), Trade(p), Quote(p, overnight)} : Answer(r, a)
        BY <1>13 DEF ReadPrice
    <2>1. PICK a \in {Mark(p), Trade(p), Quote(p, overnight)} : Answer(r, a)
        BY <2>a
    <2>2. Mark(p).kind # "rows" /\ Trade(p).kind # "rows" /\ Quote(p, overnight).kind # "rows"
        BY <1>3 DEF Mark, Trade, Quote
    <2> QED BY <1>1, <2>1, <2>2, AnswersWithoutRows
<1>14. CASE ReadOrder(r)
    <2>1. PICK filled, a : Answer(r, a) /\ a = get_order_status(order, filled)
        BY <1>14 DEF ReadOrder
    <2>2. a.kind # "rows"
        BY <1>3, <2>1 DEF get_order_status
    <2> QED BY <1>1, <2>1, <2>2, AnswersWithoutRows
<1>15. CASE ReadFails(r)
    BY <1>1, <1>3, <1>15, AnswersWithoutRows DEF ReadFails
<1>16. CASE Return(r)
    <2>1. PICK y : y = Idle
        OBVIOUS
    <2>2. /\ IsRead(y) /\ y.stage = "idle" /\ y.token = 0 /\ y.found = <<>>
          /\ y.answer.kind # "rows"
        BY <2>1 DEF Idle, IsRead, None
    <2>3. Moves(r, y)
        BY <1>1, <1>16, <2>1, <2>2 DEF Moves, Shape, Return
    <2>4. RowReader(y)
        BY <2>2 DEF RowReader
    <2> QED BY <1>1, <2>3, <2>4, RowsKeep
<1> QED BY <1>4, <1>5, <1>6, <1>8, <1>9, <1>10, <1>11, <1>12, <1>13, <1>14, <1>15, <1>16


(* A row that arrives comes after all there are. *)
LEMMA RowArrivesKeeps ==
    ASSUME RowsInv, RowArrives
    PROVE  RowsInv'
<1>1. read' = read /\ honest' = honest
    BY DEF RowArrives
<1>2. PICK wanted \in BOOLEAN : rows' = Append(rows, wanted)
    BY DEF RowArrives
<1>3. rows \in Seq(BOOLEAN) /\ rows' \in Seq(BOOLEAN) /\ Len(rows) \in Nat
    BY <1>2 DEF RowsInv
<1>4. PICK n : n = Len(rows) + 1 /\ n \in Nat
    BY <1>3
<1>5. /\ Len(rows') = n
      /\ \A i \in 1..Len(rows) : rows'[i] = rows[i]
    BY <1>2, <1>3, <1>4
<1>6. /\ \A i \in 1..n : i \in 1..Len(rows) \/ i = n
      /\ \A i \in 1..Len(rows) : i \in 1..n /\ i < n
    BY <1>3, <1>4
<1>7. Matching' = Matching \/ Matching' = Matching \cup {n}
    BY <1>5, <1>6 DEF Matching
<1>8. /\ Matching \in SUBSET Nat /\ IsFiniteSet(Matching)
      /\ \A x \in Matching : x \in 1..Len(rows) /\ x < n
    <2>1. Matching \in SUBSET (1..Len(rows)) /\ Matching \in SUBSET Nat /\ IsFiniteSet(Matching)
        BY <1>3, MatchingSet
    <2> QED BY <1>6, <2>1
<1>9. ~(Cardinality(First(Matching)) < PAGE_SIZE) => First(Matching') = First(Matching)
    BY <1>4, <1>7, <1>8, FullPageStays
<1>10. ASSUME NEW f, FoundOk(f) PROVE FoundOk(f)'
    BY <1>7, <1>10 DEF FoundOk, Increasing
<1>11. ASSUME NEW f, FoundOk(f)
       PROVE  /\ f \in Seq(Nat)
              /\ \A k \in DOMAIN f : f[k] \in Nat /\ f[k] <= Len(rows) /\ ~(n <= f[k])
    BY <1>3, <1>4, <1>8, <1>11 DEF FoundOk
<1>12. \A s \in 0..Len(rows) : s \in 0..n /\ ~(n <= s)
    BY <1>3, <1>4
<1>13. ASSUME NEW x, PagingOk(x) PROVE PagingOk(x)'
    <2>1. FoundOk(x.found) /\ FoundOk(x.found)'
        BY <1>10, <1>13 DEF PagingOk
    <2>2. x.token \in Nat /\ ~(n <= x.token)
        <3>1. PICK f : f = x.found /\ Len(f) > 0 /\ x.token = f[Len(f)] /\ FoundOk(f)
            BY <1>13 DEF PagingOk
        <3>2. f \in Seq(Nat)
            BY <1>11, <3>1
        <3>3. Len(f) \in DOMAIN f
            BY <3>1, <3>2
        <3> QED BY <1>11, <3>1, <3>3
    <2>3. \A i \in Matching' : i <= x.token => i \in Matching
        BY <1>7, <2>2
    <2>4. x.start \in 0..Len(rows')
        BY <1>5, <1>12, <1>13 DEF PagingOk
    <2> QED BY <1>1, <1>9, <1>13, <2>1, <2>3, <2>4 DEF PagingOk, ascending
<1>14. ASSUME NEW f, NEW start, RowsOk(f, start) PROVE RowsOk(f, start)'
    <2>1. FoundOk(f) /\ FoundOk(f)' /\ start \in 0..Len(rows)
        BY <1>10, <1>14 DEF RowsOk
    <2>2. start \in 0..Len(rows') /\ ~(n <= start)
        BY <1>5, <1>12, <2>1
    <2>3. \A i \in Matching' : i <= start \/ (\E k \in DOMAIN f : i <= f[k]) => i \in Matching
        BY <1>7, <1>11, <2>1, <2>2
    <2> QED BY <1>14, <2>1, <2>2, <2>3 DEF RowsOk
<1>15. ASSUME NEW q \in Readers PROVE RowReader(read[q])'
    <2>1. PICK x : x = read[q] /\ RowReader(x)
        BY DEF RowsInv
    <2>2. RowReader(x)'
        BY <1>13, <1>14, <2>1 DEF RowReader
    <2> QED BY <1>1, <2>1, <2>2 DEF RowReader, PagingOk, RowsOk
<1> QED BY <1>1, <1>3, <1>15 DEF RowsInv, Shape

LEMMA RowsInit ==
    ASSUME ReadInit(Ops) PROVE RowsInv
<1>1. PICK y : y = Idle
    OBVIOUS
<1>2. /\ IsRead(y) /\ y.stage = "idle" /\ y.token = 0 /\ y.found = <<>>
      /\ y.answer.kind # "rows"
    BY <1>1 DEF Idle, IsRead, None
<1>3. RowReader(y)
    BY <1>2 DEF RowReader
<1>4. Shape /\ \A r \in Readers : read[r] = y
    BY <1>1, <1>2 DEF ReadInit, Shape
<1>5. rows \in Seq(BOOLEAN) /\ honest \in BOOLEAN
    <2>1. honest \in BOOLEAN
        BY DEF ReadInit
    <2>2. CASE op = "activities"
        <3>1. PICK n \in 0..MaxRows : rows \in [1..n -> BOOLEAN]
            BY <2>2 DEF ReadInit
        <3>2. n \in Nat
            BY ReadAssumption
        <3> QED BY <2>1, <3>1, <3>2
    <2>3. CASE op # "activities"
        <3>1. rows = <<>>
            BY <2>3 DEF ReadInit
        <3> QED BY <2>1, <3>1
    <2> QED BY <2>2, <2>3
<1> QED BY <1>3, <1>4, <1>5 DEF RowsInv

LEMMA RowsNext ==
    ASSUME RowsInv, [ReadNext]_readVars PROVE RowsInv'
<1>1. CASE UNCHANGED <<rows, honest, read>>
    <2>1. ASSUME NEW q \in Readers PROVE RowReader(read[q])'
        <3>1. PICK x : x = read[q] /\ RowReader(x)
            BY DEF RowsInv
        <3>2. RowReader(x)'
            BY <1>1, <3>1 DEF RowReader, PagingOk, RowsOk, FoundOk, Matching
        <3> QED BY <1>1, <3>1, <3>2 DEF RowReader, PagingOk, RowsOk
    <2> QED BY <1>1, <2>1 DEF RowsInv, Shape
<1>2. CASE UNCHANGED readVars \/ AssetChanges \/ AccountMoves \/ OrderMoves \/ Tick
    BY <1>1, <1>2 DEF readVars, AssetChanges, AccountMoves, OrderMoves, Tick, world
<1>3. CASE ReadNext
    BY <1>2, <1>3, FetchKeeps, OtherReads, RowArrivesKeeps DEF ReadNext
<1> QED BY <1>2, <1>3

(* The invariant gives the property. *)
LEMMA RowsOnce ==
    ASSUME RowsInv PROVE EveryRowOnce
<1> SUFFICES ASSUME NEW r \in Readers, read[r].answer.kind = "rows"
             PROVE  LET found == read[r].answer.rows IN
                    /\ \A i, j \in DOMAIN found : i < j => found[i] < found[j]
                    /\ ToSet(found) \subseteq Matching
                    /\ \A i \in Matching :
                          i <= Max({read[r].start} \cup ToSet(found)) => i \in ToSet(found)
    BY DEF EveryRowOnce
<1>1. PICK f, start : f = read[r].answer.rows /\ start = read[r].start /\ RowsOk(f, start)
    BY DEF RowsInv, RowReader
<1>2. /\ f \in Seq(Nat) /\ Increasing(f) /\ \A k \in DOMAIN f : f[k] \in Matching
      /\ start \in 0..Len(rows)
    BY <1>1 DEF RowsOk, FoundOk
<1>3. Matching \in SUBSET (1..Len(rows)) /\ Len(rows) \in Nat
    BY MatchingSet DEF RowsInv
<1> DEFINE T == {start} \cup ToSet(f)
<1>4. T \in SUBSET (0..Len(rows)) /\ T # {}
    BY <1>2, <1>3 DEF ToSet
<1>5. Max(T) \in T
    <2> HIDE DEF T
    <2>1. IsFiniteSet(0..Len(rows))
        BY <1>3, FS_Interval
    <2>2. IsFiniteSet(T)
        BY <1>4, <2>1, FS_Subset
    <2>3. \A x \in T : x \in Nat
        BY <1>3, <1>4
    <2>4. PICK m \in T : \A x \in T : x <= m
        BY <1>4, <2>2, <2>3, HasLargest
    <2>5. \A x \in T : m >= x
        BY <2>3, <2>4
    <2> QED BY <2>5 DEF Max
<1>6. ASSUME NEW i \in Matching, i <= Max(T) PROVE i \in ToSet(f)
    <2>1. Max(T) = start \/ \E k \in DOMAIN f : Max(T) = f[k]
        BY <1>5 DEF ToSet
    <2>2. i <= start \/ \E k \in DOMAIN f : i <= f[k]
        <3> HIDE DEF T
        <3> QED BY <1>6, <2>1
    <2> QED BY <1>1, <2>2 DEF RowsOk, ToSet
<1> QED BY <1>1, <1>2, <1>6 DEF Increasing, ToSet

(* EveryRowOnce for any page size and page limit: what get_account_activities *)
(* puts together from its pages is every row there was, once and in order,    *)
(* whether or not the server follows tokens and while rows are added.         *)
THEOREM RowsAreReadOnce == ReadSpec => []EveryRowOnce
BY RowsInit, RowsNext, RowsOnce, PTL DEF ReadSpec

=============================================================================

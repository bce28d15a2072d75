------------------------ MODULE OrderPlacementProofs ------------------------
(***************************************************************************)
(* Proofs about OrderPlacement for any need, prices and number of keys and  *)
(* attempts: an attempt that reports written = false left no order and      *)
(* never will, a placement names the order the broker holds, and all orders *)
(* together fill no more than the caller needs. Then about ConversionPoll,  *)
(* for any size, deadlines, intervals and hints: what the poll answers      *)
(* stays true whatever the broker still does and however the caller crashed *)
(* and resumed before, a fill once reported is not lost, and the wait is    *)
(* bounded by the deadlines alone.                                          *)
(***************************************************************************)
EXTENDS OrderPlacement, ConversionPoll, Sums

OrderStatuses == Ended \cup {"none", "working", "paused"}
Orders == [by : Nat, shares : Int, filled : Int, status : OrderStatuses,
           ext : BOOLEAN, limit : Limits]
Requests == [by : Nat, shares : Int, ext : BOOLEAN, limit : Limits]
Placements == [via : {"none", "fresh", "adopted", "recovered"}, shares : Int,
               ext : BOOLEAN, limit : Limits]

\* The shape of the state, amounts unbounded.
Shape ==
    /\ order \in [Keys -> Orders]
    /\ stray \in [Keys -> SUBSET Requests]
    /\ key \in Keys /\ dirty \in BOOLEAN
    /\ remaining \in Int /\ attempt \in Nat
    /\ pc \in {"idle", "prepare", "post", "duplicate", "placed_at", "held"}
    /\ request \in Requests
    /\ placement \in Placements
    /\ unwritten \subseteq Nat

\* Orders, strays and failures belong to attempts there have been.
Attempts ==
    /\ \A k \in Keys : order[k].by <= attempt
    /\ \A k \in Keys : \A r \in stray[k] : r.by \in 1..attempt
    /\ unwritten \subseteq 1..attempt

\* An attempt that has not failed is in no one's books yet, and until its
\* POST nothing of it is at the broker.
Current ==
    /\ pc \in {"prepare", "post", "duplicate", "placed_at"} => attempt > 0
    /\ pc \in {"prepare", "post"} =>
          /\ request.by = attempt
          /\ attempt \notin unwritten
          /\ \A k \in Keys : order[k].by # attempt
          /\ \A k \in Keys : \A r \in stray[k] : r.by # attempt

\* What a placement says of the order under the key.
Held ==
    /\ pc \in {"duplicate", "placed_at", "held"} => ~Free(key)
    /\ pc \in {"placed_at", "held"} =>
        /\ placement.shares = order[key].shares
        /\ placement.via # "adopted" => placement.ext = order[key].ext
        /\ placement.via = "fresh" \/ (placement.via = "recovered" /\ order[key].ext)
              => placement.limit = order[key].limit

Inv == Shape /\ Attempts /\ Current /\ UnwrittenMeansNoOrder /\ Held

-----------------------------------------------------------------------------

(* The initial state satisfies the invariant. *)
LEMMA InitInv == Init => Inv
<1> SUFFICES ASSUME Init PROVE Inv
    OBVIOUS
<1>1. NoOrder \in Orders
    BY DEF NoOrder, Orders, OrderStatuses, Limits
<1>2. NoRequest \in Requests /\ NoPlacement \in Placements
    BY DEF NoRequest, Requests, NoPlacement, Placements, Limits
<1>3. Shape
    <2>1. 1 \in Keys /\ Need \in Int
        BY PlacementAssumption DEF Keys
    <2>2. dirty \in BOOLEAN
        BY DEF Init
    <2>3. order \in [Keys -> Orders] /\ stray \in [Keys -> SUBSET Requests]
        BY <1>1 DEF Init
    <2> QED BY <1>2, <2>1, <2>2, <2>3 DEF Init, Shape
<1>4. Attempts /\ UnwrittenMeansNoOrder
    BY DEF Init, Attempts, UnwrittenMeansNoOrder, NoOrder
<1>5. Current /\ Held
    BY DEF Init, Current, Held
<1> QED BY <1>3, <1>4, <1>5 DEF Inv

(* An order created has its request's attempt, size and terms. *)
LEMMA CreatedOrder ==
    ASSUME NEW r \in Requests
    PROVE  /\ Created(r) \in Orders
           /\ Created(r).by = r.by /\ Created(r).status # "none"
           /\ Created(r).shares = r.shares
           /\ Created(r).ext = r.ext /\ Created(r).limit = r.limit
BY DEF Created, Orders, Requests, OrderStatuses

(* An attempt that fails keeps the invariant when nothing at the broker has *)
(* changed, or it reports that it may have been written.                    *)
LEMMA FailStep ==
    ASSUME Inv, NEW written \in BOOLEAN, Fail(written),
           pc \in {"prepare", "post", "duplicate", "placed_at"},
           ~written \/ pc \notin {"prepare", "post"} => UNCHANGED brokerVars,
           ~written => pc \in {"prepare", "post"},
           order' \in [Keys -> Orders], stray' \in [Keys -> SUBSET Requests],
           \A k \in Keys : order'[k].by \in {order[k].by, attempt},
           \A k \in Keys : \A r \in stray'[k] : r \in stray[k] \/ r.by = attempt
    PROVE  Inv'
<1>1. Shape'
    <2>1. NoRequest \in Requests /\ NoPlacement \in Placements
        BY DEF NoRequest, Requests, NoPlacement, Placements, Limits
    <2>2. dirty' \in BOOLEAN /\ unwritten' \subseteq Nat
        BY DEF Inv, Shape, Fail
    <2> QED BY <2>1, <2>2 DEF Inv, Shape, Fail, Keys
<1>2. Attempts'
    <2>1. attempt \in Nat /\ attempt > 0 /\ attempt' = attempt
        BY DEF Inv, Shape, Current, Fail
    <2>2. \A k \in Keys : order'[k].by <= attempt
        BY <2>1 DEF Inv, Attempts
    <2>3. \A k \in Keys : \A r \in stray'[k] : r.by \in 1..attempt
        BY <2>1 DEF Inv, Attempts
    <2>4. unwritten' \subseteq 1..attempt
        BY <2>1 DEF Inv, Attempts, Fail
    <2> QED BY <2>1, <2>2, <2>3, <2>4 DEF Attempts, Keys
<1>3. Current' /\ Held'
    BY DEF Current, Held, Fail
<1>4. UnwrittenMeansNoOrder'
    <2>1. CASE written
        <3>1. unwritten' = unwritten
            BY <2>1 DEF Fail
        <3>2. CASE pc \in {"prepare", "post"}
            <4>1. attempt \notin unwritten
                BY <3>2 DEF Inv, Current
            <4> QED BY <3>1, <4>1 DEF Inv, UnwrittenMeansNoOrder, Keys
        <3>3. CASE pc \in {"duplicate", "placed_at"}
            BY <3>1, <3>3 DEF Inv, UnwrittenMeansNoOrder, brokerVars
        <3> QED BY <3>2, <3>3
    <2>2. CASE ~written
        BY <2>2 DEF Inv, Current, UnwrittenMeansNoOrder, Fail, brokerVars, Keys
    <2> QED BY <2>1, <2>2
<1> QED BY <1>1, <1>2, <1>3, <1>4 DEF Inv

-----------------------------------------------------------------------------

(* A size is a number, whatever the asset. *)
LEMMA SizeType ==
    ASSUME NEW shares \in Int, NEW asset
    PROVE  prepare_order_shares_for_placement(shares, asset) \in Int
<1>1. shares % Whole \in Int
    BY PlacementAssumption
<1> QED BY <1>1 DEF prepare_order_shares_for_placement, truncate

(* Every step keeps the invariant. *)
LEMMA NextInv == Inv /\ [Next]_vars => Inv'
<1> SUFFICES ASSUME Inv, [Next]_vars PROVE Inv'
    OBVIOUS
<1>1. ASSUME NEW k \in Keys, Land(k) PROVE Inv'
    <2>1. PICK r \in stray[k] :
              /\ stray' = [stray EXCEPT ![k] = @ \ {r}]
              /\ order' = IF Free(k) THEN [order EXCEPT ![k] = Created(r)] ELSE order
        BY <1>1 DEF Land
    <2>2. r \in Requests
        BY DEF Inv, Shape
    <2>3. Shape'
        BY <1>1, <2>1, <2>2, CreatedOrder DEF Inv, Shape, Land, callerVars
    <2>4. \A j \in Keys : stray'[j] \subseteq stray[j]
        BY <2>1 DEF Inv, Shape
    <2>5. \A j \in Keys : order'[j] = order[j] \/ (j = k /\ Free(k) /\ order'[j] = Created(r))
        BY <2>1 DEF Inv, Shape
    <2>6. \A j \in Keys : order'[j].by = order[j].by \/ (j = k /\ order'[j].by = r.by)
        BY <2>2, <2>5, CreatedOrder
    <2>7. Attempts'
        BY <1>1, <2>4, <2>6 DEF Inv, Attempts, Shape, Land, callerVars, Requests
    <2>8. Current'
        BY <1>1, <2>4, <2>6 DEF Inv, Current, Land, callerVars
    <2>9. UnwrittenMeansNoOrder'
        BY <1>1, <2>4, <2>6 DEF Inv, UnwrittenMeansNoOrder, Land
    <2>10. Held'
        BY <1>1, <2>2, <2>5, CreatedOrder DEF Inv, Held, Shape, Free, Land, callerVars
    <2> QED BY <2>3, <2>7, <2>8, <2>9, <2>10 DEF Inv
<1>2. ASSUME NEW k \in Keys, Move(k) PROVE Inv'
    <2>1. /\ order' \in [Keys -> Orders]
          /\ \A j \in Keys : /\ order'[j].by = order[j].by
                             /\ order'[j].shares = order[j].shares
                             /\ order'[j].ext = order[j].ext
                             /\ order'[j].limit = order[j].limit
                             /\ order'[j].status = "none" <=> order[j].status = "none"
        BY <1>2 DEF Inv, Shape, Move, Orders, OrderStatuses, Ended
    <2>2. Shape'
        BY <1>2, <2>1 DEF Inv, Shape, Move, callerVars
    <2>3. Attempts' /\ Current' /\ UnwrittenMeansNoOrder'
        BY <1>2, <2>1 DEF Inv, Attempts, Current, UnwrittenMeansNoOrder, Move, callerVars
    <2>4. Held'
        BY <1>2, <2>1 DEF Inv, Shape, Held, Free, Move, callerVars
    <2> QED BY <2>2, <2>3, <2>4 DEF Inv
<1>3. CASE Place
    <2>1. request' \in Requests /\ request'.by = attempt + 1
        <3>1. PICK terms \in Terms, shares \in 1..remaining :
                  request' = [by |-> attempt + 1, shares |-> shares,
                              ext |-> terms.ext, limit |-> terms.limit]
            BY <1>3 DEF Place
        <3>2. terms.ext \in BOOLEAN /\ terms.limit \in Limits
            <4>1. CASE terms \in [ext : BOOLEAN, limit : Prices]
                BY <4>1 DEF Limits
            <4>2. CASE terms = [ext |-> FALSE, limit |-> NoPrice]
                BY <4>2 DEF Limits
            <4> QED BY <4>1, <4>2 DEF Terms
        <3>3. attempt + 1 \in Nat /\ shares \in Int
            BY DEF Inv, Shape
        <3> QED BY <3>1, <3>2, <3>3 DEF Requests
    <2>2. Shape'
        BY <1>3, <2>1 DEF Place, Inv, Shape, brokerVars
    <2>3. Attempts'
        BY <1>3 DEF Place, Inv, Shape, Attempts, brokerVars, Orders, Requests
    <2>4. Current'
        BY <1>3, <2>1 DEF Place, Inv, Shape, Attempts, Current, brokerVars, Orders, Requests
    <2>5. UnwrittenMeansNoOrder' /\ Held'
        BY <1>3 DEF Place, Inv, UnwrittenMeansNoOrder, Held, brokerVars
    <2> QED BY <2>2, <2>3, <2>4, <2>5 DEF Inv
<1>4. CASE Prepare
    <2>1. CASE Fail(FALSE)
        <3>1. UNCHANGED brokerVars /\ pc = "prepare"
            BY <1>4 DEF Prepare
        <3> QED BY <2>1, <3>1, FailStep DEF Inv, Shape, brokerVars
    <2>2. CASE ~Fail(FALSE)
        <3>1. PICK asset \in {"unread", "refused", "whole", "fractional"} :
                request' = [request EXCEPT !.shares =
                    prepare_order_shares_for_placement(request.shares, asset)]
            BY <1>4, <2>2 DEF Prepare
        <3>2. prepare_order_shares_for_placement(request.shares, asset) \in Int
            BY SizeType DEF Inv, Shape, Requests
        <3>3. request' \in Requests /\ request'.by = request.by
            BY <3>1, <3>2 DEF Inv, Shape, Requests
        <3>4. /\ pc = "prepare" /\ pc' = "post"
              /\ UNCHANGED <<brokerVars, callerVars, placement, unwritten>>
            BY <1>4, <2>2 DEF Prepare
        <3> QED BY <3>3, <3>4 DEF Inv, Shape, Attempts, Current, Held,
                    UnwrittenMeansNoOrder, brokerVars, callerVars
    <2> QED BY <2>1, <2>2
<1>5. CASE PostAccepted
    <2>1. /\ Created(request) \in Orders
          /\ Created(request).by = request.by /\ Created(request).status # "none"
          /\ Created(request).shares = request.shares
          /\ Created(request).ext = request.ext /\ Created(request).limit = request.limit
        BY CreatedOrder DEF Inv, Shape
    <2>2. /\ pc = "post" /\ pc' = "placed_at"
          /\ order' = [order EXCEPT ![key] = Created(request)]
          /\ UNCHANGED <<stray, callerVars, request, unwritten>>
          /\ placement' = Fresh
        BY <1>5 DEF PostAccepted
    <2>3. /\ Fresh \in Placements /\ Fresh.shares = request.shares
          /\ Fresh.ext = request.ext /\ Fresh.limit = request.limit
        BY DEF Inv, Shape, Fresh, Requests, Placements
    <2>4. Shape'
        BY <2>1, <2>2, <2>3 DEF Inv, Shape, callerVars
    <2>5. Attempts'
        BY <2>1, <2>2 DEF Inv, Shape, Attempts, Current, callerVars, Orders
    <2>6. Current' /\ UnwrittenMeansNoOrder'
        BY <2>1, <2>2 DEF Inv, Shape, Current, UnwrittenMeansNoOrder, callerVars
    <2>7. Held'
        BY <2>1, <2>2, <2>3 DEF Inv, Shape, Held, Free, callerVars
    <2> QED BY <2>4, <2>5, <2>6, <2>7 DEF Inv
<1>6. CASE PostDuplicate
    BY <1>6 DEF PostDuplicate, Inv, Shape, Attempts, Current, Held, Free,
                UnwrittenMeansNoOrder, brokerVars, callerVars
<1>7. ASSUME NEW error \in PostErrors, PostFails(error) PROVE Inv'
    <2>1. Created(request) \in Orders /\ Created(request).by = attempt
        BY <1>7, CreatedOrder DEF Inv, Shape, Current, PostFails
    <2>2. /\ order' \in [Keys -> Orders] /\ stray' \in [Keys -> SUBSET Requests]
          /\ \A k \in Keys : order'[k].by \in {order[k].by, attempt}
          /\ \A k \in Keys : \A r \in stray'[k] : r \in stray[k] \/ r.by = attempt
        BY <1>7, <2>1 DEF Inv, Shape, Current, PostFails, brokerVars
    <2>3. ~may_have_reached_alpaca(error) => UNCHANGED brokerVars
        BY <1>7 DEF may_have_reached_alpaca, PostErrors, PostFails
    <2>4. may_have_reached_alpaca(error) \in BOOLEAN
        BY DEF may_have_reached_alpaca
    <2> QED BY <1>7, <2>2, <2>3, <2>4, FailStep DEF PostFails
<1>8. CASE DuplicateRead
    <2>1. PICK echo : placement' = adopt(order[key], echo)
        BY <1>8 DEF DuplicateRead
    <2>2. /\ placement' \in Placements /\ placement'.via = "adopted"
          /\ placement'.shares = order[key].shares
        BY <2>1 DEF adopt, Inv, Shape, Orders, Requests, Placements
    <2> QED BY <1>8, <2>2 DEF DuplicateRead, Inv, Shape, Attempts, Current, Held, Free,
                UnwrittenMeansNoOrder, brokerVars, callerVars
<1>9. CASE ReadBackFails
    BY <1>9, FailStep DEF ReadBackFails, Inv, Shape, brokerVars
<1>10. CASE Placed
    BY <1>10 DEF Placed, Inv, Shape, Attempts, Current, Held, Free,
                 UnwrittenMeansNoOrder, brokerVars, callerVars
<1>11. CASE Recover
    <2>1. PICK echo \in BOOLEAN :
              (order[key].ext => echo) /\ placement' = recovered(order[key], echo)
        BY <1>11 DEF Recover
    <2>2. /\ placement' \in Placements /\ placement'.via = "recovered"
          /\ placement'.shares = order[key].shares
          /\ placement'.ext = order[key].ext
          /\ order[key].ext => placement'.limit = order[key].limit
        BY <2>1 DEF recovered, Inv, Shape, Orders, Placements, Limits
    <2> QED BY <1>11, <2>2 DEF Recover, Inv, Shape, Attempts, Current, Held, Free,
                UnwrittenMeansNoOrder, brokerVars, callerVars
<1>12. CASE StatusEnded
    <2>1. NoRequest \in Requests /\ NoPlacement \in Placements
        BY DEF NoRequest, Requests, NoPlacement, Placements, Limits
    <2>2. key' \in Keys /\ remaining' \in Int /\ dirty' \in BOOLEAN
        <3>1. key' \in Keys
            BY <1>12, PlacementAssumption DEF StatusEnded, Inv, Shape, Keys
        <3>2. remaining' \in Int
            BY <1>12 DEF StatusEnded, Inv, Shape, Orders
        <3>3. dirty' \in BOOLEAN
            BY <1>12 DEF StatusEnded
        <3> QED BY <3>1, <3>2, <3>3
    <2> QED BY <1>12, <2>1, <2>2 DEF StatusEnded, Inv, Shape, Attempts, Current, Held,
                UnwrittenMeansNoOrder, brokerVars
<1>13. CASE NewKey
    <2>1. key' \in Keys
        BY <1>13, PlacementAssumption DEF NewKey, Inv, Shape, Keys
    <2> QED BY <1>13, <2>1 DEF NewKey, Inv, Shape, Attempts, Current, Held,
                UnwrittenMeansNoOrder, brokerVars
<1>14. CASE UNCHANGED vars
    BY <1>14 DEF vars, brokerVars, callerVars, Inv, Shape, Attempts, Current, Held,
                 Free, UnwrittenMeansNoOrder
<1> QED
    BY <1>1, <1>2, <1>3, <1>4, <1>5, <1>6, <1>7, <1>8, <1>9, <1>10, <1>11, <1>12,
       <1>13, <1>14 DEF Next

(* The invariant holds of every behaviour. *)
LEMMA SpecInv == Spec => []Inv
BY InitInv, NextInv, PTL DEF Spec

(* What PlacementError of src/broker/mod.rs promises: an attempt that says *)
(* written = false left no order at the broker, and none comes later.      *)
THEOREM UnwrittenHolds == Spec => []UnwrittenMeansNoOrder
<1>1. Inv => UnwrittenMeansNoOrder BY DEF Inv
<1> QED BY <1>1, SpecInv, PTL

(* A placement that place_market_order, place_limit_order or               *)
(* recover_order_by_client_id returned names an order the broker holds, of *)
(* the size reported.                                                      *)
THEOREM HeldHolds == Spec => []PlacementIsHeld
<1>1. Inv => PlacementIsHeld BY DEF Inv, Held, PlacementIsHeld
<1> QED BY <1>1, SpecInv, PTL

-----------------------------------------------------------------------------
(* What is hedged *)

\* The broker's books: an order never fills beyond its size, and one that may
\* still fill has room left.
Sized ==
    \A k \in Keys :
        /\ order[k].shares \in Amount /\ order[k].filled \in 0..order[k].shares
        /\ Free(k) => order[k] = NoOrder
        /\ order[k].status \in {"working", "paused"} => order[k].filled < order[k].shares
        /\ \A r \in stray[k] : r.shares \in 1..Need

\* Whatever may be or become an order under the current key fits in what is
\* left, and a key with no trace of a written attempt is clean.
Fits ==
    /\ remaining \in Amount /\ request.shares \in 0..remaining
    /\ pc \in {"prepare", "post"} => request.shares > 0
    /\ order[key].shares <= remaining
    /\ \A r \in stray[key] : r.shares <= remaining
    /\ ~dirty /\ pc \in {"idle", "prepare", "post"} => Free(key) /\ stray[key] = {}

\* Nothing fills any more under a key the caller has left, and nothing is
\* there yet under one it has not reached.
Left ==
    \A k \in Keys :
        /\ k > key => Free(k) /\ stray[k] = {}
        /\ k < key => order[k].status \in Ended \/ (Free(k) /\ stray[k] = {})

KeyFills == [k \in Keys |-> order[k].filled]

\* What the caller believes is left is what no earlier key has filled.
Counted == SumFunction(KeyFills) = Need - remaining + order[key].filled

HedgeInv == Sized /\ Fits /\ Left /\ Counted

(* The initial state satisfies the hedge's invariant. *)
LEMMA InitHedge == Init => HedgeInv
<1> SUFFICES ASSUME Init PROVE HedgeInv
    OBVIOUS
<1>1. /\ \A k \in Keys : order[k] = NoOrder /\ stray[k] = {} /\ order[k].filled = 0
      /\ key \in Keys /\ remaining = Need /\ request.shares = 0 /\ pc = "idle"
    BY PlacementAssumption DEF Init, Keys, NoOrder, NoRequest
<1>2. Sized
    <2>1. NoOrder.shares = 0 /\ NoOrder.filled = 0 /\ NoOrder.status = "none"
        BY DEF NoOrder
    <2>2. 0 \in Amount /\ 0 \in 0..0
        BY PlacementAssumption DEF Amount
    <2> QED BY <1>1, <2>1, <2>2 DEF Sized, Free
<1>3. Fits
    BY <1>1, PlacementAssumption DEF Fits, NoOrder, Free, Amount
<1>4. Left
    BY <1>1 DEF Left, Free, NoOrder, Init, Keys
<1>5. Counted
    <2>1. KeyFills \in [Keys -> Nat] /\ \A k \in Keys : KeyFills[k] = 0
        BY <1>1 DEF KeyFills
    <2>2. IsFiniteSet(Keys)
        BY FS_Interval, PlacementAssumption DEF Keys
    <2>3. SumFunction(KeyFills) = 0
        BY <2>1, <2>2, TotalType
    <2> QED BY <1>1, <2>3, PlacementAssumption DEF Counted
<1> QED BY <1>2, <1>3, <1>4, <1>5 DEF HedgeInv

(* A step that fills nothing keeps the total. *)
LEMMA FillsKept ==
    ASSUME \A k \in Keys : order'[k].filled = order[k].filled
    PROVE  SumFunction(KeyFills)' = SumFunction(KeyFills)
<1>1. KeyFills' = KeyFills
    BY DEF KeyFills, Keys
<1> QED BY <1>1

(* What creating an order where none is does to the books. *)
LEMMA OrderCreated ==
    ASSUME Inv, HedgeInv, NEW k \in Keys, NEW r \in Requests, r.shares \in 1..Need,
           order' = IF Free(k) THEN [order EXCEPT ![k] = Created(r)] ELSE order
    PROVE  /\ \A j \in Keys :
                 /\ order'[j].shares \in Amount /\ order'[j].filled \in 0..order'[j].shares
                 /\ order'[j].status = "none" => order'[j] = NoOrder
                 /\ order'[j].status \in {"working", "paused"}
                       => order'[j].filled < order'[j].shares
                 /\ order'[j].filled = order[j].filled
                 /\ order'[j] = order[j] \/ (j = k /\ Free(k))
           /\ order'[k].status # "none"
           /\ order'[k].shares \in {order[k].shares, r.shares}
<1>1. /\ Created(r).shares = r.shares /\ Created(r).filled = 0
      /\ Created(r).status = "working"
    BY DEF Created
<1>2. \A j \in Keys : order'[j] = IF j = k /\ Free(k) THEN Created(r) ELSE order[j]
    BY DEF Inv, Shape
<1>3. Free(k) => order[k].filled = 0
    BY DEF HedgeInv, Sized, NoOrder
<1>4. order'[k].status # "none" /\ order'[k].shares \in {order[k].shares, r.shares}
    BY <1>1, <1>2 DEF Free
<1>5. ASSUME NEW j \in Keys
      PROVE  /\ order'[j].shares \in Amount /\ order'[j].filled \in 0..order'[j].shares
             /\ order'[j].status = "none" => order'[j] = NoOrder
             /\ order'[j].status \in {"working", "paused"}
                   => order'[j].filled < order'[j].shares
             /\ order'[j].filled = order[j].filled
             /\ order'[j] = order[j] \/ (j = k /\ Free(k))
    <2>1. CASE j = k /\ Free(k)
        <3>1. order'[j] = Created(r)
            BY <1>2, <2>1
        <3>2. 0 < r.shares /\ r.shares \in Amount /\ 0 \in 0..r.shares
            BY PlacementAssumption DEF Amount
        <3> QED BY <1>1, <1>3, <2>1, <3>1, <3>2
    <2>2. CASE ~(j = k /\ Free(k))
        BY <1>2, <2>2 DEF HedgeInv, Sized, Free
    <2> QED BY <2>1, <2>2
<1> QED BY <1>4, <1>5

(* A size is between 0 and what was asked for. *)
LEMMA SizeBound ==
    ASSUME NEW shares \in Nat, NEW asset
    PROVE  prepare_order_shares_for_placement(shares, asset) \in 0..shares
<1>1. shares % Whole \in 0..shares
    <2>1. /\ Whole \in Nat \ {0}
          /\ shares = Whole * (shares \div Whole) + (shares % Whole)
          /\ shares % Whole \in 0..(Whole - 1)
        BY PlacementAssumption
    <2>2. shares \div Whole >= 0
        BY <2>1
    <2> QED BY <2>1, <2>2
<1> QED BY <1>1 DEF prepare_order_shares_for_placement, truncate

(* An attempt that fails keeps it, whatever it left under its key, when that *)
(* is reported as possibly written.                                          *)
LEMMA FailHedge ==
    ASSUME Inv, HedgeInv, NEW written \in BOOLEAN, Fail(written), Sized', Left',
           SumFunction(KeyFills)' = SumFunction(KeyFills),
           order'[key].filled = order[key].filled,
           order'[key].shares <= remaining,
           \A r \in stray'[key] : r.shares <= remaining,
           ~written => UNCHANGED brokerVars /\ pc \in {"prepare", "post"}
    PROVE  HedgeInv'
<1>1. key' = key /\ remaining' = remaining /\ request' = NoRequest /\ pc' = "idle"
      /\ dirty' = (dirty \/ written)
    BY DEF Fail
<1>2. Counted'
    BY <1>1 DEF HedgeInv, Counted
<1>3. Fits'
    <2>1. remaining' \in Amount /\ request'.shares \in 0..remaining'
        BY <1>1 DEF HedgeInv, Fits, Amount, NoRequest
    <2>2. /\ order'[key'].shares <= remaining'
          /\ \A r \in stray'[key'] : r.shares <= remaining'
        BY <1>1
    <2>3. ~dirty' => Free(key)' /\ stray'[key'] = {}
        BY <1>1 DEF HedgeInv, Fits, brokerVars, Free, Inv, Shape
    <2> QED BY <1>1, <2>1, <2>2, <2>3 DEF Fits
<1> QED BY <1>2, <1>3 DEF HedgeInv

(* Every step keeps the hedge's invariant. *)
LEMMA NextHedge == Inv /\ HedgeInv /\ [Next]_vars => HedgeInv'
<1> SUFFICES ASSUME Inv, HedgeInv, [Next]_vars PROVE HedgeInv'
    OBVIOUS
<1>1. ASSUME NEW k \in Keys, Land(k) PROVE HedgeInv'
    <2>1. PICK r \in stray[k] :
              /\ stray' = [stray EXCEPT ![k] = @ \ {r}]
              /\ order' = IF Free(k) THEN [order EXCEPT ![k] = Created(r)] ELSE order
        BY <1>1 DEF Land
    <2>2. r \in Requests /\ r.shares \in 1..Need
        BY DEF Inv, Shape, HedgeInv, Sized
    <2>3. /\ UNCHANGED <<key, dirty, remaining, pc, request>>
          /\ \A j \in Keys : stray'[j] \subseteq stray[j]
          /\ key \in Keys
        BY <1>1, <2>1 DEF Inv, Shape, Land, callerVars
    <2>4. Sized'
        BY <2>1, <2>2, <2>3, OrderCreated DEF Sized, HedgeInv, Free
    <2>5. \A j \in Keys : order'[j].filled = order[j].filled
        BY <2>1, <2>2, OrderCreated
    <2>6. Counted'
        BY <2>3, <2>5, FillsKept DEF Counted, HedgeInv
    <2>7. Left'
        <3>1. k <= key
            BY <2>3 DEF HedgeInv, Left, Inv, Shape, Keys
        <3>2. k < key => ~Free(k) \/ stray[k] = {}
            BY DEF HedgeInv, Left, Free, Ended
        <3> QED BY <2>1, <2>2, <2>3, <3>1, <3>2, OrderCreated DEF HedgeInv, Left, Free, Keys
    <2>8. Fits'
        <3>1. order'[key].shares <= remaining
            <4>1. order[key].shares <= remaining /\ \A q \in stray[key] : q.shares <= remaining
                BY DEF HedgeInv, Fits
            <4> QED BY <2>1, <2>2, <2>3, <4>1, OrderCreated
        <3>2. stray[key] = {} => key # k
            OBVIOUS
        <3>3. ~dirty /\ pc \in {"idle", "prepare", "post"}
                => order'[key] = order[key] /\ stray'[key] = {}
            BY <2>1, <2>2, <2>3, <3>2, OrderCreated DEF HedgeInv, Fits
        <3> QED BY <2>3, <3>1, <3>3 DEF HedgeInv, Fits, Free
    <2> QED BY <2>4, <2>6, <2>7, <2>8 DEF HedgeInv
<1>2. ASSUME NEW k \in Keys, Move(k) PROVE HedgeInv'
    <2>1. /\ UNCHANGED <<stray, key, dirty, remaining, pc, request>> /\ key \in Keys
          /\ \A j \in Keys \ {k} : order'[j] = order[j]
          /\ order[k].status \in {"working", "paused"}
          /\ order'[k].shares = order[k].shares
          /\ order'[k].filled \in {order[k].filled, order[k].filled + 1}
        BY <1>2 DEF Move, Inv, Shape, callerVars, Orders
    <2>2. k = key
        BY <2>1 DEF HedgeInv, Left, Free, Ended, Keys, Inv, Shape
    <2>3. /\ order'[k].filled \in 0..order'[k].shares /\ order'[k].status # "none"
          /\ order'[k].status \in {"working", "paused"}
                => order'[k].filled < order'[k].shares
        <3>1. /\ order[k].shares \in Nat /\ order[k].filled \in Nat
              /\ order[k].filled < order[k].shares
            BY <2>1 DEF HedgeInv, Sized, Amount
        <3> QED BY <1>2, <3>1 DEF Move, Inv, Shape, Orders, Ended
    <2>4. Sized'
        BY <2>1, <2>3 DEF HedgeInv, Sized, Free
    <2>5. Fits'
        BY <2>1, <2>2 DEF HedgeInv, Fits, Free
    <2>6. Left'
        BY <2>1, <2>2 DEF HedgeInv, Left, Free, Keys
    <2>7. Counted'
        <3>1. KeyFills \in [Keys -> Int] /\ KeyFills' \in [Keys -> Int]
            BY <2>1, <2>3 DEF KeyFills, HedgeInv, Sized, Amount, Keys
        <3>2. \A j \in Keys \ {k} : KeyFills'[j] = KeyFills[j]
            BY <2>1 DEF KeyFills, Keys
        <3>3. IsFiniteSet(Keys)
            BY FS_Interval, PlacementAssumption DEF Keys
        <3>4. SumFunction(KeyFills') = SumFunction(KeyFills) - KeyFills[k] + KeyFills'[k]
            BY <3>1, <3>2, <3>3, TotalUpdate
        <3>5. KeyFills[k] = order[k].filled /\ KeyFills'[k] = order'[k].filled
            BY DEF KeyFills, Keys
        <3>6. /\ order[k].filled \in Int /\ order'[k].filled \in Int
              /\ remaining \in Int /\ Need \in Int
            BY <2>1, <2>3, PlacementAssumption DEF HedgeInv, Sized, Amount, Fits
        <3>7. SumFunction(KeyFills) = Need - remaining + order[k].filled
            BY <2>2 DEF HedgeInv, Counted
        <3>8. SumFunction(KeyFills') = Need - remaining + order'[k].filled
            BY <3>4, <3>5, <3>6, <3>7
        <3> QED BY <2>1, <2>2, <3>8 DEF Counted
    <2> QED BY <2>4, <2>5, <2>6, <2>7 DEF HedgeInv
<1>3. CASE Place
    <2>1. /\ UNCHANGED <<order, stray, key, dirty, remaining>>
          /\ pc = "idle" /\ pc' = "prepare" /\ request'.shares \in 1..remaining
        BY <1>3 DEF Place, brokerVars
    <2>2. Sized' /\ Left' /\ Counted'
        BY <2>1, FillsKept DEF HedgeInv, Sized, Left, Counted, Free
    <2>3. Fits'
        BY <2>1 DEF HedgeInv, Fits, Free, Amount
    <2> QED BY <2>2, <2>3 DEF HedgeInv
<1>4. CASE Prepare
    <2>1. UNCHANGED <<order, stray>> /\ pc = "prepare" /\ key \in Keys
        BY <1>4 DEF Prepare, brokerVars, Inv, Shape
    <2>2. PICK asset \in {"unread", "refused", "whole", "fractional"} :
              LET shares == prepare_order_shares_for_placement(request.shares, asset) IN
              IF shares = 0 THEN Fail(FALSE)
              ELSE /\ request' = [request EXCEPT !.shares = shares]
                   /\ pc' = "post"
                   /\ UNCHANGED <<callerVars, placement, unwritten>>
        BY <1>4 DEF Prepare
    <2> DEFINE size == prepare_order_shares_for_placement(request.shares, asset)
    <2>3. request.shares \in Nat /\ size \in 0..request.shares
        BY SizeBound DEF HedgeInv, Fits
    <2>4. CASE size = 0
        <3>1. Fail(FALSE)
            BY <2>2, <2>4
        <3>2. UNCHANGED <<key, remaining>>
            BY <3>1 DEF Fail
        <3>3. Sized' /\ Left' /\ SumFunction(KeyFills)' = SumFunction(KeyFills)
            BY <2>1, <3>2, FillsKept DEF HedgeInv, Sized, Left, Free
        <3> QED BY <2>1, <3>1, <3>3, FailHedge DEF brokerVars, HedgeInv, Fits
    <2>5. CASE size # 0
        <3> HIDE DEF size
        <3>1. /\ request' = [request EXCEPT !.shares = size] /\ pc' = "post"
              /\ UNCHANGED <<key, dirty, remaining>>
            BY <2>2, <2>5 DEF size, callerVars
        <3>2. request'.shares = size
            BY <3>1 DEF Inv, Shape, Requests
        <3>3. size \in 0..remaining /\ size > 0
            BY <2>3, <2>5 DEF HedgeInv, Fits, Amount
        <3>4. Sized' /\ Left' /\ Counted'
            BY <2>1, <3>1, FillsKept DEF HedgeInv, Sized, Left, Counted, Free
        <3>5. Fits'
            BY <2>1, <3>1, <3>2, <3>3 DEF HedgeInv, Fits, Free
        <3> QED BY <3>4, <3>5 DEF HedgeInv
    <2> QED BY <2>4, <2>5
<1>5. ASSUME pc = "post", Free(key), order' = [order EXCEPT ![key] = Created(request)],
             UNCHANGED <<stray, key, remaining>>
      PROVE  /\ Sized' /\ Left' /\ SumFunction(KeyFills)' = SumFunction(KeyFills)
             /\ order'[key].filled = order[key].filled
             /\ order'[key].shares <= remaining
    <2>1. request \in Requests /\ key \in Keys
        BY DEF Inv, Shape
    <2>2. request.shares \in 1..Need /\ request.shares <= remaining
        BY <1>5, PlacementAssumption DEF HedgeInv, Fits, Amount
    <2>3. /\ \A j \in Keys :
                /\ order'[j].shares \in Amount /\ order'[j].filled \in 0..order'[j].shares
                /\ order'[j].status = "none" => order'[j] = NoOrder
                /\ order'[j].status \in {"working", "paused"}
                      => order'[j].filled < order'[j].shares
                /\ order'[j].filled = order[j].filled
                /\ order'[j] = order[j] \/ (j = key /\ Free(key))
          /\ order'[key].shares \in {order[key].shares, request.shares}
        BY <1>5, <2>1, <2>2, OrderCreated
    <2>4. Sized'
        BY <1>5, <2>3 DEF HedgeInv, Sized, Free
    <2>5. Left'
        BY <1>5, <2>3 DEF HedgeInv, Left, Free, Keys
    <2>6. order'[key].shares <= remaining
        BY <2>2, <2>3 DEF HedgeInv, Fits
    <2> QED BY <2>1, <2>3, <2>4, <2>5, <2>6, FillsKept
<1>6. CASE PostAccepted
    <2>1. /\ pc = "post" /\ Free(key) /\ order' = [order EXCEPT ![key] = Created(request)]
          /\ pc' = "placed_at" /\ UNCHANGED <<stray, key, remaining, dirty, request>>
        BY <1>6 DEF PostAccepted, callerVars
    <2>2. /\ Sized' /\ Left' /\ SumFunction(KeyFills)' = SumFunction(KeyFills)
          /\ order'[key].filled = order[key].filled
          /\ order'[key].shares <= remaining
        BY <1>5, <2>1
    <2>3. Counted'
        BY <2>1, <2>2 DEF HedgeInv, Counted
    <2>4. Fits'
        BY <2>1, <2>2 DEF HedgeInv, Fits
    <2> QED BY <2>2, <2>3, <2>4 DEF HedgeInv
<1>7. ASSUME NEW error \in PostErrors, PostFails(error) PROVE HedgeInv'
    <2>1. /\ pc = "post" /\ Fail(may_have_reached_alpaca(error))
          /\ UNCHANGED <<key, remaining>> /\ key \in Keys
          /\ may_have_reached_alpaca(error) \in BOOLEAN
        BY <1>7 DEF PostFails, Fail, Inv, Shape, may_have_reached_alpaca
    <2>2. CASE UNCHANGED brokerVars
        <3>1. Sized' /\ Left' /\ SumFunction(KeyFills)' = SumFunction(KeyFills)
            BY <2>1, <2>2, FillsKept DEF HedgeInv, Sized, Left, Free, brokerVars
        <3> QED BY <2>1, <2>2, <3>1, FailHedge DEF brokerVars, HedgeInv, Fits
    <2>3. CASE ~UNCHANGED brokerVars
        <3>1. may_have_reached_alpaca(error)
            BY <1>7, <2>3 DEF PostFails, PostErrors, may_have_reached_alpaca
        <3>2. CASE stray' = [stray EXCEPT ![key] = @ \cup {request}] /\ UNCHANGED order
            <4>1. request.shares \in 1..Need /\ request.shares <= remaining
                BY <2>1, PlacementAssumption DEF HedgeInv, Fits, Amount
            <4>2. \A j \in Keys : \A r \in stray'[j] :
                      r \in stray[j] \/ (j = key /\ r = request)
                BY <3>2 DEF Inv, Shape
            <4>3. Sized' /\ SumFunction(KeyFills)' = SumFunction(KeyFills)
                BY <3>2, <4>1, <4>2, FillsKept DEF HedgeInv, Sized, Free
            <4>4. Left'
                BY <2>1, <3>2, <4>2 DEF HedgeInv, Left, Free, Keys
            <4>5. \A r \in stray'[key] : r.shares <= remaining
                BY <2>1, <4>1, <4>2 DEF HedgeInv, Fits
            <4> QED BY <2>1, <3>1, <3>2, <4>3, <4>4, <4>5, FailHedge DEF HedgeInv, Fits
        <3>3. CASE /\ Free(key) /\ UNCHANGED stray
                   /\ order' = [order EXCEPT ![key] = Created(request)]
            BY <1>5, <2>1, <3>1, <3>3, FailHedge DEF HedgeInv, Fits
        <3> QED BY <1>7, <2>3, <3>2, <3>3 DEF PostFails
    <2> QED BY <2>2, <2>3
<1>8. CASE PostDuplicate
    <2>1. /\ UNCHANGED <<order, stray, key, remaining, dirty, request>>
          /\ pc' = "duplicate"
        BY <1>8 DEF PostDuplicate, brokerVars, callerVars
    <2> QED BY <2>1, FillsKept DEF HedgeInv, Sized, Fits, Left, Counted, Free
<1>9. CASE DuplicateRead \/ Placed \/ Recover
    <2>1. /\ UNCHANGED <<order, stray, key, remaining, dirty, request>>
          /\ pc' \in {"placed_at", "held"}
        BY <1>9 DEF DuplicateRead, Placed, Recover, brokerVars, callerVars
    <2> QED BY <2>1, FillsKept DEF HedgeInv, Sized, Fits, Left, Counted, Free
<1>10. CASE ReadBackFails
    <2>1. Fail(TRUE) /\ UNCHANGED <<order, stray, key, remaining>>
        BY <1>10 DEF ReadBackFails, brokerVars, Fail
    <2>2. Sized' /\ Left' /\ SumFunction(KeyFills)' = SumFunction(KeyFills)
        BY <2>1, FillsKept DEF HedgeInv, Sized, Left, Free
    <2> QED BY <2>1, <2>2, FailHedge DEF HedgeInv, Fits
<1>11. ASSUME UNCHANGED <<order, stray>>, key < MaxKeys, key' = key + 1,
              request' = NoRequest \/ request'.shares \in 0..remaining', pc' = "idle",
              remaining' = remaining - order[key].filled,
              order[key].status \in Ended \/ (Free(key) /\ stray[key] = {})
       PROVE  HedgeInv'
    <2>1. key \in Keys /\ key + 1 \in Keys /\ key + 1 > key
        BY <1>11, PlacementAssumption DEF Inv, Shape, Keys
    <2>2. Free(key + 1) /\ stray[key + 1] = {}
        BY <2>1 DEF HedgeInv, Left
    <2>3. order[key + 1].shares = 0 /\ order[key + 1].filled = 0
        BY <2>1, <2>2 DEF HedgeInv, Sized, NoOrder
    <2>4. /\ remaining \in 0..Need /\ order[key].filled \in Nat
          /\ order[key].filled <= remaining /\ Need \in Nat
        <3>1. /\ remaining \in 0..Need /\ order[key].shares <= remaining
              /\ order[key].shares \in 0..Need
              /\ order[key].filled \in 0..order[key].shares
            BY <2>1 DEF HedgeInv, Fits, Sized, Amount
        <3> QED BY <3>1, PlacementAssumption
    <2>5. Sized'
        BY <1>11 DEF HedgeInv, Sized, Free
    <2>6. Fits'
        <3>1. remaining' \in 0..Need /\ request'.shares \in 0..remaining'
            BY <1>11, <2>4 DEF NoRequest
        <3>2. order'[key'].shares <= remaining' /\ stray'[key'] = {} /\ Free(key)'
            BY <1>11, <2>2, <2>3, <3>1 DEF Free
        <3> QED BY <1>11, <3>1, <3>2 DEF Fits, Amount
    <2>7. Left'
        BY <1>11, <2>1 DEF HedgeInv, Left, Free, Keys
    <2>8. Counted'
        <3>1. SumFunction(KeyFills)' = SumFunction(KeyFills)
            BY <1>11, FillsKept
        <3>2. SumFunction(KeyFills) = Need - remaining + order[key].filled
            BY DEF HedgeInv, Counted
        <3>3. order'[key'].filled = 0
            BY <1>11, <2>3
        <3> QED BY <1>11, <2>4, <3>1, <3>2, <3>3 DEF Counted
    <2> QED BY <2>5, <2>6, <2>7, <2>8 DEF HedgeInv
<1>12. CASE StatusEnded
    <2>1. order[key].status \in Ended
        <3>1. order[key].status \in OrderStatuses /\ ~Free(key)
            BY <1>12 DEF StatusEnded, Inv, Shape, Held, Orders
        <3> QED BY <1>12, <3>1 DEF StatusEnded, classify_broker_status, KeyReleased,
                        Free, OrderStatuses, Ended
    <2> QED BY <1>11, <1>12, <2>1 DEF StatusEnded, brokerVars
<1>13. CASE NewKey
    <2>1. Free(key) /\ stray[key] = {}
        BY <1>13 DEF NewKey, HedgeInv, Fits
    <2>2. order[key].filled = 0 /\ order[key].shares = 0
        BY <2>1 DEF HedgeInv, Sized, Inv, Shape, NoOrder
    <2>3. /\ UNCHANGED <<order, stray, remaining, dirty, pc, request>> /\ key < MaxKeys
          /\ key' = key + 1 /\ pc = "idle"
        BY <1>13 DEF NewKey, brokerVars
    <2>4. remaining' = remaining - order[key].filled /\ request'.shares \in 0..remaining'
        BY <2>2, <2>3 DEF HedgeInv, Fits, Amount
    <2> QED BY <1>11, <2>1, <2>3, <2>4
<1>14. CASE UNCHANGED vars
    BY <1>14, FillsKept DEF vars, brokerVars, callerVars, HedgeInv, Sized, Fits, Left,
            Counted, Free
<1> QED
    BY <1>1, <1>2, <1>3, <1>4, <1>6, <1>7, <1>8, <1>9, <1>10, <1>12, <1>13, <1>14 DEF Next

(* Both invariants hold of every behaviour. *)
LEMMA SpecHedge == Spec => [](Inv /\ HedgeInv)
BY InitInv, NextInv, InitHedge, NextHedge, PTL DEF Spec

(* However attempts are lost, resent under their key, adopted, recovered and *)
(* released, what all orders of the caller fill is never more than it needs. *)
THEOREM NeverHedgedTwiceHolds == Spec => []NeverHedgedTwice
<1>1. Inv /\ HedgeInv => NeverHedgedTwice
    <2> SUFFICES ASSUME Inv, HedgeInv PROVE NeverHedgedTwice
        OBVIOUS
    <2>1. /\ order[key].filled \in 0..order[key].shares /\ order[key].shares \in 0..Need
          /\ order[key].shares <= remaining /\ remaining \in 0..Need
        BY DEF Inv, Shape, HedgeInv, Sized, Fits, Amount
    <2>2. SumFunction(KeyFills) = Need - remaining + order[key].filled
        BY DEF HedgeInv, Counted
    <2>3. SumFunction(KeyFills) <= Need
        BY <2>1, <2>2, PlacementAssumption
    <2> QED BY <2>3 DEF NeverHedgedTwice, KeyFills
<1> QED BY <1>1, SpecHedge, PTL

-----------------------------------------------------------------------------
(* The orders that convert USDC, and the poll that waits for one.            *)

Final == {"filled", "partial", "timed_out", "failed", "incomplete", "terminal"}

\* The order at the broker, and what a read found of it: a fill only grows,
\* and nothing moves an order that was found to have ended.
Order ==
    /\ status = "none" => fill = 0
    /\ status \in Live => fill < Size
    /\ snap.fill <= fill
    /\ snap.status \in Terminal => status = snap.status
            /\ snap.fill \in {fill, Unreported}

\* The fill the poll remembers is the largest one its reads reported.
Seen ==
    /\ mostSeen <= fill
    /\ snap.fill = Unreported \/ mostSeen <= snap.fill
    /\ stage # "done" => lastFilled = mostSeen
    /\ result.kind = "not_settled" => result.fill = mostSeen

\* What a poll that ended says.
Told ==
    /\ stage # "done" => result.kind = "running"
    /\ result.kind \in Final =>
          /\ status = result.status /\ status \in Terminal
          /\ result.fill \in {fill, Unreported}
          /\ result.kind = "timed_out" => fill = 0
          /\ result.kind = "partial" => fill > 0
    /\ result.kind = "never_placed" /\ straySubmit # "late" => status \notin Live

Before == {"placing", "finding", "check", "reading", "sleeping"}
Settling == {"settle", "settle_reading", "settle_sleeping"}

\* The end of the settle window, counted from the start of the poll.
WindowEnd == OrderDeadline + CancelTimeout + SettleDeadline

\* The time spent and the time left, phase by phase: before the deadline, in
\* the first cancel, and in the settle window, which a cancel sent again may
\* overrun by its timeout.
Phases ==
    /\ stage \in Before => cancel = "none" /\ elapsed + left <= OrderDeadline
    /\ stage = "cancel" /\ cancel = "none" => elapsed <= OrderDeadline
    /\ stage = "cancelling" /\ cancel = "none" => elapsed + nap <= OrderDeadline + CancelTimeout
    /\ stage = "cancel" /\ cancel # "none" => left > 0
    /\ stage = "cancelling" => elapsed + nap <= WindowEnd + CancelTimeout
    /\ stage \in Settling => cancel # "none"
    /\ cancel # "none" /\ left > 0 /\ stage # "done" => elapsed + left <= WindowEnd
    /\ stage \in {"sleeping", "settle_sleeping"} => nap <= left
    /\ elapsed <= WindowEnd + CancelTimeout

\* TypeOK in two parts.
Naps == 0..Max2(CancelTimeout, Longest)
Places == {"placing", "finding", "check", "reading", "sleeping", "cancel", "cancelling",
           "settle", "settle_reading", "settle_sleeping", "done"}
AnyFill == Fills \cup {Unreported}

CallType ==
    /\ mode \in {"until_filled", "to_terminal"} /\ policy \in {"Return", "RetryInPlace"}
    /\ status \in Statuses /\ fill \in Fills
    /\ straySubmit \in {"none", "under way", "late"} /\ calls \in 1..MaxCalls
    /\ strayCancel \in BOOLEAN /\ stage \in Places

PollType ==
    /\ left \in 0..Longest /\ nap \in Naps /\ elapsed \in Nat
    /\ snap \in Snaps /\ lastFilled \in AnyFill /\ mostSeen \in AnyFill
    /\ cancel \in {"none", "Accepted", "Declined", "Failed"}
    /\ reply \in {"none", "requested", "declined"}
    /\ result \in Results

ConversionInv == ConvTypeOK /\ Order /\ Seen /\ Told /\ Phases

-----------------------------------------------------------------------------

LEMMA MinMax ==
    ASSUME NEW a \in Int, NEW b \in Int
    PROVE  /\ Min2(a, b) \in {a, b} /\ Min2(a, b) <= a /\ Min2(a, b) <= b
           /\ Max2(a, b) \in {a, b} /\ Max2(a, b) >= a /\ Max2(a, b) >= b
BY DEF Min2, Max2

(* The numbers of the state and of the configuration. *)
LEMMA Numbers ==
    /\ OrderDeadline \in Nat /\ SettleDeadline \in Nat /\ CancelTimeout \in Nat
    /\ MaxHold \in Nat /\ Size \in Nat /\ Size > 0 /\ Interval \in Nat
    /\ MaxCalls \in Nat /\ MaxCalls > 0
    /\ Longest \in Nat /\ OrderDeadline <= Longest
            /\ SettleDeadline <= Longest
    /\ WindowEnd \in Nat /\ OrderDeadline <= WindowEnd
    /\ Max2(CancelTimeout, Longest) \in Nat
    /\ CancelTimeout <= Max2(CancelTimeout, Longest)
    /\ Longest <= Max2(CancelTimeout, Longest)
<1>1. /\ OrderDeadline \in Nat /\ SettleDeadline \in Nat /\ CancelTimeout \in Nat
      /\ MaxHold \in Nat /\ Size \in Nat /\ Size > 0 /\ Interval \in Nat
      /\ MaxCalls \in Nat /\ MaxCalls > 0
    BY DeadlinesAssumption
<1>2. Longest \in Nat /\ OrderDeadline <= Longest /\ SettleDeadline <= Longest
    BY <1>1, MinMax DEF Longest
<1>3. /\ Max2(CancelTimeout, Longest) \in Nat
      /\ CancelTimeout <= Max2(CancelTimeout, Longest)
      /\ Longest <= Max2(CancelTimeout, Longest)
    BY <1>1, <1>2, MinMax
<1> QED BY <1>1, <1>2, <1>3 DEF WindowEnd

LEMMA Amounts ==
    ASSUME ConvTypeOK
    PROVE  /\ fill \in Nat /\ fill <= Size /\ left \in Nat /\ left <= Longest
           /\ nap \in Nat /\ nap <= Max2(CancelTimeout, Longest) /\ elapsed \in Nat
           /\ snap.fill \in Int /\ snap.status \in Statuses
           /\ lastFilled \in Int /\ mostSeen \in Int
           /\ Unreported = -1 /\ -1 <= snap.fill /\ -1 <= mostSeen
<1>1. \A n \in Fills \cup {Unreported} : n \in Int /\ -1 <= n
    BY Numbers DEF Fills, Unreported
<1>2. /\ snap.fill \in Fills \cup {Unreported} /\ snap.status \in Statuses
      /\ lastFilled \in Fills \cup {Unreported}
              /\ mostSeen \in Fills \cup {Unreported}
    BY DEF ConvTypeOK, Snaps
<1>3. /\ fill \in 0..Size /\ left \in 0..Longest
      /\ nap \in 0..Max2(CancelTimeout, Longest) /\ elapsed \in Nat
    BY DEF ConvTypeOK, Fills
<1>4. /\ fill \in Nat /\ fill <= Size /\ left \in Nat /\ left <= Longest
      /\ nap \in Nat /\ nap <= Max2(CancelTimeout, Longest)
    BY <1>3, Numbers
<1> QED BY <1>1, <1>2, <1>3, <1>4 DEF Unreported

(* A scheduled sleep is cut to what is left of the window. *)
LEMMA NapBounded ==
    ASSUME ConvTypeOK, NEW scheduled \in Nat
    PROVE  next_poll_delay(scheduled) \in 0..left
BY Amounts, MinMax DEF next_poll_delay

LEMMA WaitType ==
    ASSUME NEW hint \in Hints
    PROVE  capped_backpressure_wait(hint) \in Nat
<1>1. hint \in Nat /\ MaxHold \in Nat /\ Interval \in Nat
    BY DeadlinesAssumption
<1>2. Min2(hint, MaxHold) \in Nat
    BY <1>1, MinMax
<1> QED BY <1>1, <1>2, MinMax DEF capped_backpressure_wait

(* An answer has the shape of a result. *)
LEMMA EndType ==
    ASSUME ConvTypeOK, NEW kind \in Kinds, NEW s \in Statuses,
           NEW f \in Fills \cup {Unreported},
           End(kind, s, f)
    PROVE  /\ stage' = "done" /\ result'.kind = kind /\ result'.status = s /\ result'.fill = f
           /\ result' \in Results
BY DEF End, ConvTypeOK, Results

LEMMA OutcomeType ==
    ASSUME NEW s, NEW f, NEW d \in BOOLEAN
    PROVE  Outcome(s, f, d) \in Final /\ Outcome(s, f, d) \in Kinds
BY DEF Outcome, Final, Kinds

(* The initial states satisfy the invariant. *)
LEMMA ConversionInit ==
    ConvInit => ConversionInv
<1> SUFFICES ASSUME ConvInit PROVE ConversionInv
    OBVIOUS
<1>1. NoSnap \in Snaps
      /\ Running \in Results
    BY DEF NoSnap, Running, Statuses, Kinds, Snaps, Results
<1>2. ConvTypeOK
    <2>1. strayCancel \in BOOLEAN
        BY DEF ConvInit
    <2>2. /\ fill \in Fills /\ calls \in 1..MaxCalls /\ left \in 0..Longest
          /\ nap \in 0..Max2(CancelTimeout, Longest) /\ elapsed \in Nat
        BY Numbers DEF ConvInit, Fills
    <2> QED BY <1>1, <2>1, <2>2 DEF ConvInit, ConvTypeOK, Statuses
<1>3. Order /\ Seen
    BY Numbers DEF ConvInit, Order, Seen, NoSnap, Running, Live, Terminal,
       Unreported
<1>4. Told
    BY DEF ConvInit, Told, Running, Final
<1>5. Phases
    BY Numbers DEF ConvInit, Phases, Before, Settling
<1> QED BY <1>2, <1>3, <1>4, <1>5 DEF ConversionInv

-----------------------------------------------------------------------------

LEMMA TypeParts == ConvTypeOK <=> CallType /\ PollType
BY DEF ConvTypeOK, CallType, PollType, Places, Naps, AnyFill

(* What a call that starts over begins with. *)
LEMMA AgainFresh ==
    ASSUME ConvTypeOK, Again
    PROVE  /\ calls' \in 1..MaxCalls /\ stage' = "finding" /\ result' = Running
           /\ left' = OrderDeadline /\ nap' = 0 /\ snap' = NoSnap
           /\ lastFilled' = Unreported /\ mostSeen' = Unreported
           /\ cancel' = "none" /\ reply' = "none" /\ elapsed' = 0
           /\ UNCHANGED <<mode, policy, fill>>
<1>1. calls \in 1..MaxCalls /\ calls < MaxCalls /\ calls' = calls + 1
    BY DEF Again, ConvTypeOK
<1>2. calls' \in 1..MaxCalls
    BY <1>1, Numbers
<1> QED BY <1>2 DEF Again

(* What a placement without an answer leaves. *)
LEMMA UnansweredLeaves ==
    ASSUME Unanswered
    PROVE  /\ status' = status \/ (status = "none" /\ status' = "open")
           /\ straySubmit' \in {straySubmit, "under way"}
BY DEF Unanswered

(* Every step keeps the call's variables in their sets. *)
LEMMA NextCallType ==
    ConvTypeOK /\ Order /\ [ConvNext]_convVars => CallType'
<1> SUFFICES ASSUME ConvTypeOK, Order, [ConvNext]_convVars PROVE CallType'
    OBVIOUS
<1>0. CallType
    BY TypeParts
<1> USE DEF orderVars, pollVars, cancelVars, callVars
<1>1. CASE Fill
    <2>1. fill' = fill + 1 /\ fill < Size /\ status' \in Statuses
        BY <1>0, <1>1 DEF Fill, Order, CallType, Statuses, Live, Terminal
    <2>2. fill' \in Fills
        BY <2>1, Numbers, Amounts DEF Fills
    <2> QED BY <1>0, <1>1, <2>1, <2>2 DEF Fill, CallType
<1>2. ASSUME status' \in Statuses, strayCancel' \in BOOLEAN, stage' \in Places,
             mode' \in {"until_filled", "to_terminal"},
             straySubmit' \in {"none", "under way", "late"},
             UNCHANGED <<policy, fill>>, calls' \in 1..MaxCalls
      PROVE  CallType'
    BY <1>0, <1>2 DEF CallType
<1>3. CASE MoveOrder \/ TakeStraySubmit \/ Submit
    <2>1. /\ status' \in Statuses /\ straySubmit' \in {"none", "under way", "late"}
          /\ stage' \in Places
        BY <1>0, <1>3 DEF MoveOrder, TakeStraySubmit, Submit, CallType, Statuses,
           Live,
                          Terminal, Places
    <2> QED BY <1>0, <1>2, <1>3, <2>1 DEF MoveOrder, TakeStraySubmit, Submit, CallType
<1>4. CASE TakeCancel \/ TakeStrayCancel
    <2>1. status' \in Statuses /\ strayCancel' \in BOOLEAN
        BY <1>0, <1>4 DEF TakeCancel, TakeStrayCancel, CallType, Statuses, Live
    <2> QED BY <1>0, <1>2, <1>4, <2>1 DEF TakeCancel, TakeStrayCancel, CallType
<1>5. CASE SubmitFails
    <2>1. status' \in Statuses /\ straySubmit' \in {"none", "under way", "late"}
        BY <1>0, <1>5, UnansweredLeaves DEF SubmitFails, CallType, Statuses, Live
    <2>2. stage' \in Places
        BY <1>5 DEF SubmitFails, End, Places
    <2> QED BY <1>0, <1>2, <1>5, <2>1, <2>2 DEF SubmitFails, CallType
<1>6. CASE Resume
    BY <1>0, <1>2, <1>6, AgainFresh DEF Resume, CallType, Places
<1>7. CASE Crash
    <2>1. status' \in Statuses /\ straySubmit' \in {"none", "under way", "late"}
        BY <1>0, <1>7, UnansweredLeaves DEF Crash, CallType, Statuses, Live
    <2>2. strayCancel' \in BOOLEAN
        BY <1>0, <1>7 DEF Crash, CallType
    <2>3. Again
        BY <1>7 DEF Crash
    <2> QED BY <1>0, <1>2, <2>1, <2>2, <2>3, AgainFresh DEF CallType, Places
<1>8. ASSUME NEW answer, Find(answer) PROVE CallType'
    <2>1. /\ stage' \in Places /\ mode' \in {"until_filled", "to_terminal"}
          /\ UNCHANGED <<straySubmit, calls, policy, status, fill, strayCancel>>
        BY <1>0, <1>8 DEF Find, End, CallType, Places
    <2> QED BY <1>0, <1>2, <2>1 DEF CallType
<1>9. ASSUME NEW why, NEW hint, ReadFails(why, hint) PROVE CallType'
    BY <1>0, <1>2, <1>9 DEF ReadFails, End, SleepFor, CallType, Places
<1>10. CASE CancelFails
    <2>1. strayCancel' \in BOOLEAN
        BY <1>0, <1>10 DEF CancelFails, CallType
    <2> QED BY <1>0, <1>2, <1>10, <2>1 DEF CancelFails, CancelDone, CallType, Places
<1>11. CASE \/ StartRead \/ ReadOrder \/ DeadlinePassed \/ Wake
        \/ SendCancel
            \/ CancelAnswered \/ CancelNotFound \/ SettleReadFails \/ SettleWake
            \/ WindowEnds \/ Tick \/ Observe \/ UNCHANGED convVars
    <2>1. UNCHANGED <<straySubmit, calls, mode, policy, status, fill, strayCancel>>
        BY <1>11 DEF StartRead, ReadOrder, DeadlinePassed, Wake,
           SendCancel, CancelAnswered,
                     CancelNotFound, SettleReadFails, SettleWake, WindowEnds,
                     Tick,
                     Observe, convVars
    <2>2. stage' \in Places
        BY <1>0, <1>11 DEF StartRead, ReadOrder, DeadlinePassed, Wake,
           SendCancel,
                     CancelAnswered, CancelNotFound, SettleReadFails,
                     SettleWake,
                     WindowEnds, Tick, Observe, convVars, CallType, Places,
                     Settled, End,
                     SleepFor, CancelDone
    <2> QED BY <1>0, <1>2, <2>1, <2>2 DEF CallType
<1> QED
    BY <1>1, <1>3, <1>4, <1>5, <1>6, <1>7, <1>8, <1>9, <1>10, <1>11
       DEF ConvNext, PollStep, BrokerStep

(* Every step keeps the poll's variables in their sets. *)
LEMMA NextPollType ==
    ConvTypeOK /\ [ConvNext]_convVars => PollType'
<1> SUFFICES ASSUME ConvTypeOK, [ConvNext]_convVars PROVE PollType'
    OBVIOUS
<1>0. PollType
    BY TypeParts
<1> USE DEF orderVars, pollVars, cancelVars, callVars
<1>1. CASE \/ Fill \/ MoveOrder \/ TakeStrayCancel \/ Submit \/ TakeStraySubmit
           \/ DeadlinePassed \/ Wake \/ SettleWake \/ UNCHANGED convVars
    <2>1. UNCHANGED <<left, nap, elapsed, snap, lastFilled, mostSeen, cancel, reply, result>>
        BY <1>1 DEF Fill, MoveOrder, TakeStrayCancel, Submit,
           TakeStraySubmit, DeadlinePassed,
                    Wake, SettleWake, convVars
    <2> QED BY <1>0, <2>1 DEF PollType
<1>2. CASE TakeCancel
    BY <1>0, <1>2 DEF TakeCancel, PollType
<1>3. NoSnap \in Snaps /\ Running \in Results
    BY DEF NoSnap, Running, Statuses, Kinds, Snaps, Results
<1>4. CASE Observe \/ StartRead
    <2>1. snap' \in Snaps
        <3>1. [status |-> status, fill |-> fill] \in Snaps
              /\ [status |-> status, fill |-> Unreported] \in Snaps
            BY DEF ConvTypeOK, Snaps
        <3> QED BY <1>3, <1>4, <3>1 DEF Observe, StartRead
    <2> QED BY <1>0, <1>4, <2>1 DEF Observe, StartRead, PollType
<1>5. ASSUME NEW kind \in Kinds, NEW f \in AnyFill, End(kind, "none", f),
             nap' \in Naps, UNCHANGED <<left, elapsed, snap, lastFilled, mostSeen, cancel, reply>>
      PROVE  PollType'
    <2>1. result' \in Results
        BY <1>5, EndType DEF AnyFill, Statuses
    <2> QED BY <1>0, <1>5, <2>1 DEF PollType
<1>6. Unreported \in AnyFill
    BY DEF AnyFill
<1>7. CASE SubmitFails
    BY <1>0, <1>5, <1>6, <1>7 DEF SubmitFails, PollType, Kinds
<1>8. CASE Resume \/ Crash
    <2>1. Again
        BY <1>8 DEF Resume, Crash
    <2>2. OrderDeadline \in 0..Longest /\ 0 \in Naps
        BY Numbers DEF Naps
    <2> QED BY <1>3, <1>6, <2>1, <2>2, AgainFresh DEF PollType
<1>9. ASSUME NEW answer, Find(answer) PROVE PollType'
    <2>1. UNCHANGED <<left, nap, elapsed, snap, lastFilled, mostSeen, cancel, reply>>
        BY <1>9 DEF Find
    <2>2. CASE UNCHANGED result
        BY <1>0, <2>1, <2>2 DEF PollType
    <2>3. ASSUME NEW kind \in {"never_placed", "find_error"}, End(kind, "none",
                 Unreported)
          PROVE  PollType'
        BY <1>0, <1>5, <1>6, <2>1, <2>3 DEF PollType, Kinds
    <2> QED BY <1>9, <2>2, <2>3 DEF Find
<1>10. ASSUME NEW scheduled \in Nat PROVE next_poll_delay(scheduled) \in Naps
    <2>1. next_poll_delay(scheduled) \in 0..left
        BY NapBounded
    <2> QED BY <2>1, Numbers, Amounts DEF Naps
<1>11. CASE ReadOrder
    <2>1. /\ UNCHANGED <<left, snap, cancel, reply, elapsed>>
          /\ mostSeen' = Max2(mostSeen, snap.fill)
        BY <1>11 DEF ReadOrder
    <2>2. snap.fill \in AnyFill /\ snap.status \in Statuses
        BY <1>0 DEF PollType, Snaps, AnyFill
    <2>3. mostSeen' \in AnyFill
        BY <1>0, <2>1, <2>2 DEF PollType, Max2
    <2>4. CASE terminal(snap.status)
        <3>1. Settled(stage = "settle_reading") /\ UNCHANGED <<nap, lastFilled>>
            BY <1>11, <2>4 DEF ReadOrder
        <3>2. Outcome(snap.status, snap.fill, stage = "settle_reading") \in Kinds
            BY OutcomeType
        <3>3. result' \in Results
            BY <2>2, <3>1, <3>2, EndType DEF Settled, AnyFill
        <3> QED BY <1>0, <2>1, <2>3, <3>1, <3>3 DEF PollType
    <2>5. CASE ~terminal(snap.status)
        <3>1. nap' = next_poll_delay(Interval) /\ lastFilled' = reported
                /\ UNCHANGED result
            BY <1>11, <2>5 DEF ReadOrder, SleepFor
        <3>2. nap' \in Naps
            BY <1>10, <3>1, Numbers
        <3>3. lastFilled' \in AnyFill
            BY <1>0, <2>2, <3>1 DEF reported, PollType
        <3> QED BY <1>0, <2>1, <2>3, <3>1, <3>2, <3>3 DEF PollType
    <2> QED BY <2>4, <2>5
<1>12. ASSUME NEW why, NEW hint \in Hints, ReadFails(why, hint) PROVE PollType'
    <2>1. UNCHANGED <<left, elapsed, snap, lastFilled, mostSeen, cancel, reply>>
        BY <1>12 DEF ReadFails
    <2>2. ASSUME NEW kind \in {"read_error", "throttled"}, End(kind, "none", Unreported),
                 UNCHANGED nap
          PROVE  PollType'
        BY <1>0, <1>5, <1>6, <2>1, <2>2 DEF PollType, Kinds
    <2>3. ASSUME NEW scheduled \in Nat, nap' = next_poll_delay(scheduled), UNCHANGED result
          PROVE  PollType'
        BY <1>0, <1>10, <2>1, <2>3 DEF PollType
    <2>4. capped_backpressure_wait(hint) \in Nat /\ Interval \in Nat
        BY WaitType, Numbers
    <2> QED BY <1>12, <2>2, <2>3, <2>4 DEF ReadFails, SleepFor
<1>13. CancelTimeout \in Naps /\ 0 \in Naps
    BY Numbers DEF Naps
<1>14. CASE SendCancel
    BY <1>0, <1>13, <1>14 DEF SendCancel, PollType
<1>15. CASE CancelAnswered \/ CancelFails
    <2>1. SettleDeadline \in 0..Longest
        BY Numbers
    <2>2. /\ UNCHANGED <<elapsed, snap, lastFilled, mostSeen, reply, result>>
          /\ left' \in {SettleDeadline, left} /\ nap' = 0
          /\ cancel' \in {"Accepted", "Declined", "Failed"}
        BY <1>15 DEF CancelAnswered, CancelFails, CancelDone
    <2> QED BY <1>0, <1>13, <2>1, <2>2 DEF PollType
<1>16. CASE CancelNotFound
    BY <1>5, <1>6, <1>13, <1>16 DEF CancelNotFound, Kinds
<1>17. CASE SettleReadFails
    <2>1. nap' \in Naps
        BY <1>10, <1>17, Numbers DEF SettleReadFails, SleepFor
    <2> QED BY <1>0, <1>17, <2>1 DEF SettleReadFails, PollType
<1>18. CASE WindowEnds
    BY <1>0, <1>5, <1>18 DEF WindowEnds, PollType, Kinds
<1>19. CASE Tick
    <2>1. /\ left' = Max2(left - 1, 0) /\ nap' = Max2(nap - 1, 0)
            /\ elapsed' = elapsed + 1
          /\ UNCHANGED <<snap, lastFilled, mostSeen, cancel, reply, result>>
        BY <1>19 DEF Tick
    <2>2. /\ Max2(left - 1, 0) \in {left - 1, 0} /\ Max2(left - 1, 0) >= 0
          /\ Max2(nap - 1, 0) \in {nap - 1, 0} /\ Max2(nap - 1, 0) >= 0
        BY Amounts, MinMax
    <2>3. left' \in 0..Longest /\ nap' \in Naps /\ elapsed' \in Nat
        BY <2>1, <2>2, Amounts, Numbers DEF Naps
    <2> QED BY <1>0, <2>1, <2>3 DEF PollType
<1> QED
    BY <1>1, <1>2, <1>4, <1>7, <1>8, <1>9, <1>11, <1>12, <1>14, <1>15, <1>16, <1>17,
       <1>18, <1>19 DEF ConvNext, PollStep, BrokerStep

LEMMA NextType ==
    ConvTypeOK /\ Order /\ [ConvNext]_convVars => ConvTypeOK'
<1> SUFFICES ASSUME ConvTypeOK, Order, [ConvNext]_convVars PROVE ConvTypeOK'
    OBVIOUS
<1>1. CallType' /\ PollType'
    BY NextCallType, NextPollType
<1> QED BY <1>1 DEF ConvTypeOK, CallType, PollType, Places, Naps, AnyFill

-----------------------------------------------------------------------------

(* What every step does to the order: it fills a unit, changes between live  *)
(* statuses or ends, or is placed; an order that ended stays as it is.        *)
OrderStep ==
    \/ UNCHANGED <<status, fill>>
    \/ /\ status \in {"open", "pending_cancel"} /\ fill' = fill + 1
       /\ status' = IF fill' = Size THEN "filled" ELSE status
    \/ status \in Live /\ status' \in Statuses \ {"none"} /\ fill' = fill
    \/ status = "none" /\ status' = "open" /\ fill' = fill

LEMMA BrokerMoves ==
    ConvTypeOK /\ [ConvNext]_convVars => OrderStep
<1> SUFFICES ASSUME ConvTypeOK, [ConvNext]_convVars PROVE OrderStep
    OBVIOUS
<1> USE DEF orderVars, OrderStep
<1>1. CASE Fill
    BY <1>1 DEF Fill
<1>2. CASE MoveOrder
    BY <1>2 DEF MoveOrder, Live, Statuses, Terminal
<1>3. CASE TakeCancel \/ TakeStrayCancel
    BY <1>3 DEF TakeCancel, TakeStrayCancel, Cancelable, Live, Statuses
<1>4. CASE Submit \/ TakeStraySubmit
    BY <1>4 DEF Submit, TakeStraySubmit
<1>5. CASE SubmitFails
    BY <1>5, UnansweredLeaves DEF SubmitFails
<1>6. CASE Resume \/ Crash
    <2>1. fill' = fill
        BY <1>6 DEF Resume, Crash, Again
    <2> QED BY <1>6, <2>1, UnansweredLeaves DEF Resume, Crash
<1>7. ASSUME NEW answer, Find(answer) PROVE OrderStep
    BY <1>7 DEF Find
<1>8. ASSUME NEW why, NEW hint, ReadFails(why, hint) PROVE OrderStep
    BY <1>8 DEF ReadFails
<1>9. CASE \/ StartRead \/ ReadOrder \/ DeadlinePassed \/ Wake
        \/ SendCancel
           \/ CancelAnswered \/ CancelFails \/ CancelNotFound \/ SettleReadFails
           \/ SettleWake \/ WindowEnds \/ Tick \/ Observe \/ UNCHANGED convVars
    BY <1>9 DEF StartRead, ReadOrder, DeadlinePassed, Wake, SendCancel,
       CancelAnswered,
                CancelFails, CancelNotFound, SettleReadFails, SettleWake,
                WindowEnds, Tick,
                Observe, convVars
<1> QED
    BY <1>1, <1>2, <1>3, <1>4, <1>5, <1>6, <1>7, <1>8, <1>9 DEF ConvNext, PollStep,
       BrokerStep

(* What every step does to the snapshot of a read: it keeps it, drops it, or *)
(* a read finds the order as it is.                                           *)
LEMMA SnapStep ==
    ConvTypeOK /\ [ConvNext]_convVars =>
        \/ snap' \in {snap, NoSnap}
        \/ /\ UNCHANGED <<status, fill, mostSeen>>
           /\ snap'.status = status /\ snap'.fill \in {fill, Unreported}
<1> SUFFICES ASSUME ConvTypeOK, [ConvNext]_convVars, snap' \notin {snap, NoSnap}
             PROVE  /\ UNCHANGED <<status, fill, mostSeen>>
                    /\ snap'.status = status /\ snap'.fill \in {fill, Unreported}
    OBVIOUS
<1>1. Observe
    <2>1. ~StartRead /\ ~Resume /\ ~Crash
        BY DEF StartRead, Resume, Crash, Again
    <2>2. ~(Fill \/ MoveOrder \/ TakeCancel \/ TakeStrayCancel
            \/ TakeStraySubmit \/ Tick)
        BY DEF Fill, MoveOrder, TakeCancel, TakeStrayCancel, TakeStraySubmit,
           Tick, pollVars
    <2>3. ~(Submit \/ SubmitFails \/ ReadOrder \/ DeadlinePassed \/ Wake)
          /\ \A answer : ~Find(answer)
          /\ \A why, hint : ~ReadFails(why, hint)
        BY DEF Submit, SubmitFails, Find, ReadOrder, DeadlinePassed,
           Wake, ReadFails, pollVars
    <2>4. ~(SendCancel \/ CancelAnswered \/ CancelFails \/ CancelNotFound
            \/ SettleReadFails \/ SettleWake \/ WindowEnds \/ UNCHANGED convVars)
        BY DEF SendCancel, CancelAnswered, CancelFails, CancelNotFound,
           SettleReadFails,
               SettleWake, WindowEnds, convVars, pollVars
    <2> QED BY <2>1, <2>2, <2>3, <2>4 DEF ConvNext, PollStep, BrokerStep
<1> QED BY <1>1 DEF Observe, orderVars

(* Every step keeps what is known of the order and of its snapshot. *)
LEMMA NextOrder ==
    ConvTypeOK /\ Order /\ [ConvNext]_convVars => Order'
<1> SUFFICES ASSUME ConvTypeOK, Order, [ConvNext]_convVars PROVE Order'
    OBVIOUS
<1>1. OrderStep
    BY BrokerMoves
<1>2. /\ status \in Statuses /\ fill \in Nat /\ Size \in Nat /\ Size > 0
      /\ snap.fill \in Int /\ Unreported = -1
    BY Amounts, Numbers DEF ConvTypeOK
<1>3. status' = "none" => fill' = 0
    BY <1>1, <1>2 DEF OrderStep, Order
<1>4. status' \in Live => fill' < Size
    BY <1>1, <1>2 DEF OrderStep, Order, Live, Statuses, Terminal
<1>5. fill' \in Nat /\ fill <= fill'
    BY <1>1, <1>2 DEF OrderStep
<1>6. status \in Terminal => status' = status /\ fill' = fill
    BY <1>1, <1>2 DEF OrderStep, Terminal, Live
<1>7. /\ snap'.fill <= fill'
      /\ snap'.status \in Terminal
            => status' = snap'.status /\ snap'.fill \in {fill', Unreported}
    <2>1. CASE snap' = snap
        BY <1>2, <1>5, <1>6, <2>1 DEF Order
    <2>2. CASE snap' = NoSnap
        BY <1>2, <1>5, <2>2 DEF NoSnap, Terminal
    <2>3. CASE /\ UNCHANGED <<status, fill>>
               /\ snap'.status = status /\ snap'.fill \in {fill, Unreported}
        BY <1>2, <2>3
    <2> QED BY <2>1, <2>2, <2>3, SnapStep
<1> QED BY <1>3, <1>4, <1>7 DEF Order

(* A call that starts over has seen and said nothing. *)
LEMMA AgainSeen ==
    ASSUME ConvTypeOK, Order, Again
    PROVE  Seen' /\ result'.kind = "running" /\ stage' = "finding"
<1>1. /\ stage' = "finding" /\ result' = Running /\ snap' = NoSnap /\ fill' = fill
      /\ lastFilled' = Unreported /\ mostSeen' = Unreported
    BY AgainFresh
<1>2. Running.kind = "running" /\ NoSnap.fill = Unreported
    BY DEF Running, NoSnap
<1>3. Unreported <= fill
    BY Amounts
<1> QED BY <1>1, <1>2, <1>3 DEF Seen

(* What a read reports is remembered: every step keeps Seen. *)
LEMMA NextSeen ==
    ConvTypeOK /\ Order /\ Seen /\ Told /\ [ConvNext]_convVars => Seen'
<1> SUFFICES ASSUME ConvTypeOK, Order, Seen, Told, [ConvNext]_convVars PROVE Seen'
    OBVIOUS
<1> USE DEF orderVars, pollVars, cancelVars, callVars
<1>1. /\ fill \in Nat /\ fill' \in Nat /\ fill <= fill' /\ mostSeen \in Int
      /\ snap.fill \in Int /\ Unreported = -1 /\ -1 <= mostSeen /\ -1 <= snap.fill
    <2>1. OrderStep
        BY BrokerMoves
    <2> QED BY <2>1, Amounts DEF OrderStep
<1>2. CASE Resume \/ Crash
    BY <1>2, AgainSeen DEF Resume, Crash
<1>3. CASE ReadOrder
    <2>1. /\ mostSeen' = Max2(mostSeen, snap.fill) /\ UNCHANGED <<snap, fill>>
          /\ stage # "done" /\ lastFilled = mostSeen
        BY <1>3 DEF ReadOrder, Reading, Seen
    <2>2. mostSeen' = IF snap.fill = Unreported THEN mostSeen ELSE snap.fill
        BY <1>1, <2>1 DEF Max2, Seen
    <2>3. mostSeen' <= fill'
        BY <1>1, <2>1, <2>2 DEF Seen, Order
    <2>4. snap'.fill = Unreported \/ mostSeen' <= snap'.fill
        BY <1>1, <2>1, <2>2
    <2>5. CASE terminal(snap.status)
        <3>1. End(Outcome(snap.status, snap.fill, stage = "settle_reading"),
                  snap.status, snap.fill)
            BY <1>3, <2>5 DEF ReadOrder, Settled
        <3>2. /\ stage' = "done"
              /\ result'.kind = Outcome(snap.status, snap.fill, stage = "settle_reading")
            BY <3>1 DEF End
        <3>3. result'.kind \in Final
            BY <3>2 DEF Outcome, Final
        <3> QED BY <2>3, <2>4, <3>2, <3>3 DEF Seen, Final
    <2>6. CASE ~terminal(snap.status)
        <3>1. lastFilled' = mostSeen' /\ UNCHANGED result
            BY <1>3, <2>1, <2>2, <2>6 DEF ReadOrder, reported
        <3>2. result.kind # "not_settled"
            BY <2>1 DEF Told
        <3> QED BY <2>3, <2>4, <3>1, <3>2 DEF Seen
    <2> QED BY <2>5, <2>6
<1>4. CASE WindowEnds
    <2>1. /\ stage # "done" /\ stage' = "done" /\ result'.fill = lastFilled
          /\ UNCHANGED <<snap, fill, mostSeen>>
        BY <1>4 DEF WindowEnds, End
    <2> QED BY <2>1 DEF Seen
<1>5. CASE Observe \/ StartRead
    <2>1. /\ UNCHANGED <<fill, mostSeen, lastFilled, result>> /\ stage # "done" /\ stage' # "done"
          /\ snap'.fill \in {fill, Unreported}
        BY <1>5 DEF Observe, StartRead, NoSnap, Reading
    <2> QED BY <1>1, <2>1 DEF Seen
<1>6. ASSUME UNCHANGED <<snap, lastFilled, mostSeen>>, stage' # "done" => stage # "done",
             result'.kind = "not_settled" => UNCHANGED result
      PROVE  Seen'
    BY <1>1, <1>6 DEF Seen
<1>7. ASSUME NEW answer, Find(answer) PROVE Seen'
    <2>1. UNCHANGED <<snap, lastFilled, mostSeen>> /\ stage # "done"
        BY <1>7 DEF Find
    <2>2. result'.kind = "not_settled" => UNCHANGED result
        BY <1>7 DEF Find, End
    <2> QED BY <1>6, <2>1, <2>2
<1>8. ASSUME NEW why, NEW hint, ReadFails(why, hint) PROVE Seen'
    <2>1. UNCHANGED <<snap, lastFilled, mostSeen>> /\ stage # "done"
        BY <1>8 DEF ReadFails
    <2>2. result'.kind = "not_settled" => UNCHANGED result
        BY <1>8 DEF ReadFails, End
    <2> QED BY <1>6, <2>1, <2>2
<1>9. CASE SubmitFails \/ CancelNotFound
    <2>1. UNCHANGED <<snap, lastFilled, mostSeen>> /\ stage # "done"
          /\ result'.kind # "not_settled"
        BY <1>9 DEF SubmitFails, CancelNotFound, End
    <2> QED BY <1>6, <2>1
<1>10. CASE \/ Fill \/ MoveOrder \/ TakeCancel \/ TakeStrayCancel
        \/ TakeStraySubmit \/ Submit
            \/ DeadlinePassed \/ Wake \/ SendCancel \/ CancelAnswered
                    \/ CancelFails
            \/ SettleReadFails \/ SettleWake \/ Tick \/ UNCHANGED convVars
    <2>1. UNCHANGED <<snap, lastFilled, mostSeen, result>>
        BY <1>10 DEF Fill, MoveOrder, TakeCancel, TakeStrayCancel,
           TakeStraySubmit, Submit,
                DeadlinePassed, Wake, SendCancel, CancelAnswered,
                CancelFails, CancelDone,
                SettleReadFails, SettleWake, Tick, convVars
    <2>2. stage' # "done" => stage # "done"
        BY <1>10 DEF Fill, MoveOrder, TakeCancel, TakeStrayCancel,
           TakeStraySubmit, Submit,
                DeadlinePassed, Wake, SendCancel, CancelAnswered,
                CancelFails,
                SettleReadFails, SettleWake, Tick, convVars
    <2> QED BY <1>6, <2>1, <2>2
<1> QED
    BY <1>2, <1>3, <1>4, <1>5, <1>7, <1>8, <1>9, <1>10 DEF ConvNext, PollStep, BrokerStep

(* What was answered stays true: an order that ended does not move, and a    *)
(* live one is not found missing but placed by a placement still on its way. *)
LEMMA AnswerStays ==
    ASSUME ConvTypeOK, Order, Told, [ConvNext]_convVars,
           result' = result, stage' # "done" => stage # "done",
           straySubmit' = straySubmit \/ result.kind # "never_placed"
              \/ (straySubmit' = "late" /\ straySubmit = "under way")
              \/ (straySubmit = "under way" /\ status # "none"),
           result.kind = "never_placed" /\ straySubmit' # "late" /\ status = "none"
              => status' = "none"
    PROVE  Told'
<1>1. OrderStep
    BY BrokerMoves
<1>2. status \in Terminal => status' = status /\ fill' = fill
    BY <1>1 DEF OrderStep, Terminal, Live
<1>3. ASSUME result.kind = "never_placed", straySubmit' # "late" PROVE status' \notin Live
    <2>1. status \in Terminal \/ status = "none"
        BY <1>3 DEF Told, ConvTypeOK, Statuses
    <2>2. "none" \notin Live /\ \A s \in Terminal : s \notin Live
        BY DEF Live, Terminal
    <2> QED BY <1>2, <1>3, <2>1, <2>2
<1> QED BY <1>2, <1>3 DEF Told

(* Every step keeps what a poll that ended has said. *)
LEMMA NextTold ==
    ConvTypeOK /\ Order /\ Told /\ [ConvNext]_convVars => Told'
<1> SUFFICES ASSUME ConvTypeOK, Order, Told, [ConvNext]_convVars PROVE Told'
    OBVIOUS
<1> USE DEF orderVars, pollVars, cancelVars, callVars
<1>1. CASE Resume \/ Crash
    <2>1. result'.kind = "running"
        BY <1>1, AgainSeen DEF Resume, Crash
    <2> QED BY <2>1 DEF Told, Final
<1>2. CASE TakeStraySubmit
    <2>1. /\ result' = result /\ stage' = stage /\ straySubmit = "under way"
          /\ status = "none" /\ result.kind = "never_placed" => straySubmit' = "late"
        BY <1>2 DEF TakeStraySubmit
    <2> QED BY <2>1, AnswerStays
<1>3. CASE Fill \/ MoveOrder \/ TakeCancel \/ TakeStrayCancel
    <2>1. UNCHANGED <<result, stage, straySubmit>> /\ (status = "none" => status' = "none")
        BY <1>3 DEF Fill, MoveOrder, TakeCancel, TakeStrayCancel, Cancelable
    <2> QED BY <2>1, AnswerStays
<1>4. CASE ReadOrder
    <2>1. /\ snap.fill \in Int /\ fill \in Nat /\ Unreported = -1
          /\ UNCHANGED <<status, fill, straySubmit>> /\ stage # "done"
        BY <1>4, Amounts DEF ReadOrder, Reading
    <2>2. CASE terminal(snap.status)
        <3> DEFINE kind == Outcome(snap.status, snap.fill, stage = "settle_reading")
        <3>1. End(kind, snap.status, snap.fill)
            BY <1>4, <2>2 DEF ReadOrder, Settled
        <3>2. /\ stage' = "done" /\ result'.kind = kind /\ result'.status = snap.status
              /\ result'.fill = snap.fill
            BY <3>1 DEF End
        <3>3. kind \in Final
            BY OutcomeType
        <3>4. /\ kind = "timed_out" => snap.fill = 0
              /\ kind = "partial" => snap.fill # 0 /\ snap.fill # Unreported
            BY DEF Outcome
        <3>5. status = snap.status /\ status \in Terminal
                /\ snap.fill \in {fill, Unreported}
            BY <2>2 DEF terminal, Order
        <3> HIDE DEF kind
        <3>6. kind = "timed_out" => fill = 0
            BY <2>1, <3>4, <3>5
        <3>7. kind = "partial" => fill > 0
            BY <2>1, <3>4, <3>5
        <3> QED BY <2>1, <3>2, <3>3, <3>5, <3>6, <3>7 DEF Told, Final
    <2>3. CASE ~terminal(snap.status)
        BY <1>4, <2>1, <2>3 DEF ReadOrder, Told, Final
    <2> QED BY <2>2, <2>3
<1>5. ASSUME NEW answer, Find(answer) PROVE Told'
    <2>1. stage # "done" /\ UNCHANGED <<status, fill, straySubmit>>
        BY <1>5 DEF Find
    <2>2. CASE result' = result
        BY <2>1, <2>2, AnswerStays
    <2>3. CASE End("find_error", "none", Unreported)
        BY <2>3 DEF End, Told, Final
    <2>4. CASE End("never_placed", "none", Unreported)
            /\ find_conversion_order(answer) = "None"
        <3>1. answer = "404"
            BY <2>4 DEF find_conversion_order
        <3>2. status \notin Live
            BY <1>5, <3>1 DEF Find
        <3> QED BY <2>1, <2>4, <3>2 DEF End, Told, Final
    <2> QED BY <1>5, <2>2, <2>3, <2>4 DEF Find
<1>6. ASSUME NEW why, NEW hint, ReadFails(why, hint) PROVE Told'
    <2>1. stage # "done" /\ UNCHANGED <<status, fill, straySubmit>>
        BY <1>6 DEF ReadFails
    <2>2. CASE result' = result
        BY <2>1, <2>2, AnswerStays
    <2>3. ASSUME NEW kind \in {"read_error", "throttled"}, End(kind, "none", Unreported)
          PROVE  Told'
        BY <2>3 DEF End, Told, Final
    <2> QED BY <1>6, <2>2, <2>3 DEF ReadFails
<1>7. CASE SubmitFails \/ CancelNotFound \/ WindowEnds
    <2>1. stage' = "done" /\ result'.kind \in {"place_error", "not_found", "not_settled"}
        BY <1>7 DEF SubmitFails, CancelNotFound, WindowEnds, End
    <2> QED BY <2>1 DEF Told, Final
<1>8. CASE Submit
    <2>1. stage # "done" /\ result' = result /\ straySubmit' = straySubmit
        BY <1>8 DEF Submit
    <2>2. result.kind = "running"
        BY <2>1 DEF Told
    <2> QED BY <2>1, <2>2, AnswerStays
<1>9. CASE \/ Observe \/ StartRead \/ DeadlinePassed \/ Wake
        \/ SendCancel \/ CancelAnswered
           \/ CancelFails \/ SettleReadFails \/ SettleWake \/ Tick
                   \/ UNCHANGED convVars
    <2>1. UNCHANGED <<status, fill, straySubmit, result>>
        BY <1>9 DEF Observe, StartRead, DeadlinePassed, Wake,
           SendCancel, CancelAnswered,
                CancelFails, CancelDone, SettleReadFails, SettleWake,
                Tick, convVars
    <2>2. stage' # "done" => stage # "done"
        BY <1>9 DEF Observe, StartRead, DeadlinePassed, Wake,
           SendCancel, CancelAnswered,
                CancelFails, SettleReadFails, SettleWake, Tick, convVars
    <2> QED BY <2>1, <2>2, AnswerStays
<1> QED
    BY <1>1, <1>2, <1>3, <1>4, <1>5, <1>6, <1>7, <1>8, <1>9 DEF ConvNext, PollStep,
       BrokerStep

(* Every step keeps to the deadlines: no sleep outlasts its window, and time *)
(* only passes while the poll waits for a timer that is still running.       *)
LEMMA NextPhases ==
    ConvTypeOK /\ Phases /\ [ConvNext]_convVars => Phases'
<1> SUFFICES ASSUME ConvTypeOK, Phases, [ConvNext]_convVars PROVE Phases'
    OBVIOUS
<1> USE DEF orderVars, pollVars, cancelVars, callVars
<1>1. /\ left \in Nat /\ nap \in Nat /\ elapsed \in Nat
      /\ OrderDeadline \in Nat /\ SettleDeadline \in Nat /\ CancelTimeout \in Nat
      /\ Interval \in Nat
    BY Amounts, Numbers
<1>2. WindowEnd = OrderDeadline + CancelTimeout + SettleDeadline
    BY DEF WindowEnd
<1>3. ASSUME UNCHANGED <<left, nap, elapsed, cancel>>, stage' = stage \/ stage' = "done"
      PROVE  Phases'
    BY <1>3 DEF Phases, Before, Settling
<1>4. CASE Resume \/ Crash
    <2>1. /\ stage' = "finding" /\ cancel' = "none" /\ left' = OrderDeadline /\ elapsed' = 0
        BY <1>4 DEF Resume, Crash, Again
    <2> QED BY <1>1, <1>2, <2>1 DEF Phases, Before, Settling
<1>5. CASE Fill \/ MoveOrder \/ Observe \/ TakeCancel \/ TakeStrayCancel
        \/ TakeStraySubmit
        \/ SubmitFails \/ WindowEnds \/ UNCHANGED convVars
    <2>1. UNCHANGED <<left, nap, elapsed, cancel>>
        BY <1>5 DEF Fill, MoveOrder, Observe, TakeCancel, TakeStrayCancel,
           TakeStraySubmit,
                    SubmitFails, WindowEnds, convVars
    <2>2. stage' = stage \/ stage' = "done"
        BY <1>5 DEF Fill, MoveOrder, Observe, TakeCancel, TakeStrayCancel,
           TakeStraySubmit,
                    SubmitFails, WindowEnds, End, convVars
    <2> QED BY <1>3, <2>1, <2>2
<1>6. CASE CancelNotFound
    <2>1. UNCHANGED <<left, elapsed, cancel>> /\ stage' = "done"
        BY <1>6 DEF CancelNotFound, End
    <2> QED BY <2>1 DEF Phases, Before, Settling
<1>7. ASSUME UNCHANGED <<left, nap, elapsed, cancel>>, stage \in Before,
             stage' \in {"check", "placing", "reading"}
      PROVE  Phases'
    BY <1>7 DEF Phases, Before, Settling
<1>8. CASE Submit \/ Wake
    BY <1>7, <1>8 DEF Submit, Wake, Before
<1>9. ASSUME NEW answer, Find(answer) PROVE Phases'
    <2>1. UNCHANGED <<left, nap, elapsed, cancel>> /\ stage \in Before
        BY <1>9 DEF Find, Before
    <2>2. stage' \in {"check", "placing"} \/ stage' = "done"
        BY <1>9 DEF Find, End
    <2> QED BY <1>3, <1>7, <2>1, <2>2
<1>10. CASE StartRead
    <2>1. UNCHANGED <<left, nap, elapsed, cancel>>
        BY <1>10 DEF StartRead
    <2>2. CASE stage = "check" /\ stage' = "reading"
        BY <1>7, <2>1, <2>2 DEF Before
    <2>3. CASE stage = "settle" /\ stage' = "settle_reading"
        BY <2>1, <2>3 DEF Phases, Before, Settling
    <2> QED BY <1>10, <2>2, <2>3 DEF StartRead
<1>11. ASSUME UNCHANGED <<left, elapsed, cancel>>, nap' \in 0..left,
              \/ stage \in Before /\ stage' = "sleeping"
              \/ stage \in Settling /\ stage' = "settle_sleeping"
       PROVE  Phases'
    <2>1. nap' \in Nat /\ nap' <= left
        BY <1>1, <1>11
    <2> QED BY <1>1, <1>11, <2>1 DEF Phases, Before, Settling
<1>12. ASSUME NEW scheduled \in Nat PROVE next_poll_delay(scheduled) \in 0..left
    BY <1>12, NapBounded
<1>13. CASE ReadOrder
    <2>1. UNCHANGED <<left, elapsed, cancel>> /\ stage \in {"reading", "settle_reading"}
        BY <1>13 DEF ReadOrder, Reading
    <2>2. CASE terminal(snap.status)
        <3>1. nap' = nap /\ stage' = "done"
            BY <1>13, <2>2 DEF ReadOrder, Settled, End
        <3> QED BY <1>3, <2>1, <3>1
    <2>3. CASE ~terminal(snap.status)
        <3>1. /\ nap' = next_poll_delay(Interval)
              /\ stage' = IF stage = "reading" THEN "sleeping" ELSE "settle_sleeping"
            BY <1>13, <2>3 DEF ReadOrder, SleepFor
        <3> QED BY <1>1, <1>11, <1>12, <2>1, <3>1 DEF Before, Settling
    <2> QED BY <2>2, <2>3
<1>14. ASSUME NEW why, NEW hint \in Hints, ReadFails(why, hint) PROVE Phases'
    <2>1. UNCHANGED <<left, elapsed, cancel>> /\ stage = "reading"
        BY <1>14 DEF ReadFails
    <2>2. CASE stage' = "done" /\ nap' = nap
        BY <1>3, <2>1, <2>2
    <2>3. ASSUME NEW scheduled \in Nat, SleepFor(scheduled, "sleeping") PROVE Phases'
        <3>1. nap' \in 0..left /\ stage' = "sleeping"
            BY <1>12, <2>3 DEF SleepFor
        <3> QED BY <1>11, <2>1, <3>1 DEF Before
    <2>4. capped_backpressure_wait(hint) \in Nat
        BY WaitType
    <2>5. \/ stage' = "done" /\ nap' = nap
          \/ SleepFor(capped_backpressure_wait(hint), "sleeping")
          \/ SleepFor(Interval, "sleeping")
        BY <1>14 DEF ReadFails, End
    <2> QED BY <1>1, <2>2, <2>3, <2>4, <2>5
<1>15. CASE SettleReadFails
    <2>1. /\ UNCHANGED <<left, elapsed, cancel>> /\ stage = "settle_reading"
          /\ nap' = next_poll_delay(Interval) /\ stage' = "settle_sleeping"
        BY <1>15 DEF SettleReadFails, SleepFor
    <2> QED BY <1>1, <1>11, <1>12, <2>1 DEF Settling
<1>16. CASE DeadlinePassed
    <2>1. UNCHANGED <<left, nap, elapsed, cancel>> /\ stage \in {"check", "reading"}
          /\ stage' = "cancel"
        BY <1>16 DEF DeadlinePassed
    <2>2. cancel = "none" /\ elapsed <= OrderDeadline
        BY <1>1, <2>1 DEF Phases, Before
    <2> QED BY <2>1, <2>2 DEF Phases, Before, Settling
<1>17. CASE SendCancel
    <2>1. UNCHANGED <<left, elapsed, cancel>> /\ stage = "cancel" /\ stage' = "cancelling"
          /\ nap' = CancelTimeout
        BY <1>17 DEF SendCancel
    <2>2. elapsed <= WindowEnd /\ (cancel = "none" => elapsed <= OrderDeadline)
        BY <1>1, <1>2, <2>1 DEF Phases
    <2> QED BY <1>1, <1>2, <2>1, <2>2 DEF Phases, Before, Settling
<1>18. CASE CancelAnswered \/ CancelFails
    <2>1. /\ elapsed' = elapsed /\ stage = "cancelling" /\ stage' = "settle" /\ nap' = 0
          /\ left' = IF cancel = "none" THEN SettleDeadline ELSE left
          /\ cancel' # "none"
        BY <1>18 DEF CancelAnswered, CancelFails, CancelDone
    <2>2. elapsed <= WindowEnd + CancelTimeout
          /\ (cancel = "none" => elapsed <= OrderDeadline + CancelTimeout)
        BY <1>1, <2>1 DEF Phases
    <2>3. left' > 0 => elapsed' + left' <= WindowEnd
        BY <1>1, <1>2, <2>1, <2>2 DEF Phases
    <2> QED BY <2>1, <2>2, <2>3 DEF Phases, Before, Settling
<1>19. CASE SettleWake
    <2>1. UNCHANGED <<left, nap, elapsed, cancel>> /\ stage = "settle_sleeping"
          /\ stage' = IF cancel = "Failed" /\ left > 0 THEN "cancel" ELSE "settle"
        BY <1>19 DEF SettleWake
    <2> QED BY <2>1 DEF Phases, Before, Settling
<1>20. CASE Tick
    <2>1. /\ UNCHANGED <<stage, cancel>> /\ elapsed' = elapsed + 1
          /\ left' = Max2(left - 1, 0) /\ nap' = Max2(nap - 1, 0)
        BY <1>20 DEF Tick
    <2>2. \/ stage \in {"reading", "settle_reading"} /\ left > 0
          \/ stage \in {"sleeping", "settle_sleeping"} /\ nap > 0 /\ left > 0
          \/ stage = "cancelling" /\ nap > 0
        <3>1. stage \in Places
            BY DEF ConvTypeOK, Places
        <3> QED BY <1>1, <1>20, <3>1 DEF Tick, Due, Reading, Places, Phases
    <2>3. /\ left > 0 => left' = left - 1
          /\ left = 0 => left' = 0
          /\ nap > 0 => nap' = nap - 1
        BY <1>1, <2>1 DEF Max2
    <2>4. CASE stage = "cancelling" /\ nap > 0
        BY <1>1, <1>2, <2>1, <2>3, <2>4 DEF Phases, Before, Settling
    <2>5. CASE stage \in {"reading", "sleeping"} /\ left > 0 /\ (stage = "sleeping" => nap > 0)
        BY <1>1, <1>2, <2>1, <2>3, <2>5 DEF Phases, Before, Settling
    <2>6. CASE /\ stage \in {"settle_reading", "settle_sleeping"} /\ left > 0
               /\ stage = "settle_sleeping" => nap > 0
        BY <1>1, <1>2, <2>1, <2>3, <2>6 DEF Phases, Before, Settling
    <2> QED BY <2>2, <2>4, <2>5, <2>6
<1> QED
    BY <1>4, <1>5, <1>6, <1>8, <1>9, <1>10, <1>13, <1>14, <1>15, <1>16, <1>17, <1>18, <1>19,
       <1>20 DEF ConvNext, PollStep, BrokerStep

LEMMA ConversionInvariance ==
    ConvSpec => []ConversionInv
<1>1. ConversionInv /\ [ConvNext]_convVars => ConversionInv'
    BY NextType, NextOrder, NextSeen, NextTold, NextPhases DEF ConversionInv
<1>2. ConvInit => ConversionInv
    BY ConversionInit
<1> QED BY <1>1, <1>2, PTL DEF ConvSpec

(* Whatever the poll answers stays true of the order at the broker: an order *)
(* reported as filled, partly filled, timed out or failed has ended with the *)
(* amounts said, and one written off as never placed is not worked and never *)
(* fills again, through every crash, lost answer and resume, for a broker    *)
(* that may answer 404 for any order that has ended.                         *)
THEOREM AnswerIsFinalHolds ==
    ConvSpec => []AnswerIsFinal
<1>1. ConversionInv => AnswerIsFinal
    <2> SUFFICES ASSUME ConversionInv PROVE AnswerIsFinal
        OBVIOUS
    <2>1. OutcomeIsFinal
        BY DEF ConversionInv, Told, OutcomeIsFinal, Final, Terminal, Live
    <2>2. WrittenOffIsOver
        BY DEF ConversionInv, Told, WrittenOffIsOver
    <2> QED BY <2>1, <2>2 DEF AnswerIsFinal
<1>2. ConvSpec => []ConversionInv
    BY ConversionInvariance
<1> QED BY <1>1, <1>2, PTL

(* A poll that gives up on the settling cancel still reports the largest     *)
(* fill its reads saw, and no hint of the broker's makes it run longer than  *)
(* the deadline, the settle window and two cancel timeouts.                  *)
THEOREM KnownFillIsKeptHolds ==
    ConvSpec => []KnownFillIsKept
<1>1. ConversionInv => KnownFillIsKept
    <2> SUFFICES ASSUME ConversionInv PROVE KnownFillIsKept
        OBVIOUS
    <2>1. ConvTypeOK /\ (result.kind = "not_settled" => result.fill = mostSeen)
        BY DEF ConversionInv, Seen
    <2>2. elapsed <= WindowEnd + CancelTimeout /\ elapsed \in Nat
        BY <2>1, Amounts DEF ConversionInv, Phases
    <2>3. WaitIsBounded
        BY <2>2, Numbers DEF WaitIsBounded, WindowEnd
    <2> QED BY <2>1, <2>3 DEF KnownFillIsKept
<1>2. ConvSpec => []ConversionInv
    BY ConversionInvariance
<1> QED BY <1>1, <1>2, PTL
=============================================================================

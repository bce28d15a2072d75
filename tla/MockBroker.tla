----------------------------- MODULE MockBroker -----------------------------
(***************************************************************************)
(* The stand-in broker of the tests (src/broker/mock_api.rs): the account,  *)
(* its orders and positions, the order endpoints that change them, and the  *)
(* setters by which a test configures outcomes and faults at any moment.    *)
(* Each endpoint holds the lock of the state for its whole run, so each is  *)
(* one action. The wallet is in WalletWrites, the read endpoints in         *)
(* BrokerReads.                                                             *)
(*                                                                         *)
(* Money and quantities are counted in a unit smaller than both precisions  *)
(* the mock distinguishes, so that truncation shows.                        *)
(***************************************************************************)
EXTENDS Integers, Sequences, FiniteSetsExt, Functions

CONSTANTS
    Keys,        \* client order ids
    NoKey,       \* an order without one
    Symbols,     \* equity symbols
    Crypto,      \* USDCUSD
    Quantities,  \* sizes of equity orders, even, so that a half exists
    Sizes,       \* sizes of crypto orders
    Prices,      \* fill prices
    NoPrice,     \* none configured
    Micro,       \* units of the smallest USDC amount
    Cent,        \* units of a cent
    MaxOrders,   \* bound: orders recorded
    MaxDelay,    \* bound: polls a fill may be delayed by
    MaxFaults,   \* bound: faults armed at a time
    MaxChanges   \* bound: calls by the test itself

ASSUME MockAssumption ==
    /\ {Micro, Cent} \subseteq Nat \ {0}
    /\ {MaxOrders, MaxDelay, MaxFaults, MaxChanges} \subseteq Nat
    /\ \A q \in Quantities : q \in Nat \ {0} /\ q % 2 = 0
    /\ Sizes \cup Prices \subseteq Nat \ {0}
    /\ NoPrice \notin Prices \cup {1} /\ NoKey \notin Keys /\ Crypto \notin Symbols

VARIABLES
    mode,          \* MockMode
    rotating,      \* rotating_outcome_index
    delay,         \* symbol_fill_delays
    price,         \* symbol_fill_prices
    unauthorized,  \* placements still to be answered 401
    transient,     \* placements still to be answered 503 once recorded
    orders,        \* orders in the order they were placed
    cash,          \* account.cash
    positions,     \* account.positions, with quantity and market value
    usdc,          \* wallet_balances of USDC
    activities,    \* the ledger of activities
    changes,       \* calls by the test so far
    given          \* history: USDC set and shares added other than by orders

faults == <<unauthorized, transient>>
settings == <<mode, delay, price>>
mock_account == <<cash, positions, usdc>>
vars == <<settings, faults, rotating, orders, mock_account, activities, changes, given>>

Modes == {"HappyPath", "OrderRejected", "PlacementFails", "DelayedFill",
          "PartialFillThenCancel", "RotatingOutcomes"}
ROTATING_OUTCOMES == <<"Filled", "Rejected", "CancelledAfterPartialFill">>
NoOutcome == "none"
NoPosition == [quantity |-> 0, market_value |-> 0]

\* start: an account with cash, prices for some symbols. The cursor may be
\* anywhere, since orders of an earlier rotation that are polled no more have no
\* further effect.
Init ==
    /\ mode = "HappyPath" /\ rotating \in 1..3
    /\ delay = [s \in Symbols |-> 0]
    /\ price \in [Symbols -> Prices \cup {NoPrice}]
    /\ unauthorized = 0 /\ transient = 0
    /\ orders = <<>>
    /\ cash = 0
    /\ positions = [s \in Symbols |-> NoPosition]
    /\ usdc = 0
    /\ activities = <<>>
    /\ changes = 0
    /\ given = [s \in Symbols \cup {Crypto} |-> 0]

-----------------------------------------------------------------------------
(* What a test sets, between any two requests *)

\* set_mode, set_symbol_fill_price, set_symbol_fill_delay and the arming of
\* faults.
Configure ==
    /\ changes < MaxChanges
    /\ changes' = changes + 1
    /\ \/ /\ mode' \in Modes
          /\ UNCHANGED <<delay, price, faults>>
       \/ /\ \E s \in Symbols, p \in Prices : price' = [price EXCEPT ![s] = p]
          /\ UNCHANGED <<mode, delay, faults>>
       \/ /\ \E s \in Symbols, n \in 0..MaxDelay : delay' = [delay EXCEPT ![s] = n]
          /\ UNCHANGED <<mode, price, faults>>
       \/ /\ transient' \in 0..MaxFaults
          /\ UNCHANGED <<settings, unauthorized>>
       \/ /\ unauthorized' \in 0..MaxFaults
          /\ UNCHANGED <<settings, transient>>
    /\ <<settings, faults>>' # <<settings, faults>>
    /\ UNCHANGED <<rotating, orders, mock_account, activities, given>>

\* set_wallet_usdc_balance.
SetWalletBalance ==
    /\ changes < MaxChanges
    /\ changes' = changes + 1
    /\ \E n \in Sizes :
          /\ n # usdc /\ usdc' = n
          /\ given' = [given EXCEPT ![Crypto] = @ + n - usdc]
    /\ UNCHANGED <<settings, faults, rotating, orders, cash, positions, activities>>

\* adjust_position: the market value is marked anew, at 0 without a price.
AdjustPosition(s) ==
    /\ changes < MaxChanges
    /\ changes' = changes + 1
    /\ \E d \in Quantities \cup {-q : q \in Quantities} :
          LET quantity == positions[s].quantity + d IN
          /\ positions' = [positions EXCEPT
                ![s] = [quantity |-> quantity,
                        market_value |-> IF price[s] = NoPrice THEN @.market_value
                                         ELSE quantity * price[s]]]
          /\ given' = [given EXCEPT ![s] = @ + d]
    /\ UNCHANGED <<settings, faults, rotating, orders, cash, usdc, activities>>

push_state_activity(type) == activities' = Append(activities, type)

\* push_activity: a row other than a fee.
PushActivity ==
    /\ changes < MaxChanges
    /\ changes' = changes + 1
    /\ push_state_activity("DIV")
    /\ UNCHANGED <<settings, faults, rotating, orders, mock_account, given>>

-----------------------------------------------------------------------------
(* Placement *)

\* What parse_order_request lets through; a body without a symbol, a side or
\* exactly one size is answered 400 before the state is touched.
Requests ==
    [symbol : Symbols, sizing : {"quantity", "notional"}, amount : Quantities,
     side : {"buy", "sell"}, key : Keys \cup {NoKey}]
    \cup [symbol : {Crypto}, sizing : {"quantity", "notional"}, amount : Sizes,
          side : {"buy", "sell"}, key : Keys \cup {NoKey}]

MockOrder(r, quantity) ==
    [symbol |-> r.symbol, quantity |-> quantity, side |-> r.side,
     notional |-> r.sizing = "notional", status |-> "new", filled |-> 0, polls |-> 0,
     price |-> NoPrice, key |-> r.key, planned |-> NoOutcome]

\* An answer of 401 or 422: nothing was recorded.
Refuse == UNCHANGED <<rotating, transient, orders, mock_account, activities>>

truncate(n, unit) == n - (n % unit)

\* quantize_crypto_sizing: the precision of the size, 422 unless it is met.
quantized(r) ==
    LET unit == IF r.sizing = "quantity" THEN Micro ELSE Cent IN
    truncate(r.amount, unit) = r.amount

\* The USDC an order brings, negative for a sale.
signedAmount(r) == IF r.side = "buy" THEN r.amount ELSE -r.amount

\* Cash moves by whole cents against the USDC of the wallet.
apply_crypto_balances(r) ==
    /\ usdc + signedAmount(r) >= 0
    /\ usdc' = usdc + signedAmount(r)
    /\ cash' = IF r.side = "buy" THEN cash - truncate(r.amount, Cent)
               ELSE cash + truncate(r.amount, Cent)

\* Filled at once at a price of 1, or refused where the size is too fine or the
\* wallet holds too little. The key it was sent with is neither looked up nor
\* stored: a second order under it fills again.
handle_crypto_order(r) ==
    IF ~quantized(r) \/ usdc + signedAmount(r) < 0 THEN Refuse
    ELSE /\ apply_crypto_balances(r)
         /\ orders' = Append(orders, [MockOrder(r, r.amount) EXCEPT
                                         !.status = "filled", !.filled = r.amount,
                                         !.price = 1, !.key = NoKey])
         /\ UNCHANGED <<rotating, transient, positions, activities>>

recorded(key) == \E i \in DOMAIN orders : orders[i].key = key

\* An equity order: sized by quantity, under an unused key, and answered 503
\* after it was recorded as often as a test asked for, as if the answer were lost.
record_equity_order(r) ==
    LET rotate == mode = "RotatingOutcomes" IN
    IF r.sizing = "notional" \/ (r.key # NoKey /\ recorded(r.key)) THEN Refuse
    ELSE /\ orders' = Append(orders, [MockOrder(r, r.amount) EXCEPT
                         !.planned = IF rotate THEN ROTATING_OUTCOMES[rotating]
                                     ELSE NoOutcome])
         /\ rotating' = IF rotate THEN (rotating % 3) + 1 ELSE rotating
         /\ transient' = IF transient > 0 THEN transient - 1 ELSE 0
         /\ UNCHANGED <<mock_account, activities>>

\* POST orders.
Place(r) ==
    /\ Len(orders) < MaxOrders
    /\ IF unauthorized > 0 THEN Refuse /\ unauthorized' = unauthorized - 1
       ELSE /\ IF mode = "PlacementFails" THEN Refuse
               ELSE IF r.symbol = Crypto THEN handle_crypto_order(r)
               ELSE record_equity_order(r)
            /\ UNCHANGED unauthorized
    /\ UNCHANGED <<settings, changes, given>>

-----------------------------------------------------------------------------
(* Polling *)

\* The mode that governs one polled order.
poll_mode(m, planned) ==
    CASE planned = "Filled" -> "HappyPath"
      [] planned = "Rejected" -> "OrderRejected"
      [] planned = "CancelledAfterPartialFill" -> "PartialFillThenCancel"
      [] OTHER -> IF m = "RotatingOutcomes" THEN "HappyPath" ELSE m

\* Mutant: a fill books again each time it is polled.
applyFillAgain(i, extent) ==
    LET o == orders[i]
        quantity == IF extent = "full" THEN o.quantity ELSE o.quantity \div 2
        sign == IF o.side = "buy" THEN 1 ELSE -1
        cost == truncate(quantity * price[o.symbol], Cent)
    IN  IF o.status \notin {"new", "partially_filled"} THEN UNCHANGED <<mock_account, activities>>
        ELSE /\ cash' = cash - sign * cost
             /\ positions' = [positions EXCEPT ![o.symbol].quantity = @ + sign * quantity,
                                               ![o.symbol].market_value = @ + sign * cost]
             /\ push_state_activity("FEE")
             /\ UNCHANGED usdc

\* apply_fill's bookings: only a new order fills, once, at whole cents; cash,
\* position and market value move by it and the fee is only noted.
apply_fill(i, extent) ==
    LET o == orders[i]
        quantity == IF extent = "full" THEN o.quantity ELSE o.quantity \div 2
        sign == IF o.side = "buy" THEN 1 ELSE -1
        cost == truncate(quantity * price[o.symbol], Cent)
    IN  IF o.status # "new" THEN UNCHANGED <<mock_account, activities>>
        ELSE /\ cash' = cash - sign * cost
             /\ positions' = [positions EXCEPT ![o.symbol].quantity = @ + sign * quantity,
                                               ![o.symbol].market_value = @ + sign * cost]
             /\ push_state_activity("FEE")
             /\ UNCHANGED usdc

\* The order after such a fill.
filledOrder(o, extent) ==
    IF o.status # "new" THEN o
    ELSE [o EXCEPT !.status = IF extent = "full" THEN "filled" ELSE "partially_filled",
                   !.filled = IF extent = "full" THEN o.quantity ELSE o.quantity \div 2,
                   !.price = price[o.symbol]]

\* A fill needs a price, asked for before the status of the order is looked at;
\* the crypto symbol has none, even for its filled orders.
fill_price(s) == IF s \in Symbols THEN price[s] ELSE NoPrice

fill(i, o, extent) ==
    IF fill_price(o.symbol) = NoPrice
    THEN /\ orders' = [orders EXCEPT ![i] = o]
         /\ UNCHANGED <<mock_account, activities>>
    ELSE /\ orders' = [orders EXCEPT ![i] = filledOrder(o, extent)]
         /\ apply_fill(i, extent)

setStatus(i, o, status) ==
    /\ orders' = [orders EXCEPT ![i] = [o EXCEPT !.status = status]]
    /\ UNCHANGED <<mock_account, activities>>

\* Mutant: an order whose fill is delayed is new again.
advanceReopens(i, o) ==
    LET governing == poll_mode(mode, o.planned)
        wait == IF governing = "DelayedFill" THEN MaxDelay
                ELSE IF o.symbol \in Symbols THEN delay[o.symbol] ELSE 0
    IN  CASE governing \in {"HappyPath", "DelayedFill"} ->
                IF o.polls >= wait THEN fill(i, o, "full") ELSE setStatus(i, o, "new")
          [] governing = "OrderRejected" -> setStatus(i, o, "rejected")
          [] governing = "PartialFillThenCancel" ->
                IF o.status = "new" THEN fill(i, o, "half") ELSE setStatus(i, o, "canceled")
          [] OTHER -> setStatus(i, o, o.status)

\* advance_polled_order, for the order o polled once more: what the governing
\* mode does to it. Rejections and cancellations do not look at the status.
advance_polled_order(i, o) ==
    LET governing == poll_mode(mode, o.planned)
        wait == IF governing = "DelayedFill" THEN MaxDelay
                ELSE IF o.symbol \in Symbols THEN delay[o.symbol] ELSE 0
    IN  CASE governing \in {"HappyPath", "DelayedFill"} ->
                IF o.polls >= wait THEN fill(i, o, "full") ELSE setStatus(i, o, o.status)
          [] governing = "OrderRejected" -> setStatus(i, o, "rejected")
          [] governing = "PartialFillThenCancel" ->
                IF o.status = "new" THEN fill(i, o, "half") ELSE setStatus(i, o, "canceled")
          [] OTHER -> setStatus(i, o, o.status)

\* GET orders/{id}. The count matters to a new order only and up to the largest
\* delay, so it is kept no further.
Poll(i) ==
    /\ i \in DOMAIN orders
    /\ LET o == [orders[i] EXCEPT !.polls = IF orders[i].status = "new" /\ @ < MaxDelay
                                         THEN @ + 1 ELSE @] IN
       advance_polled_order(i, o)
    /\ UNCHANGED <<settings, faults, rotating, changes, given>>

-----------------------------------------------------------------------------

Next ==
    \/ Configure \/ SetWalletBalance \/ PushActivity
    \/ \E s \in Symbols : AdjustPosition(s)
    \/ \E r \in Requests : Place(r)
    \/ \E i \in 1..MaxOrders : Poll(i)

Spec == Init /\ [][Next]_vars

-----------------------------------------------------------------------------
(* Properties *)

Ended == {"filled", "canceled", "rejected"}

TypeOK ==
    /\ mode \in Modes /\ rotating \in 1..3
    /\ delay \in [Symbols -> 0..MaxDelay]
    /\ price \in [Symbols -> Prices \cup {NoPrice}]
    /\ unauthorized \in 0..MaxFaults /\ transient \in 0..MaxFaults
    /\ Len(orders) <= MaxOrders
    /\ \A i \in DOMAIN orders :
          /\ orders[i].status \in Ended \cup {"new", "partially_filled"}
          /\ orders[i].filled \in {0, orders[i].quantity \div 2, orders[i].quantity}
          /\ orders[i].key \in Keys \cup {NoKey}
    /\ cash \in Int /\ usdc \in Nat
    /\ \A s \in Symbols : positions[s].quantity \in Int

Signed(o) == IF o.side = "buy" THEN o.filled ELSE -o.filled

\* The cash an order's fill moved, from what the order itself reports.
Moved(o) ==
    LET cost == truncate(o.filled * (IF o.price = NoPrice THEN 0 ELSE o.price), Cent) IN
    IF o.side = "buy" THEN -cost ELSE cost

\* The shares or USDC all orders of a symbol brought.
Brought(s) ==
    SumFunction([i \in DOMAIN orders |-> IF orders[i].symbol = s THEN Signed(orders[i]) ELSE 0])

\* However modes, prices and faults change between two polls, the account is
\* the sum of what its orders report: cash of their fills at their prices in
\* whole cents, shares and USDC of their fills and of what a test gave.
AccountIsItsOrders ==
    /\ cash = SumFunction([i \in DOMAIN orders |-> Moved(orders[i])])
    /\ \A s \in Symbols : positions[s].quantity = given[s] + Brought(s)
    /\ usdc = given[Crypto] + Brought(Crypto)

\* The comment on the duplicate check: a key that was recorded names one order,
\* an answer of 503 after it included, so that a retry under the same key is told
\* of the duplicate. Conversions are recorded without theirs.
KeyNamesOneOrder ==
    \A i, j \in DOMAIN orders : orders[i].key = orders[j].key /\ i # j => orders[i].key = NoKey

\* One FEE row per executed fill, whatever is pushed between them.
OneFeePerFill ==
    Cardinality({i \in DOMAIN activities : activities[i] = "FEE"})
       = Cardinality({i \in DOMAIN orders : orders[i].symbol # Crypto /\ orders[i].filled > 0})

\* MockMode::RotatingOutcomes: an order keeps the outcome it was placed with
\* however the mode of the server changes while it is open.
PlannedOutcomeHolds ==
    \A i \in DOMAIN orders :
        LET o == orders[i] IN
        /\ o.planned = "Filled" => o.status \in {"new", "filled"}
        /\ o.planned = "Rejected" => o.status \in {"new", "rejected"} /\ o.filled = 0
        /\ o.planned = "CancelledAfterPartialFill" =>
              /\ o.status \in {"new", "partially_filled", "canceled"}
              /\ o.status # "new" <=> o.filled = o.quantity \div 2

\* However settings, faults, placements and polls interleave, the orders are a
\* BrokerBook: nothing fills twice, nothing ended fills or opens again, whichever
\* mode polls it next; only the label of an end may change, and never to filled.
Entry(o) ==
    [key |-> o.key, shares |-> o.quantity, filled |-> o.filled,
     state |-> IF o.status \in Ended THEN o.status ELSE "open"]

Shown ==
    [n \in 1..MaxOrders |->
        IF n \in DOMAIN orders THEN Entry(orders[n])
        ELSE [key |-> NoKey, shares |-> 0, filled |-> 0, state |-> "unused"]]

Book ==
    INSTANCE BrokerBook WITH
        Numbers <- 1..MaxOrders,
        Amounts <- Quantities \cup {q \div 2 : q \in Quantities} \cup Sizes,
        book <- Shown

IsBrokerBook == Book!Spec

\* The mock a test trusts: its account, its keys, its fee rows and its planned
\* outcomes agree however orders, polls, faults and configuration interleave.
BooksBalance ==
    TypeOK /\ AccountIsItsOrders /\ KeyNamesOneOrder /\ OneFeePerFill /\ PlannedOutcomeHolds
=============================================================================
